------------------------- MODULE FailoverRoles_proof -------------------------
(***************************************************************************)
(* Proofs about PartitionFailover with one controller: what a broker leads *)
(* and fetches is what its table says, and the table of a broker that      *)
(* never crashed is the controller's.  Neither holds with two controllers, *)
(* and the second not once broadcasts of one overlap, since nothing in a   *)
(* LeaderAndISR orders them.                                               *)
(***************************************************************************)
EXTENDS PartitionFailover_proof

-----------------------------------------------------------------------------
(* One controller, calls that do not break *)

\* The peer is at work on the call, or the broker on its own reconcile.
InWork(m) == m.stage # "sent"

\* Nothing was ever created or repeated, and at most one broker became controller.
Undisturbed == elections <= 1 /\ breaks = 0 /\ creates = 0

\* c is the only broker that has ever been controller: all calls are its own, or were
\* when it crashed.  A peer is at work on one of them at a time, c on no other reconcile
\* than its run_loop's.
OnlyController(c) ==
    /\ controller \subseteq {c}
    /\ \A b \in Broker \ {c} : loop[b] = "idle" /\ callback[b] = {}
    /\ callback[c] \subseteq {"loop"}
    /\ \A m \in tasks : m.from \in {c, NoBroker}
    /\ \A m \in tasks : m.at = c => m.from = c /\ m.thread = "loop" /\ InWork(m)
    /\ loop[c] = "check" => ~Busy(c, "loop")
    /\ "loop" \in callback[c] => \A m \in tasks : m.at # c
    /\ \A m \in tasks : m.from = NoBroker =>
         /\ elections = 1 /\ controller = {} /\ loop[c] = "idle" /\ callback[c] = {}
         /\ \A o \in tasks : o.from = NoBroker /\ (o.at = m.at => o = m)
    /\ \A m, o \in tasks : InWork(m) /\ InWork(o) /\ m.at = o.at => m = o
    /\ \A m \in tasks : InWork(m) => m.at \in up

\* Before the first election nothing moves.
NoneYet ==
    elections = 0 =>
      /\ controller = {} /\ tasks = {}
      /\ \A b \in Broker : loop[b] = "idle" /\ callback[b] = {}

OneInv == Undisturbed => NoneYet /\ \E c \in Broker : OnlyController(c)

\* Calls end.
LEMMA FewerTasks ==
    ASSUME NEW c \in Broker, OnlyController(c), tasks' \subseteq tasks,
           UNCHANGED <<controller, loop, callback, elections, up>>
    PROVE  OnlyController(c)'
BY DEF OnlyController, Busy, InWork

\* A call is handled further.
LEMMA NextStage ==
    ASSUME TypeOK, NEW c \in Broker, OnlyController(c), NEW m \in tasks, NEW n \in Task,
           n.from = m.from, n.at = m.at, n.thread = m.thread, InWork(n), m.at \in up,
           InWork(m) \/ (m.stage = "sent" /\ ConnectionFree(m)),
           tasks' = (tasks \ {m}) \cup {n},
           UNCHANGED <<controller, loop, callback, elections, up>>
    PROVE  OnlyController(c)'
<1>1. \A o \in tasks : InWork(o) /\ o.at = m.at => o = m
    BY DEF OnlyController, ConnectionFree, InWork
<1>2. \A o \in tasks' : InWork(o) /\ o.at = m.at => o = n
    BY <1>1
<1>3. loop[c] = "check" => ~Busy(c, "loop")'
    BY DEF OnlyController, Busy
<1>4. \A o \in tasks' :
        /\ o.from \in {c, NoBroker}
        /\ o.at = c => o.from = c /\ o.thread = "loop" /\ InWork(o)
        /\ "loop" \in callback[c] => o.at # c
        /\ InWork(o) => o.at \in up
    BY DEF OnlyController
<1>5. \A o \in tasks' : o.from = NoBroker =>
        /\ elections = 1 /\ controller = {} /\ loop[c] = "idle" /\ callback[c] = {}
        /\ \A k \in tasks' : k.from = NoBroker /\ (k.at = o.at => k = o)
    BY DEF OnlyController
<1>6. \A k, o \in tasks' : InWork(k) /\ InWork(o) /\ k.at = o.at => k = o
    BY <1>2 DEF OnlyController
<1>7. QED
    BY <1>3, <1>4, <1>5, <1>6 DEF OnlyController

\* The controller sends a broadcast.
LEMMA MoreCalls ==
    ASSUME NEW c \in Broker, OnlyController(c), NEW thread \in {"loop", "isr"}, NEW n, NEW entries,
           tasks' = tasks \cup Broadcast(c, thread, n, entries),
           \A m \in tasks : m.from # NoBroker
    PROVE  /\ \A m \in tasks' :
                /\ m.from = c
                /\ m.at = c => m \in tasks
                /\ InWork(m) => m \in tasks
           /\ thread = "isr" => \A m \in tasks' : m.thread = "loop" => m \in tasks
BY DEF OnlyController, Broadcast, InWork

\* There is never more than one controller when there was one election.
LEMMA OneStep ==
    ASSUME TypeOK, TypeOK', [Next]_vars, Undisturbed', OneInv
    PROVE  OneInv'
<1> USE DEF tableVars, loopVars, roleVars, countVars, pastVars
<1>0. NoBroker \notin Broker
    BY BrokerAssumption DEF NoBroker
<1>1. Undisturbed
  <2>1. elections \in Nat /\ breaks \in Nat /\ creates \in Nat
      BY DEF TypeOK
  <2>2. QED
      BY <2>1, CountersGrow DEF CountsUp, Undisturbed, TypeOK
<1>2. PICK c \in Broker : OnlyController(c)
    BY <1>1 DEF OneInv
<1>3. NoneYet
    BY <1>1 DEF OneInv
<1>4. CASE UNCHANGED <<controller, loop, callback, elections, up, tasks>>
    BY <1>2, <1>3, <1>4 DEF OneInv, NoneYet, OnlyController, Busy
<1>5. ASSUME NEW b \in Broker, BecomeLeader(b) PROVE OneInv'
  <2>1. elections = 0 /\ elections' = 1
      BY <1>5 DEF BecomeLeader, Undisturbed, TypeOK
  <2>2. /\ controller' = {b} /\ tasks' = {}
        /\ \A x \in Broker : loop'[x] = "idle" /\ callback'[x] = {}
      BY <1>3, <1>5, <2>1 DEF NoneYet, BecomeLeader
  <2>3. OnlyController(b)'
      BY <2>2 DEF OnlyController
  <2>4. QED
      BY <2>1, <2>3 DEF OneInv, NoneYet
<1>6. ASSUME NEW b \in Broker, StepDown(b) PROVE OneInv'
  <2>1. OnlyController(c)'
      BY <1>2, <1>6 DEF StepDown, OnlyController, Busy
  <2>2. NoneYet'
      BY <1>3, <1>6 DEF StepDown, NoneYet
  <2>3. QED
      BY <2>1, <2>2 DEF OneInv
<1>7. ASSUME NEW b \in Broker, BroadcastBrokerHeartbeats(b) PROVE OneInv'
  <2>1. b = c /\ elections # 0 /\ ~Busy(c, "loop")
      BY <1>2, <1>3, <1>7 DEF BroadcastBrokerHeartbeats, OnlyController, NoneYet
  <2>2. /\ loop' = [loop EXCEPT ![c] = "check"]
        /\ UNCHANGED <<controller, callback, elections, up, tasks>>
      BY <1>7, <2>1 DEF BroadcastBrokerHeartbeats
  <2>3. \A m \in tasks : m.from # NoBroker
      BY <1>2, <1>7, <2>1 DEF BroadcastBrokerHeartbeats, OnlyController
  <2>4. loop'[c] = "check" /\ \A x \in Broker \ {c} : loop'[x] = loop[x]
      BY <2>2 DEF TypeOK
  <2>5. OnlyController(c)'
      BY <1>2, <2>1, <2>2, <2>3, <2>4 DEF OnlyController, Busy
  <2>6. QED
      BY <2>1, <2>2, <2>5 DEF OneInv, NoneYet
<1>8. ASSUME NEW b \in Broker, CheckPartitionFailover(b) PROVE OneInv'
  <2> DEFINE table == [p \in Partition |-> Promoted(assignments[b][p], Alive(b))]
             entries == [p \in Partition |->
                           IF table[p] # assignments[b][p] THEN table[p] ELSE Absent]
  <2>1. b = c /\ elections # 0 /\ ~Busy(c, "loop") /\ loop[c] = "check"
      BY <1>2, <1>3, <1>8 DEF CheckPartitionFailover, OnlyController, NoneYet
  <2>2. /\ loop' = [loop EXCEPT ![c] = "idle"]
        /\ UNCHANGED <<controller, elections, up>>
        /\ \/ UNCHANGED <<tasks, callback>>
           \/ /\ tasks' = tasks \cup Broadcast(c, "loop", 0, entries)
              /\ callback' = [callback EXCEPT ![c] = @ \cup {"loop"}]
      BY <1>8, <2>1 DEF CheckPartitionFailover
  <2> HIDE DEF table, entries
  <2>3. \A m \in tasks : m.from # NoBroker /\ m.at # c
      BY <1>2, <2>1 DEF OnlyController, Busy
  <2>4. loop'[c] = "idle" /\ \A x \in Broker \ {c} : loop'[x] = loop[x]
      BY <2>2 DEF TypeOK
  <2>5. CASE UNCHANGED <<tasks, callback>>
    <3>1. OnlyController(c)'
        BY <1>2, <2>2, <2>3, <2>4, <2>5 DEF OnlyController
    <3>2. QED
        BY <2>1, <2>2, <3>1 DEF OneInv, NoneYet
  <2>6. CASE /\ tasks' = tasks \cup Broadcast(c, "loop", 0, entries)
             /\ callback' = [callback EXCEPT ![c] = @ \cup {"loop"}]
    <3>1. \A m \in tasks' : /\ m.from = c
                            /\ m.at = c => m \in tasks
                            /\ InWork(m) => m \in tasks
        BY <1>2, <2>3, <2>6, MoreCalls
    <3>2. callback'[c] = {"loop"} /\ \A x \in Broker \ {c} : callback'[x] = callback[x]
        BY <1>2, <2>6 DEF TypeOK, OnlyController
    <3>3. OnlyController(c)'
        BY <1>0, <1>2, <2>2, <2>3, <2>4, <3>1, <3>2 DEF OnlyController
    <3>4. QED
        BY <2>1, <2>2, <3>3 DEF OneInv, NoneYet
  <2>7. QED
      BY <2>2, <2>5, <2>6
<1>9. ASSUME NEW b \in Broker, CreateTopic(b) PROVE FALSE
    BY <1>1, <1>9 DEF CreateTopic, Undisturbed
<1>10. ASSUME NEW b \in Broker, NEW thread \in {"loop", "create"}, FinishBroadcast(b, thread)
       PROVE  OneInv'
  <2>1. b = c /\ thread = "loop" /\ elections # 0
      BY <1>2, <1>3, <1>10 DEF FinishBroadcast, OnlyController, NoneYet
  <2>2. /\ c \in up /\ "loop" \in callback[c]
        /\ callback' = [callback EXCEPT ![c] = @ \ {"loop"}]
        /\ tasks' = tasks \cup {OwnReconcile(c, "loop")}
        /\ UNCHANGED <<controller, loop, elections, up>>
      BY <1>10, <2>1 DEF FinishBroadcast
  <2>3. /\ loop[c] # "check"
        /\ \A m \in tasks : m.from # NoBroker /\ m.at # c
      BY <1>2, <2>2 DEF OnlyController, Busy
  <2>4. /\ OwnReconcile(c, "loop").from = c /\ OwnReconcile(c, "loop").at = c
        /\ OwnReconcile(c, "loop").thread = "loop" /\ InWork(OwnReconcile(c, "loop"))
      BY DEF OwnReconcile, InWork
  <2>5. callback'[c] = {} /\ \A x \in Broker \ {c} : callback'[x] = callback[x]
      BY <1>2, <2>2 DEF TypeOK, OnlyController
  <2>6. OnlyController(c)'
      BY <1>0, <1>2, <2>2, <2>3, <2>4, <2>5 DEF OnlyController
  <2>7. QED
      BY <2>1, <2>2, <2>6 DEF OneInv, NoneYet
<1>11. ASSUME NEW b \in Broker, Crash(b) PROVE OneInv'
  <2> DEFINE own == {m \in tasks : m.from = b /\ m.at # b}
  <2>1. PICK kept \in SUBSET own :
          /\ \A m, o \in kept : m.at = o.at => m = o
          /\ tasks' = {m \in tasks : m.from # b /\ m.at # b} \cup {Orphan(m) : m \in kept}
      BY <1>11 DEF Crash
  <2>2. /\ controller' = controller \ {b} /\ up' = up \ {b} /\ elections' = elections
        /\ loop' = [loop EXCEPT ![b] = "idle"]
        /\ callback' = [callback EXCEPT ![b] = {}]
      BY <1>11 DEF Crash
  <2>3. /\ \A x \in Broker : loop'[x] = IF x = b THEN "idle" ELSE loop[x]
        /\ \A x \in Broker : callback'[x] = IF x = b THEN {} ELSE callback[x]
      BY <2>2 DEF TypeOK
  <2>4. \A m \in tasks : /\ Orphan(m).from = NoBroker /\ Orphan(m).at = m.at
                         /\ Orphan(m).stage = m.stage /\ Orphan(m).thread = m.thread
      BY DEF TypeOK, Orphan, Task
  <2>5. NoneYet'
      BY <1>3, <2>1, <2>2, <2>3 DEF NoneYet
  <2>6. elections # 0 => elections' = 1
      BY <2>2 DEF TypeOK, Undisturbed
  <2>7. CASE b # c
    <3>1. tasks' \subseteq tasks /\ \A m \in tasks' : m.at # b
        BY <1>0, <1>2, <2>1, <2>7 DEF OnlyController
    <3>2. OnlyController(c)'
        BY <1>2, <2>2, <2>3, <2>7, <3>1 DEF OnlyController, Busy, InWork
    <3>3. QED
        BY <2>5, <3>2 DEF OneInv
  <2>8. CASE b = c /\ \A m \in tasks : m.from # NoBroker
    <3>1. /\ \A m \in tasks' : \E o \in kept : m = Orphan(o)
          /\ \A m \in tasks' : elections # 0
        BY <1>2, <1>3, <2>1, <2>8 DEF OnlyController, NoneYet
    <3>2. \A m \in tasks' :
            /\ m.from = NoBroker /\ m.at # c
            /\ InWork(m) => m.at \in up'
            /\ \A o \in tasks' : o.at = m.at => o = m
        BY <1>2, <2>1, <2>2, <2>4, <2>8, <3>1 DEF OnlyController, InWork
    <3>3. controller' = {} /\ loop'[c] = "idle" /\ callback'[c] = {}
        BY <1>2, <2>2, <2>3, <2>8 DEF OnlyController
    <3>4. OnlyController(c)'
        BY <1>2, <2>2, <2>3, <2>6, <2>8, <3>1, <3>2, <3>3 DEF OnlyController
    <3>5. QED
        BY <2>5, <3>4 DEF OneInv
  <2>9. CASE b = c /\ \E m \in tasks : m.from = NoBroker
    <3>1. tasks' \subseteq tasks /\ \A m \in tasks' : m.at # b
        BY <1>0, <1>2, <2>1, <2>9 DEF OnlyController
    <3>2. OnlyController(c)'
        BY <1>2, <2>2, <2>3, <2>9, <3>1 DEF OnlyController, Busy, InWork
    <3>3. QED
        BY <2>5, <3>2 DEF OneInv
  <2>10. QED
      BY <2>7, <2>8, <2>9
<1>12. ASSUME NEW b \in Broker, Restart(b) PROVE OneInv'
  <2>1. up \subseteq up' /\ UNCHANGED <<controller, loop, callback, elections, tasks>>
      BY <1>12 DEF Restart
  <2>2. OnlyController(c)' /\ NoneYet'
      BY <1>2, <1>3, <2>1 DEF OnlyController, NoneYet, Busy
  <2>3. QED
      BY <2>2 DEF OneInv
<1>13. ASSUME NEW r \in reports, UpdateIsr(r) PROVE OneInv'
  <2> DEFINE entry == [assignments[r.to][r.p] EXCEPT !.isr = r.isr]
             entries == [NoTable EXCEPT ![r.p] = entry]
  <2>1. UNCHANGED <<controller, loop, callback, elections, up>>
      BY <1>13 DEF UpdateIsr
  <2>2. CASE UNCHANGED tasks
      BY <1>4, <2>1, <2>2
  <2>3. CASE /\ r.to \in controller
             /\ tasks' = tasks \cup Broadcast(r.to, "isr", r.n, entries)
    <3> HIDE DEF entries
    <3>1. r.to = c /\ elections # 0 /\ \A m \in tasks : m.from # NoBroker
        BY <1>2, <1>3, <2>3 DEF OnlyController, NoneYet
    <3>2. /\ \A m \in tasks' : /\ m.from = c
                               /\ m.at = c => m \in tasks
                               /\ InWork(m) => m \in tasks
          /\ \A m \in tasks' : m.thread = "loop" => m \in tasks
        BY <1>2, <2>3, <3>1, MoreCalls
    <3>3. OnlyController(c)'
        BY <1>0, <1>2, <2>1, <3>2 DEF OnlyController, Busy
    <3>4. QED
        BY <2>1, <3>1, <3>3 DEF OneInv, NoneYet
  <2>4. QED
      BY <1>13, <2>2, <2>3 DEF UpdateIsr
<1>14. ASSUME UNCHANGED <<controller, loop, callback, elections, up>>, OnlyController(c)',
              tasks = {} => tasks' = {}
       PROVE  OneInv'
    BY <1>3, <1>14 DEF OneInv, NoneYet
<1>15. ASSUME NEW m \in tasks, CallFails(m) \/ ReconcileReplication(m) PROVE OneInv'
  <2>1. tasks' \subseteq tasks /\ UNCHANGED <<controller, loop, callback, elections, up>>
      BY <1>15 DEF CallFails, ReconcileReplication
  <2>2. QED
      BY <1>2, <1>14, <2>1, FewerTasks
<1>16. ASSUME NEW m \in tasks, CallRetry(m) PROVE FALSE
    BY <1>1, <1>16 DEF CallRetry, Undisturbed
<1>17. ASSUME NEW m \in tasks, NEW n \in Task, n.from = m.from, n.at = m.at, n.thread = m.thread,
              InWork(n), m.at \in up, InWork(m) \/ (m.stage = "sent" /\ ConnectionFree(m)),
              tasks' = (tasks \ {m}) \cup {n},
              UNCHANGED <<controller, loop, callback, elections, up>>
       PROVE  OneInv'
    BY <1>2, <1>14, <1>17, NextStage
<1>18. ASSUME NEW m \in tasks, ApplyLeaderAndIsr(m) \/ AllAssignments(m) \/ LockFollowers(m)
       PROVE  OneInv'
  <2>1. UNCHANGED <<controller, loop, callback, elections, up>> /\ m.at \in up
      BY <1>18 DEF ApplyLeaderAndIsr, AllAssignments, LockFollowers
  <2>2. m \in Task
      BY DEF TypeOK
  <2>3. CASE ApplyLeaderAndIsr(m)
    <3> DEFINE n == [m EXCEPT !.stage = "applied"]
    <3>1. n \in Task /\ n.from = m.from /\ n.at = m.at /\ n.thread = m.thread /\ InWork(n)
        BY <2>2 DEF Task, InWork
    <3>2. tasks' = (tasks \ {m}) \cup {n} /\ m.stage = "sent" /\ ConnectionFree(m)
        BY <2>3 DEF ApplyLeaderAndIsr
    <3> HIDE DEF n
    <3>3. QED
        BY <1>17, <2>1, <3>1, <3>2
  <2>4. CASE AllAssignments(m)
    <3> DEFINE n == [m EXCEPT !.stage = "read", !.copy = assignments[m.at]]
    <3>1. n \in Task /\ n.from = m.from /\ n.at = m.at /\ n.thread = m.thread /\ InWork(n)
      <4>1. assignments[m.at] \in Table
          BY <2>2 DEF Task, TypeOK
      <4>2. QED
          BY <2>2, <4>1 DEF Task, InWork
    <3>2. tasks' = (tasks \ {m}) \cup {n} /\ InWork(m)
        BY <2>4 DEF AllAssignments, InWork
    <3> HIDE DEF n
    <3>3. QED
        BY <1>17, <2>1, <3>1, <3>2
  <2>5. CASE LockFollowers(m)
    <3> DEFINE n == [m EXCEPT !.stage = "locked"]
    <3>1. n \in Task /\ n.from = m.from /\ n.at = m.at /\ n.thread = m.thread /\ InWork(n)
        BY <2>2 DEF Task, InWork
    <3>2. tasks' = (tasks \ {m}) \cup {n} /\ InWork(m)
        BY <2>5 DEF LockFollowers, InWork
    <3> HIDE DEF n
    <3>3. QED
        BY <1>17, <2>1, <3>1, <3>2
  <2>6. QED
      BY <1>18, <2>3, <2>4, <2>5
<1>19. QED
    BY <1>4, <1>5, <1>6, <1>7, <1>8, <1>9, <1>10, <1>11, <1>12, <1>13, <1>15, <1>16, <1>18
       DEF Next, vars, Lapse, ReportIsr, AnswerReport, LoseReport

-----------------------------------------------------------------------------
(* Roles *)

\* Two tables give a broker the same work: ISRs may differ.
SameRoles(t, u) ==
    \A p \in Partition : t[p].leader = u[p].leader /\ t[p].replicas = u[p].replicas

\* The broker leads and fetches what the table says.
RolesAre(b, t) ==
    \A p \in Partition :
        /\ Leads(b, t[p]) <=> isrState[b][p] # NotLed
        /\ Leads(b, t[p]) <=> p \in leading[b]
        /\ fetcher[b][p] = FetcherAfter(b, t[p])

\* The table has been copied for a reconcile.
Copied(m) == m.stage \in {"read", "locked"}

\* No thread is about to reconcile the broker.
Quiet(b) == callback[b] = {} /\ \A m \in tasks : m.at = b => m.stage = "sent"

\* A copied table gives the roles of the table it was copied from; only replicas have been
\* led, and nothing is on a broker that is down.
CopiesAreCurrent == \A m \in tasks : Copied(m) => SameRoles(m.copy, assignments[m.at])
LedAreReplicas ==
    \A b \in Broker, p \in Partition : isrState[b][p] # NotLed =>
        /\ b \in up /\ isrState[b][p].replicas # {}
        /\ assignments[b][p] # Absent /\ b \in assignments[b][p].replicas
QuietAreReconciled == \A b \in reconciled : Quiet(b) => RolesAre(b, assignments[b])

RolesInv == CopiesAreCurrent /\ LedAreReplicas /\ QuietAreReconciled

\* A step that reconciles nothing: where it changes what a broker is told to do, a
\* reconcile of the broker is still to come.
LEMMA RolesKept ==
    ASSUME RolesInv, NEW R, PlacedOn(R), PlacedOn(R)', tasks' \subseteq Task,
           UNCHANGED <<isrState, leading, fetcher, reconciled>>, up \subseteq up',
           reconciled \subseteq Broker,
           \A b \in Broker, p \in Partition :
               assignments[b][p] # Absent => assignments'[b][p] # Absent,
           \A b \in Broker :
               \/ ~Quiet(b)' /\ \A m \in tasks' : m.at = b => ~Copied(m)
               \/ /\ SameRoles(assignments[b], assignments'[b])
                  /\ Quiet(b)' => Quiet(b)
                  /\ \A m \in tasks' : m.at = b /\ Copied(m) =>
                       \/ SameRoles(m.copy, assignments[b])
                       \/ \E o \in tasks : o.at = b /\ Copied(o) /\ o.copy = m.copy
    PROVE  RolesInv'
<1>1. CopiesAreCurrent'
  <2> SUFFICES ASSUME NEW m \in tasks', Copied(m) PROVE SameRoles(m.copy, assignments'[m.at])
      BY DEF CopiesAreCurrent
  <2>1. m.at \in Broker
      BY DEF Task
  <2>2. SameRoles(m.copy, assignments[m.at]) /\ SameRoles(assignments[m.at], assignments'[m.at])
      BY <2>1 DEF RolesInv, CopiesAreCurrent
  <2>3. QED
      BY <2>2 DEF SameRoles
<1>2. LedAreReplicas'
  <2> SUFFICES ASSUME NEW b \in Broker, NEW p \in Partition, isrState[b][p] # NotLed
               PROVE  /\ b \in up' /\ isrState[b][p].replicas # {}
                      /\ assignments'[b][p] # Absent /\ b \in assignments'[b][p].replicas
      BY DEF LedAreReplicas
  <2>1. /\ b \in up /\ isrState[b][p].replicas # {}
        /\ assignments[b][p] # Absent /\ b \in assignments[b][p].replicas
      BY DEF RolesInv, LedAreReplicas
  <2>2. assignments[b][p].replicas = R[p] /\ assignments'[b][p].replicas = R[p]
      BY <2>1 DEF PlacedOn, TableFits, Fits
  <2>3. QED
      BY <2>1, <2>2
<1>3. QuietAreReconciled'
  <2> SUFFICES ASSUME NEW b \in reconciled, Quiet(b)' PROVE RolesAre(b, assignments[b])'
      BY DEF QuietAreReconciled
  <2>1. RolesAre(b, assignments[b]) /\ SameRoles(assignments[b], assignments'[b])
      BY DEF RolesInv, QuietAreReconciled
  <2>2. QED
      BY <2>1 DEF RolesAre, SameRoles, Leads, Follows, FetcherAfter
<1>4. QED
    BY <1>1, <1>2, <1>3 DEF RolesInv

\* Failover keeps the replicas and takes no partition off the table.
LEMMA FailoverKeepsEntries ==
    ASSUME TypeOK, NEW b \in Broker, NEW p \in Partition, assignments[b][p] # Absent
    PROVE  Promoted(assignments[b][p], Alive(b)) # Absent
<1>1. Alive(b) \in SUBSET Broker /\ assignments[b][p] \in PartitionAssignment
    BY DEF TypeOK, Alive, Table
<1>2. QED
    BY <1>1, PromotedIsAReplica

\* Roles keep following the tables while there is one controller and no call breaks.
LEMMA RolesStep ==
    ASSUME TypeOK, TypeOK', NEW R \in Placements, PlacedOn(R), PlacedOn(R)',
           Undisturbed, Undisturbed', OneInv, OneInv', RolesInv, [Next]_vars
    PROVE  RolesInv'
<1> USE DEF tableVars, loopVars, roleVars, countVars, pastVars
<1>1. PICK c \in Broker : OnlyController(c)
    BY DEF OneInv
<1>2. PICK d \in Broker : OnlyController(d)'
    BY DEF OneInv
<1>3. tasks' \subseteq Task /\ reconciled \subseteq Broker
    BY DEF TypeOK
<1>4. \A t : SameRoles(t, t)
    BY DEF SameRoles
<1>5. ASSUME UNCHANGED <<isrState, leading, fetcher, reconciled, up, assignments>>,
             \A m \in tasks : InWork(m) => m \in tasks',
             \A m \in tasks' : Copied(m) => m \in tasks,
             \A b \in Broker : callback'[b] = {} => callback[b] = {} \/ ~Quiet(b)'
      PROVE  RolesInv'
  <2>1. ASSUME NEW b \in Broker PROVE Quiet(b)' => Quiet(b)
      BY <1>5 DEF Quiet, InWork
  <2>2. QED
      BY <1>3, <1>4, <1>5, <2>1, RolesKept
<1>6. CASE UNCHANGED <<isrState, leading, fetcher, reconciled, up, assignments, callback, tasks>>
    BY <1>5, <1>6
<1>7. ASSUME NEW b \in Broker, CheckPartitionFailover(b) PROVE RolesInv'
  <2> DEFINE table == [p \in Partition |-> Promoted(assignments[b][p], Alive(b))]
             entries == [p \in Partition |->
                           IF table[p] # assignments[b][p] THEN table[p] ELSE Absent]
  <2>1. UNCHANGED <<isrState, leading, fetcher, reconciled, up>>
      BY <1>7 DEF CheckPartitionFailover
  <2>2. \/ UNCHANGED <<tableVars, tasks, callback>>
        \/ /\ SetTable(b, table)
           /\ tasks' = tasks \cup Broadcast(b, "loop", 0, entries)
           /\ callback' = [callback EXCEPT ![b] = @ \cup {"loop"}]
      BY <1>7 DEF CheckPartitionFailover
  <2>3. \A p \in Partition : assignments[b][p] # Absent => table[p] # Absent
      BY FailoverKeepsEntries
  <2> HIDE DEF table, entries
  <2>4. CASE UNCHANGED <<tableVars, tasks, callback>>
      BY <1>6, <2>1, <2>4
  <2>5. CASE /\ SetTable(b, table)
             /\ tasks' = tasks \cup Broadcast(b, "loop", 0, entries)
             /\ callback' = [callback EXCEPT ![b] = @ \cup {"loop"}]
    <3>1. b = c /\ \A m \in tasks : m.at # b
        BY <1>1, <1>7 DEF CheckPartitionFailover, OnlyController, Busy
    <3>2. \A m \in Broadcast(b, "loop", 0, entries) : m.at # b /\ m.stage = "sent"
        BY DEF Broadcast
    <3>3. /\ \A x \in Broker : assignments'[x] = IF x = b THEN table ELSE assignments[x]
          /\ callback'[b] # {} /\ \A x \in Broker \ {b} : callback'[x] = callback[x]
        BY <2>5 DEF SetTable, TypeOK
    <3>4. \A x \in Broker, p \in Partition :
             assignments[x][p] # Absent => assignments'[x][p] # Absent
        BY <2>3, <3>3
    <3>5. ~Quiet(b)' /\ \A m \in tasks' : m.at = b => ~Copied(m)
        BY <2>5, <3>1, <3>2, <3>3 DEF Quiet
    <3>6. ASSUME NEW x \in Broker, x # b
          PROVE  /\ assignments'[x] = assignments[x]
                 /\ Quiet(x)' => Quiet(x)
                 /\ \A m \in tasks' : m.at = x /\ Copied(m) => m \in tasks
        BY <2>5, <3>2, <3>3, <3>6 DEF Quiet, Copied
    <3>7. QED
        BY <1>3, <1>4, <2>1, <3>4, <3>5, <3>6, RolesKept
  <2>6. QED
      BY <2>2, <2>4, <2>5
<1>8. ASSUME NEW b \in Broker, NEW thread \in {"loop", "create"}, FinishBroadcast(b, thread)
      PROVE  RolesInv'
  <2>1. /\ callback' = [callback EXCEPT ![b] = @ \ {thread}]
        /\ tasks' = tasks \cup {OwnReconcile(b, thread)}
        /\ UNCHANGED <<isrState, leading, fetcher, reconciled, up, assignments>>
      BY <1>8 DEF FinishBroadcast
  <2>2. /\ OwnReconcile(b, thread).at = b /\ OwnReconcile(b, thread).stage = "applied"
        /\ ~Copied(OwnReconcile(b, thread))
      BY DEF OwnReconcile, Copied
  <2>3. ~Quiet(b)'
      BY <2>1, <2>2 DEF Quiet
  <2>4. \A x \in Broker \ {b} : callback'[x] = callback[x]
      BY <2>1 DEF TypeOK
  <2>5. QED
      BY <1>5, <2>1, <2>2, <2>3, <2>4
<1>9. ASSUME NEW b \in Broker, NEW p \in Partition, ReportIsr(b, p) PROVE RolesInv'
  <2>1. PICK isr : isrState' = [isrState EXCEPT ![b][p].isr = isr]
      BY <1>9 DEF ReportIsr
  <2>2. /\ isrState[b][p] # NotLed
        /\ UNCHANGED <<leading, fetcher, reconciled, up, assignments, tasks, callback>>
      BY <1>9 DEF ReportIsr
  <2>3. \A x \in Broker, q \in Partition :
          /\ isrState'[x][q].replicas = isrState[x][q].replicas
          /\ x # b \/ q # p => isrState'[x][q] = isrState[x][q]
      BY <2>1 DEF TypeOK, PartitionState
  <2>4. isrState[b][p].replicas # {}
      BY <2>2 DEF RolesInv, LedAreReplicas
  <2>5. \A x \in Broker, q \in Partition : isrState'[x][q] # NotLed <=> isrState[x][q] # NotLed
      BY <2>2, <2>3, <2>4 DEF NotLed
  <2>6. CopiesAreCurrent' /\ LedAreReplicas'
      BY <2>2, <2>3, <2>5 DEF RolesInv, CopiesAreCurrent, LedAreReplicas
  <2>7. \A x \in reconciled : RolesAre(x, assignments[x]) => RolesAre(x, assignments[x])'
      BY <1>3, <2>2, <2>5 DEF RolesAre
  <2>8. QuietAreReconciled'
      BY <2>2, <2>7 DEF RolesInv, QuietAreReconciled, Quiet
  <2>9. QED
      BY <2>6, <2>8 DEF RolesInv
<1>10. ASSUME NEW b \in Broker, Crash(b) PROVE RolesInv'
  <2> DEFINE own == {m \in tasks : m.from = b /\ m.at # b}
  <2>1. PICK kept \in SUBSET own :
          /\ \A m \in own : m.stage # "sent" => m \in kept
          /\ tasks' = {m \in tasks : m.from # b /\ m.at # b} \cup {Orphan(m) : m \in kept}
      BY <1>10 DEF Crash
  <2>2. /\ up' = up \ {b} /\ reconciled' = reconciled \ {b} /\ assignments' = assignments
        /\ callback' = [callback EXCEPT ![b] = {}]
        /\ leading' = [leading EXCEPT ![b] = {}]
        /\ isrState' = [isrState EXCEPT ![b] = [p \in Partition |-> NotLed]]
        /\ fetcher' = [fetcher EXCEPT ![b] = [p \in Partition |-> NoBroker]]
      BY <1>10 DEF Crash
  <2>3. /\ \A x \in Broker \ {b} : /\ callback'[x] = callback[x] /\ leading'[x] = leading[x]
                                   /\ isrState'[x] = isrState[x] /\ fetcher'[x] = fetcher[x]
        /\ \A p \in Partition : isrState'[b][p] = NotLed
      BY <2>2 DEF TypeOK
  <2>4. \A m \in tasks : /\ Orphan(m).at = m.at /\ Orphan(m).stage = m.stage
                         /\ Orphan(m).copy = m.copy
      BY DEF TypeOK, Orphan, Task
  <2>5. CopiesAreCurrent'
    <3>1. \A m \in tasks' : \E o \in tasks : m.at = o.at /\ m.stage = o.stage /\ m.copy = o.copy
        BY <2>1, <2>4
    <3>2. QED
        BY <2>2, <3>1 DEF RolesInv, CopiesAreCurrent, Copied
  <2>6. LedAreReplicas'
      BY <2>2, <2>3 DEF RolesInv, LedAreReplicas
  <2>7. ASSUME NEW x \in Broker, x # b, Quiet(x)' PROVE Quiet(x)
    <3>1. ASSUME NEW m \in tasks, m.at = x, m.stage # "sent" PROVE FALSE
      <4>1. m \in tasks' \/ Orphan(m) \in tasks'
          BY <2>1, <2>7, <3>1
      <4>2. QED
          BY <2>4, <2>7, <3>1, <4>1 DEF Quiet
    <3>2. QED
        BY <2>3, <2>7, <3>1 DEF Quiet
  <2>8. QuietAreReconciled'
    <3> SUFFICES ASSUME NEW x \in reconciled', Quiet(x)' PROVE RolesAre(x, assignments[x])'
        BY DEF QuietAreReconciled
    <3>1. x \in reconciled /\ x # b /\ x \in Broker
        BY <1>3, <2>2
    <3>2. RolesAre(x, assignments[x])
        BY <2>7, <3>1 DEF RolesInv, QuietAreReconciled
    <3>3. QED
        BY <2>2, <2>3, <3>1, <3>2 DEF RolesAre
  <2>9. QED
      BY <2>5, <2>6, <2>8 DEF RolesInv
<1>11. ASSUME NEW b \in Broker, Restart(b) PROVE RolesInv'
  <2>1. /\ b \notin up /\ up' = up \cup {b} /\ assignments' = [assignments EXCEPT ![b] = file[b]]
        /\ UNCHANGED <<isrState, leading, fetcher, reconciled, callback, tasks>>
      BY <1>11 DEF Restart
  <2>2. \A x \in Broker \ {b} : assignments'[x] = assignments[x]
      BY <2>1 DEF TypeOK
  <2>3. \A m \in tasks : Copied(m) => m.at # b /\ m.at \in Broker
      BY <1>1, <2>1 DEF OnlyController, Copied, InWork, TypeOK
  <2>4. CopiesAreCurrent'
      BY <2>1, <2>2, <2>3 DEF RolesInv, CopiesAreCurrent
  <2>5. \A p \in Partition : isrState[b][p] = NotLed
      BY <2>1 DEF RolesInv, LedAreReplicas
  <2>6. LedAreReplicas'
      BY <2>1, <2>2, <2>5 DEF RolesInv, LedAreReplicas
  <2>7. reconciled \subseteq Broker \ {b}
      BY <2>1 DEF TypeOK
  <2>8. \A x \in reconciled : Quiet(x)' => RolesAre(x, assignments[x])'
      BY <2>1, <2>2, <2>7 DEF RolesInv, QuietAreReconciled, Quiet, RolesAre
  <2>9. QED
      BY <2>1, <2>4, <2>6, <2>8 DEF RolesInv, QuietAreReconciled
<1>12. ASSUME NEW r \in reports, UpdateIsr(r) PROVE RolesInv'
  <2> DEFINE entry == [assignments[r.to][r.p] EXCEPT !.isr = r.isr]
             table == [assignments[r.to] EXCEPT ![r.p] = entry]
             entries == [NoTable EXCEPT ![r.p] = entry]
  <2>1. UNCHANGED <<isrState, leading, fetcher, reconciled, up, callback>>
      BY <1>12 DEF UpdateIsr
  <2>2. CASE UNCHANGED <<tableVars, tasks>>
      BY <1>6, <2>1, <2>2
  <2>3. CASE /\ assignments[r.to][r.p] # Absent
             /\ SetTable(r.to, table)
             /\ tasks' = tasks \cup Broadcast(r.to, "isr", r.n, entries)
    <3>1. r.to \in Broker /\ r.p \in Partition /\ r.isr \in SUBSET Broker
        BY DEF TypeOK, Report
    <3>2. /\ entry # Absent /\ entry.leader = assignments[r.to][r.p].leader
          /\ entry.replicas = assignments[r.to][r.p].replicas
      <4>1. assignments[r.to][r.p] \in PartitionAssignment
          BY <3>1 DEF TypeOK, Table
      <4>2. QED
          BY <2>3, <3>1, <4>1, EntryFields
    <3> HIDE DEF entry
    <3>3. \A p \in Partition : /\ table[p].leader = assignments[r.to][p].leader
                               /\ table[p].replicas = assignments[r.to][p].replicas
                               /\ assignments[r.to][p] # Absent => table[p] # Absent
        BY <3>1, <3>2 DEF TypeOK, Table
    <3> HIDE DEF table, entries
    <3>4. \A x \in Broker : assignments'[x] = IF x = r.to THEN table ELSE assignments[x]
        BY <2>3, <3>1 DEF SetTable, TypeOK
    <3>5. \A x \in Broker : SameRoles(assignments[x], assignments'[x])
        BY <1>4, <3>3, <3>4 DEF SameRoles
    <3>6. \A m \in tasks' : Copied(m) => m \in tasks
        BY <2>3 DEF Broadcast, Copied
    <3>7. \A x \in Broker : Quiet(x)' => Quiet(x)
        BY <2>1, <2>3 DEF Quiet
    <3>8. \A x \in Broker, p \in Partition :
             assignments[x][p] # Absent => assignments'[x][p] # Absent
        BY <3>3, <3>4
    <3>9. QED
        BY <1>3, <2>1, <3>5, <3>6, <3>7, <3>8, RolesKept
  <2>4. QED
      BY <1>12, <2>2, <2>3 DEF UpdateIsr
<1>13. ASSUME NEW m \in tasks, CallFails(m) PROVE RolesInv'
    BY <1>5, <1>13 DEF CallFails, InWork, Copied
<1>14. ASSUME NEW m \in tasks, CallRetry(m) PROVE FALSE
    BY <1>14 DEF CallRetry, Undisturbed
<1>15. ASSUME NEW m \in tasks
       PROVE  m \in Task /\ m.at \in Broker /\ assignments[m.at] \in Table
    BY DEF TypeOK, Task
<1>16. ASSUME NEW m \in tasks, ApplyLeaderAndIsr(m) PROVE RolesInv'
  <2> DEFINE n == [m EXCEPT !.stage = "applied"]
             table == Overlay(assignments[m.at], m.entries)
  <2>1. /\ UNCHANGED <<isrState, leading, fetcher, reconciled, up, callback>>
        /\ SetTable(m.at, table) /\ tasks' = (tasks \ {m}) \cup {n}
      BY <1>16 DEF ApplyLeaderAndIsr
  <2>2. n.at = m.at /\ n.stage = "applied"
      BY <1>15 DEF Task
  <2>3. \A p \in Partition : assignments[m.at][p] # Absent => table[p] # Absent
      BY DEF Overlay
  <2> HIDE DEF n, table
  <2>4. \A x \in Broker : assignments'[x] = IF x = m.at THEN table ELSE assignments[x]
      BY <1>15, <2>1 DEF SetTable, TypeOK
  <2>5. \A o \in tasks' : o.at = m.at => ~Copied(o)
      BY <1>2, <2>1, <2>2 DEF OnlyController, InWork, Copied
  <2>6. ~Quiet(m.at)'
      BY <2>1, <2>2 DEF Quiet
  <2>7. ASSUME NEW x \in Broker, x # m.at
        PROVE  /\ assignments'[x] = assignments[x]
               /\ Quiet(x)' => Quiet(x)
               /\ \A o \in tasks' : o.at = x /\ Copied(o) => o \in tasks
      BY <2>1, <2>2, <2>4, <2>7 DEF Quiet
  <2>8. \A x \in Broker, p \in Partition :
           assignments[x][p] # Absent => assignments'[x][p] # Absent
      BY <2>3, <2>4
  <2>9. QED
      BY <1>3, <1>4, <2>1, <2>5, <2>6, <2>7, <2>8, RolesKept
<1>17. ASSUME NEW m \in tasks, AllAssignments(m) PROVE RolesInv'
  <2> DEFINE n == [m EXCEPT !.stage = "read", !.copy = assignments[m.at]]
  <2>1. /\ UNCHANGED <<isrState, leading, fetcher, reconciled, up, callback, assignments>>
        /\ tasks' = (tasks \ {m}) \cup {n}
      BY <1>17 DEF AllAssignments
  <2>2. n.at = m.at /\ n.stage = "read" /\ n.copy = assignments[m.at]
      BY <1>15 DEF Task
  <2> HIDE DEF n
  <2>3. ASSUME NEW x \in Broker
        PROVE  /\ Quiet(x)' => Quiet(x)
               /\ \A o \in tasks' : o.at = x /\ Copied(o) =>
                    o \in tasks \/ SameRoles(o.copy, assignments[x])
    <3>1. Quiet(x)' => Quiet(x)
        BY <2>1, <2>2 DEF Quiet
    <3>2. \A o \in tasks' : o.at = x /\ Copied(o) =>
            o \in tasks \/ SameRoles(o.copy, assignments[x])
        BY <1>4, <2>1, <2>2
    <3>3. QED
        BY <3>1, <3>2
  <2>4. QED
      BY <1>3, <1>4, <2>1, <2>3, RolesKept
<1>18. ASSUME NEW m \in tasks, LockFollowers(m) PROVE RolesInv'
  <2> DEFINE n == [m EXCEPT !.stage = "locked"]
  <2>1. /\ UNCHANGED <<isrState, leading, fetcher, reconciled, up, callback, assignments>>
        /\ tasks' = (tasks \ {m}) \cup {n} /\ Copied(m)
      BY <1>18 DEF LockFollowers, Copied
  <2>2. n.at = m.at /\ n.stage = "locked" /\ n.copy = m.copy
      BY <1>15 DEF Task
  <2> HIDE DEF n
  <2>3. ASSUME NEW x \in Broker
        PROVE  /\ Quiet(x)' => Quiet(x)
               /\ \A o \in tasks' : o.at = x /\ Copied(o) =>
                    \E k \in tasks : k.at = x /\ Copied(k) /\ k.copy = o.copy
      BY <2>1, <2>2 DEF Quiet
  <2>4. QED
      BY <1>3, <1>4, <2>1, <2>3, RolesKept
<1>19. ASSUME NEW m \in tasks, ReconcileReplication(m) PROVE RolesInv'
  <2>1. /\ tasks' = tasks \ {m} /\ reconciled' = reconciled \cup {m.at} /\ m.at \in up
        /\ UNCHANGED <<up, assignments, callback>>
      BY <1>19 DEF ReconcileReplication
  <2>2. Copied(m) /\ SameRoles(m.copy, assignments[m.at])
    <3>1. Copied(m)
        BY <1>19 DEF ReconcileReplication, Copied
    <3>2. QED
        BY <3>1 DEF RolesInv, CopiesAreCurrent
  <2>3. /\ \A x \in Broker \ {m.at} : /\ leading'[x] = leading[x] /\ isrState'[x] = isrState[x]
                                      /\ fetcher'[x] = fetcher[x]
        /\ \A p \in Partition :
             /\ isrState'[m.at][p] = StateAfter(m.at, m.copy[p], isrState[m.at][p])
             /\ fetcher'[m.at][p] = FetcherAfter(m.at, m.copy[p])
             /\ p \in leading'[m.at] <=> Leads(m.at, m.copy[p])
      BY <1>15, <1>19 DEF ReconcileReplication, TypeOK
  <2>4. ASSUME NEW p \in Partition
        PROVE  /\ Leads(m.at, m.copy[p]) <=> isrState'[m.at][p] # NotLed
               /\ isrState'[m.at][p] # NotLed =>
                    /\ isrState'[m.at][p].replicas # {}
                    /\ assignments[m.at][p] # Absent
                    /\ m.at \in assignments[m.at][p].replicas
    <3>1. /\ m.copy[p].leader = assignments[m.at][p].leader
          /\ m.copy[p].replicas = assignments[m.at][p].replicas
        BY <2>2 DEF SameRoles
    <3>2. CASE Leads(m.at, m.copy[p])
      <4>1. assignments[m.at][p].leader = m.at
          BY <3>1, <3>2 DEF Leads
      <4>2. assignments[m.at][p] # Absent
        <5>1. m.at \in Nat
            BY <1>15, BrokerAssumption
        <5>2. QED
            BY <4>1, <5>1 DEF Absent, NoBroker
      <4>3. m.at \in assignments[m.at][p].replicas
        <5>1. Fits(assignments[m.at][p], R[p])
            BY <1>15 DEF PlacedOn, TableFits
        <5>2. QED
            BY <4>1, <4>2, <5>1 DEF Fits
      <4>4. isrState'[m.at][p].replicas = assignments[m.at][p].replicas
        <5>1. isrState'[m.at][p] = StateAfter(m.at, m.copy[p], isrState[m.at][p])
            BY <2>3
        <5>2. StateAfter(m.at, m.copy[p], isrState[m.at][p]).replicas = m.copy[p].replicas
            BY <3>2 DEF StateAfter
        <5>3. QED
            BY <3>1, <5>1, <5>2
      <4>5. QED
          BY <3>2, <4>2, <4>3, <4>4 DEF NotLed
    <3>3. CASE ~Leads(m.at, m.copy[p])
      <4>1. isrState[m.at][p] # NotLed => Follows(m.at, m.copy[p])
          BY <1>15, <3>1, <3>3 DEF RolesInv, LedAreReplicas, Follows
      <4>2. isrState'[m.at][p] = NotLed
          BY <2>3, <3>3, <4>1 DEF StateAfter
      <4>3. QED
          BY <3>3, <4>2
    <3>4. QED
        BY <3>2, <3>3
  <2>5. RolesAre(m.at, assignments[m.at])'
      BY <2>1, <2>2, <2>3, <2>4 DEF RolesAre, SameRoles, Leads, Follows, FetcherAfter
  <2>6. CopiesAreCurrent'
      BY <2>1 DEF RolesInv, CopiesAreCurrent
  <2>7. LedAreReplicas'
      BY <1>15, <2>1, <2>3, <2>4 DEF RolesInv, LedAreReplicas
  <2>8. QuietAreReconciled'
    <3> SUFFICES ASSUME NEW x \in reconciled', Quiet(x)', x # m.at
                 PROVE  RolesAre(x, assignments[x])'
        BY <2>5 DEF QuietAreReconciled
    <3>1. x \in reconciled /\ x \in Broker
        BY <1>3, <2>1
    <3>2. Quiet(x)
        BY <2>1 DEF Quiet
    <3>3. RolesAre(x, assignments[x])
        BY <3>1, <3>2 DEF RolesInv, QuietAreReconciled
    <3>4. QED
        BY <2>1, <2>3, <3>1, <3>3 DEF RolesAre
  <2>9. QED
      BY <2>6, <2>7, <2>8 DEF RolesInv
<1>20. ASSUME NEW b \in Broker, CreateTopic(b) PROVE FALSE
    BY <1>20 DEF CreateTopic, Undisturbed
<1>21. QED
    BY <1>6, <1>7, <1>8, <1>9, <1>10, <1>11, <1>12, <1>13, <1>14, <1>16, <1>17, <1>18, <1>19,
       <1>20
       DEF Next, vars, BecomeLeader, StepDown, BroadcastBrokerHeartbeats, Lapse, AnswerReport,
           LoseReport

\* In a cluster that has its topic every broker does what its table says.
LEMMA RolesInit ==
    ASSUME InitCreated
    PROVE  OneInv /\ RolesInv
<1> DEFINE table == [p \in Partition |-> Placement(Broker, p)]
<1>1. InitWith(table,
            [b \in Broker |-> [p \in Partition |-> StateAfter(b, table[p], NotLed)]],
            [b \in Broker |-> [p \in Partition |->
                IF Follows(b, table[p]) THEN table[p].leader ELSE NoBroker]],
            [b \in Broker |-> {p \in Partition : Leads(b, table[p])}], Broker)
    BY DEF InitCreated
<1>2. \A p \in Partition : table[p] # Absent /\ table[p].leader \in table[p].replicas
    BY PlacementIsSane, BrokerAssumption
<1> HIDE DEF table
<1>3. \E b \in Broker : b \in Broker
    BY BrokerAssumption
<1>4. OneInv
    BY <1>1, <1>3 DEF InitWith, OneInv, NoneYet, OnlyController, Busy
<1>5. \A b \in Broker, p \in Partition :
        /\ isrState[b][p] = StateAfter(b, table[p], NotLed)
        /\ fetcher[b][p] = FetcherAfter(b, table[p])
        /\ p \in leading[b] <=> Leads(b, table[p])
    BY <1>1 DEF InitWith, FetcherAfter
<1>6. tasks = {} /\ up = Broker /\ reconciled = Broker /\ assignments = [b \in Broker |-> table]
    BY <1>1 DEF InitWith
<1>7. ASSUME NEW b \in Broker, NEW p \in Partition
      PROVE  /\ Leads(b, table[p]) <=> isrState[b][p] # NotLed
             /\ Leads(b, table[p]) => isrState[b][p].replicas # {} /\ b \in table[p].replicas
  <2>1. CASE Leads(b, table[p])
    <3>1. isrState[b][p].replicas = table[p].replicas
      <4>1. StateAfter(b, table[p], NotLed).replicas = table[p].replicas
          BY <2>1 DEF StateAfter
      <4>2. QED
          BY <1>5, <4>1
    <3>2. b \in table[p].replicas
        BY <1>2, <2>1 DEF Leads
    <3>3. QED
        BY <2>1, <3>1, <3>2 DEF NotLed
  <2>2. CASE ~Leads(b, table[p])
      BY <1>5, <2>2 DEF StateAfter
  <2>3. QED
      BY <2>1, <2>2
<1>8. CopiesAreCurrent /\ LedAreReplicas
    BY <1>2, <1>6, <1>7 DEF CopiesAreCurrent, LedAreReplicas
<1>9. QuietAreReconciled
    BY <1>5, <1>6, <1>7 DEF QuietAreReconciled, RolesAre
<1>10. QED
    BY <1>4, <1>8, <1>9 DEF RolesInv

\* What a broker does is what its table says once no thread is about to reconcile it, if
\* at most one broker ever became controller and no call broke between live brokers: ISRs
\* may change and brokers crash and restart.  With two controllers it is not so: the
\* reconciles of two calls may copy the table in one order and apply it in the other.
THEOREM RolesAreAssigned ==
    SpecCreated /\ [](elections <= 1 /\ breaks = 0 /\ creates = 0) => []RolesFollowTable
<1> DEFINE I == /\ TypeOK /\ \E R \in Placements : PlacedOn(R)
                /\ OneInv /\ RolesInv
<1>1. InitCreated => I
    BY CreatedInit, RolesInit
<1>2. I /\ [Next]_vars /\ Undisturbed /\ Undisturbed' => I'
  <2> SUFFICES ASSUME I, [Next]_vars, Undisturbed, Undisturbed' PROVE I'
      OBVIOUS
  <2>1. PICK R \in Placements : PlacedOn(R)
      OBVIOUS
  <2>2. TypeOK'
      BY TypeStep
  <2>3. PlacedOn(R)'
      BY <2>1, PlacedStep DEF Undisturbed
  <2>4. OneInv'
      BY <2>2, OneStep
  <2>5. RolesInv'
      BY <2>1, <2>2, <2>3, <2>4, RolesStep
  <2>6. QED
      BY <2>2, <2>3, <2>4, <2>5
<1>3. I => RolesFollowTable
    BY DEF RolesInv, QuietAreReconciled, Quiet, RolesAre, RolesFollowTable, FetcherAfter
<1>4. (elections <= 1 /\ breaks = 0 /\ creates = 0) <=> Undisturbed
    BY DEF Undisturbed
<1> HIDE DEF I
<1>5. QED
    BY <1>1, <1>2, <1>3, <1>4, PTL DEF SpecCreated

-----------------------------------------------------------------------------
(* Views *)

\* One election, no call that failed between live brokers, no broadcast that began while
\* calls of another were under way.
Smooth == elections <= 1 /\ breaks = 0 /\ apart

\* c is the controller, and nobody else calls or changes a table of its own accord.
OnlyCaller(c) ==
    /\ controller = {c}
    /\ \A b \in Broker \ {c} : loop[b] = "idle" /\ callback[b] = {}
    /\ \A m \in tasks : m.from = c /\ (m.at = c => m.stage # "sent")

\* What a call brings is what the controller's table says, and what a broker that never
\* crashed lacks of that table is on its way to it.
OnItsWay(x, p) == \E m \in tasks : m.at = x /\ m.stage = "sent" /\ m.entries[p] # Absent
CatchingUp(c) ==
    /\ \A m \in tasks, p \in Partition :
         m.stage = "sent" /\ m.entries[p] # Absent => m.entries[p] = assignments[c][p]
    /\ \A x \in stayed \ {c}, p \in Partition :
         assignments[x][p] # assignments[c][p] => OnItsWay(x, p)

UpToDate(c) == OnlyCaller(c) /\ CatchingUp(c)

\* Before the first election the tables are alike, in memory and on disk.
AllAlike ==
    elections = 0 =>
      /\ controller = {} /\ tasks = {}
      /\ \A b \in Broker : loop[b] = "idle" /\ callback[b] = {}
      /\ \A b, x \in Broker : assignments[b] = assignments[x] /\ file[b] = assignments[x]

Views == AllAlike /\ \A c \in controller : UpToDate(c)

ViewInv == Smooth => Views

\* All brokers start with one table.
LEMMA ViewsInit ==
    ASSUME Init \/ InitCreated
    PROVE  ViewInv
<1>1. PICK table : /\ controller = {} /\ tasks = {}
                   /\ assignments = [b \in Broker |-> table] /\ file = [b \in Broker |-> table]
                   /\ loop = [b \in Broker |-> "idle"] /\ callback = [b \in Broker |-> {}]
    BY DEF Init, InitCreated, InitWith
<1>2. \A b \in Broker : /\ assignments[b] = table /\ file[b] = table
                        /\ loop[b] = "idle" /\ callback[b] = {}
    BY <1>1
<1>3. QED
    BY <1>1, <1>2 DEF ViewInv, Views, AllAlike

\* Broadcasts that have overlapped once have done so for good.
LEMMA ApartFades ==
    ASSUME [Next]_vars
    PROVE  apart' => apart
<1> USE DEF pastVars, StayApart
<1>1. ASSUME NEW b \in Broker,
             \/ BecomeLeader(b) \/ StepDown(b) \/ BroadcastBrokerHeartbeats(b)
             \/ CheckPartitionFailover(b) \/ CreateTopic(b) \/ Crash(b) \/ Restart(b)
      PROVE  apart' => apart
    BY <1>1 DEF BecomeLeader, StepDown, BroadcastBrokerHeartbeats, CheckPartitionFailover,
       CreateTopic, Crash, Restart
<1>2. ASSUME NEW b \in Broker,
             \/ \E x \in Broker : Lapse(b, x)
             \/ \E thread \in {"loop", "create"} : FinishBroadcast(b, thread)
             \/ \E p \in Partition : ReportIsr(b, p)
      PROVE  apart' => apart
    BY <1>2 DEF Lapse, FinishBroadcast, ReportIsr
<1>3. ASSUME NEW r \in reports, UpdateIsr(r) \/ AnswerReport(r) \/ LoseReport(r)
      PROVE  apart' => apart
    BY <1>3 DEF UpdateIsr, AnswerReport, LoseReport
<1>4. ASSUME NEW m \in tasks,
             \/ CallFails(m) \/ CallRetry(m) \/ ApplyLeaderAndIsr(m)
             \/ AllAssignments(m) \/ LockFollowers(m) \/ ReconcileReplication(m)
      PROVE  apart' => apart
    BY <1>4 DEF CallFails, CallRetry, ApplyLeaderAndIsr, AllAssignments, LockFollowers,
       ReconcileReplication
<1>5. CASE UNCHANGED vars
    BY <1>5 DEF vars
<1>6. QED
    BY <1>1, <1>2, <1>3, <1>4, <1>5 DEF Next

\* The controller changes its table and sends each peer what it changed.
LEMMA Announced ==
    ASSUME TypeOK, NEW c \in Broker, UpToDate(c), ~CallsUnderWay,
           NEW table \in Table, NEW entries \in Table,
           NEW thread \in {"loop", "create", "isr"}, NEW n \in 0 .. MaxReports,
           \A p \in Partition :
               table[p] = IF entries[p] = Absent THEN assignments[c][p] ELSE entries[p],
           SetTable(c, table), tasks' = tasks \cup Broadcast(c, thread, n, entries),
           UNCHANGED <<controller, stayed>>,
           \A b \in Broker \ {c} : loop'[b] = loop[b] /\ callback'[b] = callback[b]
    PROVE  UpToDate(c)'
<1> DEFINE call(x) == [from |-> c, thread |-> thread, n |-> n, at |-> x, entries |-> entries,
                       stage |-> "sent", copy |-> NoTable]
<1>1. tasks' = tasks \cup {call(x) : x \in Broker \ {c}}
    BY DEF Broadcast
<1>2. \A x : /\ call(x).from = c /\ call(x).at = x /\ call(x).stage = "sent"
             /\ call(x).entries = entries
    OBVIOUS
<1> HIDE DEF call
<1>3. \A m \in tasks : m.from = c /\ m.at = c /\ m.stage # "sent"
    BY DEF UpToDate, OnlyCaller, CallsUnderWay
<1>4. \A m \in tasks' : \/ m \in tasks
                        \/ m.from = c /\ m.at # c /\ m.stage = "sent" /\ m.entries = entries
    BY <1>1, <1>2
<1>5. OnlyCaller(c)'
    BY <1>3, <1>4 DEF UpToDate, OnlyCaller
<1>6. assignments'[c] = table /\ \A x \in Broker \ {c} : assignments'[x] = assignments[x]
    BY DEF SetTable, TypeOK
<1>7. ASSUME NEW m \in tasks', NEW p \in Partition, m.stage = "sent", m.entries[p] # Absent
      PROVE  m.entries[p] = assignments'[c][p]
  <2>1. m.entries = entries
      BY <1>3, <1>4, <1>7
  <2>2. QED
      BY <1>6, <1>7, <2>1
<1>8. ASSUME NEW x \in stayed \ {c}, NEW p \in Partition, assignments'[x][p] # assignments'[c][p]
      PROVE  OnItsWay(x, p)'
  <2>1. x \in Broker \ {c}
      BY DEF TypeOK
  <2>2. assignments[x][p] = assignments[c][p]
      BY <1>3, <1>8 DEF UpToDate, CatchingUp, OnItsWay
  <2>3. entries[p] # Absent
      BY <1>6, <1>8, <2>1, <2>2
  <2>4. call(x) \in tasks'
      BY <1>1, <2>1
  <2>5. QED
      BY <1>2, <2>3, <2>4 DEF OnItsWay
<1>9. CatchingUp(c)'
    BY <1>7, <1>8 DEF CatchingUp
<1>10. QED
    BY <1>5, <1>9 DEF UpToDate

\* No call is sent or handled, and no table changes.
LEMMA CallsMoveOn ==
    ASSUME NEW c \in Broker, UpToDate(c),
           \A m \in tasks : m.stage = "sent" => m \in tasks' \/ m.at \notin stayed,
           \A n \in tasks' : n \in tasks \/ (n.from = c /\ n.stage # "sent"),
           controller' = controller, assignments' = assignments, stayed' \subseteq stayed,
           \A b \in Broker \ {c} : loop'[b] = "idle" /\ callback'[b] = {}
    PROVE  UpToDate(c)'
<1>1. OnlyCaller(c)'
    BY DEF UpToDate, OnlyCaller
<1>2. ASSUME NEW x \in stayed, NEW p \in Partition, OnItsWay(x, p)
      PROVE  OnItsWay(x, p)'
    BY <1>2 DEF OnItsWay
<1>3. CatchingUp(c)'
    BY <1>2 DEF UpToDate, CatchingUp
<1>4. QED
    BY <1>1, <1>3 DEF UpToDate

\* One controller whose broadcasts do not overlap is behind its peers by the calls that are
\* on their way, whatever crashes and is moved meanwhile.
LEMMA ViewsStep ==
    ASSUME TypeOK, TypeOK', ViewInv, [Next]_vars
    PROVE  ViewInv'
<1> USE DEF tableVars, loopVars, roleVars, countVars, pastVars
<1> SUFFICES ASSUME Smooth' PROVE Views'
    BY DEF ViewInv
<1>1. Smooth
    BY CountersGrow, ApartFades DEF CountsUp, Smooth, TypeOK
<1>2. AllAlike /\ \A c \in controller : UpToDate(c)
    BY <1>1 DEF ViewInv, Views
<1>3. /\ \A c \in controller : c \in Broker /\ c \in up /\ controller = {c} /\ elections # 0
      /\ \A b \in Broker \ controller : controller # {} => loop[b] = "idle" /\ callback[b] = {}
    BY <1>2 DEF UpToDate, OnlyCaller, AllAlike, TypeOK
<1>4. ASSUME elections # 0, elections' = elections, \A c \in controller' : UpToDate(c)'
      PROVE  Views'
    BY <1>4 DEF Views, AllAlike
<1>5. ASSUME UNCHANGED <<controller, loop, callback, tasks, assignments, file, elections, stayed>>
      PROVE  Views'
  <2>1. AllAlike'
      BY <1>2, <1>5 DEF AllAlike
  <2>2. \A c \in controller' : UpToDate(c)'
      BY <1>2, <1>5 DEF UpToDate, OnlyCaller, CatchingUp, OnItsWay
  <2>3. QED
      BY <2>1, <2>2 DEF Views
<1>6. ASSUME NEW b \in Broker, BecomeLeader(b) PROVE Views'
  <2>1. elections = 0 /\ elections' = 1
      BY <1>6 DEF BecomeLeader, Smooth, TypeOK
  <2>2. controller' = {b} /\ UNCHANGED <<loop, callback, tasks, assignments, stayed>>
      BY <1>2, <1>6, <2>1 DEF BecomeLeader, AllAlike
  <2>3. stayed \subseteq Broker
      BY DEF TypeOK
  <2>4. UpToDate(b)'
      BY <1>2, <2>1, <2>2, <2>3 DEF AllAlike, UpToDate, OnlyCaller, CatchingUp
  <2>5. QED
      BY <2>1, <2>2, <2>4 DEF Views, AllAlike
<1>7. ASSUME NEW b \in Broker, StepDown(b) PROVE Views'
  <2>1. b \in controller /\ controller' = controller \ {b} /\ elections' = elections
      BY <1>7 DEF StepDown
  <2>2. controller' = {} /\ elections # 0
      BY <1>3, <2>1
  <2>3. QED
      BY <1>4, <2>1, <2>2
<1>8. ASSUME NEW b \in Broker, BroadcastBrokerHeartbeats(b) PROVE Views'
  <2>1. /\ b \in controller /\ loop' = [loop EXCEPT ![b] = "check"]
        /\ UNCHANGED <<controller, callback, tasks, assignments, elections, stayed>>
      BY <1>8 DEF BroadcastBrokerHeartbeats
  <2>2. \A x \in Broker \ {b} : loop'[x] = "idle" /\ callback'[x] = {}
    <3>1. \A x \in Broker \ {b} : loop[x] = "idle" /\ callback[x] = {}
        BY <1>3, <2>1
    <3>2. QED
        BY <2>1, <3>1 DEF TypeOK
  <2>3. UpToDate(b)'
      BY <1>2, <2>1, <2>2, CallsMoveOn
  <2>4. QED
      BY <1>3, <1>4, <2>1, <2>3
<1>9. ASSUME NEW b \in Broker, CheckPartitionFailover(b) PROVE Views'
  <2> DEFINE table == [p \in Partition |-> Promoted(assignments[b][p], Alive(b))]
             entries == [p \in Partition |->
                           IF table[p] # assignments[b][p] THEN table[p] ELSE Absent]
  <2>1. /\ loop[b] = "check" /\ loop' = [loop EXCEPT ![b] = "idle"]
        /\ UNCHANGED <<controller, elections>>
        /\ \/ UNCHANGED <<tableVars, tasks, callback, pastVars>>
           \/ /\ SetTable(b, table) /\ StayApart
              /\ tasks' = tasks \cup Broadcast(b, "loop", 0, entries)
              /\ callback' = [callback EXCEPT ![b] = @ \cup {"loop"}]
      BY <1>9 DEF CheckPartitionFailover
  <2>2. elections # 0
      BY <1>2, <2>1 DEF AllAlike
  <2>3. SUFFICES ASSUME NEW c \in controller PROVE UpToDate(c)'
      BY <1>4, <2>1, <2>2
  <2>4. b = c /\ controller = {c}
      BY <1>3, <2>1
  <2>5. table \in Table /\ entries \in Table
      BY FailoverTables
  <2>6. ASSUME NEW p \in Partition
        PROVE  table[p] = IF entries[p] = Absent THEN assignments[b][p] ELSE entries[p]
      BY FailoverKeepsEntries, <2>6 DEF Promoted
  <2> HIDE DEF table, entries
  <2>7. \A x \in Broker \ {b} : loop'[x] = "idle" /\ loop[x] = "idle" /\ callback[x] = {}
      BY <1>3, <2>1, <2>4 DEF TypeOK
  <2>8. CASE UNCHANGED <<tableVars, tasks, callback, pastVars>>
    <3>1. UpToDate(b)
        BY <1>2, <2>4
    <3>2. UpToDate(b)'
        BY <2>1, <2>7, <2>8, <3>1, CallsMoveOn
    <3>3. QED
        BY <2>4, <3>2
  <2>9. CASE /\ SetTable(b, table) /\ StayApart
             /\ tasks' = tasks \cup Broadcast(b, "loop", 0, entries)
             /\ callback' = [callback EXCEPT ![b] = @ \cup {"loop"}]
    <3>1. ~CallsUnderWay /\ stayed' = stayed
        BY <2>9 DEF StayApart, Smooth
    <3>2. \A x \in Broker \ {b} : loop'[x] = loop[x] /\ callback'[x] = callback[x]
        BY <2>7, <2>9 DEF TypeOK
    <3>3. UpToDate(b) /\ 0 \in 0 .. MaxReports
        BY <1>2, <2>4, BoundAssumption
    <3>4. UpToDate(b)'
        BY <2>1, <2>5, <2>6, <2>9, <3>1, <3>2, <3>3, Announced
    <3>5. QED
        BY <2>4, <3>4
  <2>10. QED
      BY <2>1, <2>8, <2>9
<1>10. ASSUME NEW b \in Broker, CreateTopic(b) PROVE Views'
  <2> DEFINE table == [p \in Partition |-> Placement(Alive(b), p)]
  <2>1. /\ b \in controller /\ SetTable(b, table) /\ StayApart
        /\ tasks' = tasks \cup Broadcast(b, "create", 0, table)
        /\ callback' = [callback EXCEPT ![b] = @ \cup {"create"}]
        /\ UNCHANGED <<controller, loop, elections>>
      BY <1>10 DEF CreateTopic
  <2>2. table \in Table /\ \A p \in Partition : table[p] # Absent
    <3>1. Alive(b) \in SUBSET Broker /\ Alive(b) # {}
        BY DEF TypeOK, Alive
    <3>2. QED
        BY <3>1, CreatedTable, PlacementIsSane
  <2> HIDE DEF table
  <2>3. ~CallsUnderWay /\ stayed' = stayed
      BY <2>1 DEF StayApart, Smooth
  <2>4. \A x \in Broker \ {b} : loop'[x] = loop[x] /\ callback'[x] = callback[x]
      BY <2>1 DEF TypeOK
  <2>5. UpToDate(b) /\ 0 \in 0 .. MaxReports
      BY <1>2, <2>1, BoundAssumption
  <2>6. UpToDate(b)'
      BY <2>1, <2>2, <2>3, <2>4, <2>5, Announced
  <2>7. QED
      BY <1>3, <1>4, <2>1, <2>6
<1>11. ASSUME NEW b \in Broker, NEW thread \in {"loop", "create"}, FinishBroadcast(b, thread)
       PROVE  Views'
  <2>1. /\ callback[b] # {} /\ callback' = [callback EXCEPT ![b] = @ \ {thread}]
        /\ tasks' = tasks \cup {OwnReconcile(b, thread)}
        /\ UNCHANGED <<controller, loop, assignments, elections, stayed>>
      BY <1>11 DEF FinishBroadcast
  <2>2. elections # 0
      BY <1>2, <2>1 DEF AllAlike
  <2>3. SUFFICES ASSUME NEW c \in controller PROVE UpToDate(c)'
      BY <1>4, <2>1, <2>2
  <2>4. b = c /\ UpToDate(c)
      BY <1>2, <1>3, <2>1
  <2>5. \A x \in Broker \ {c} : loop'[x] = "idle" /\ callback'[x] = {}
    <3>1. \A x \in Broker \ {c} : loop[x] = "idle" /\ callback[x] = {}
        BY <1>3, <2>4
    <3>2. QED
        BY <2>1, <2>4, <3>1 DEF TypeOK
  <2>6. \A n \in tasks' : n \in tasks \/ (n.from = c /\ n.stage # "sent")
      BY <2>1, <2>4 DEF OwnReconcile
  <2>7. QED
      BY <2>1, <2>4, <2>5, <2>6, CallsMoveOn
<1>12. ASSUME NEW b \in Broker, Crash(b) PROVE Views'
  <2>1. PICK kept \in SUBSET {m \in tasks : m.from = b /\ m.at # b} :
          tasks' = {m \in tasks : m.from # b /\ m.at # b} \cup {Orphan(m) : m \in kept}
      BY <1>12 DEF Crash
  <2>2. /\ controller' = controller \ {b} /\ stayed' = stayed \ {b}
        /\ loop' = [loop EXCEPT ![b] = "idle"] /\ callback' = [callback EXCEPT ![b] = {}]
        /\ file' = file \/ MayPersist(b)
        /\ UNCHANGED <<assignments, elections>>
      BY <1>12 DEF Crash
  <2>3. CASE elections = 0
    <3>1. /\ controller = {} /\ tasks = {}
          /\ \A x \in Broker : loop[x] = "idle" /\ callback[x] = {}
          /\ \A x, y \in Broker : assignments[x] = assignments[y] /\ file[x] = assignments[y]
        BY <1>2, <2>3 DEF AllAlike
    <3>2. controller' = {} /\ tasks' = {} /\ file' = file
        BY <2>1, <2>2, <3>1 DEF MayPersist
    <3>3. \A x \in Broker : loop'[x] = "idle" /\ callback'[x] = {}
        BY <2>2, <3>1 DEF TypeOK
    <3>4. QED
        BY <2>2, <3>1, <3>2, <3>3 DEF Views, AllAlike
  <2>4. CASE elections # 0
    <3>1. SUFFICES ASSUME NEW c \in controller \ {b} PROVE UpToDate(c)'
        BY <1>4, <2>2, <2>4
    <3>2. UpToDate(c) /\ c \in Broker /\ controller = {c} /\ controller' = controller
        BY <1>2, <1>3, <2>2
    <3>3. \A m \in tasks : m.from = c
        BY <3>2 DEF UpToDate, OnlyCaller
    <3>4. tasks' = {m \in tasks : m.at # b}
        BY <2>1, <3>3
    <3>5. \A x \in Broker \ {c} : loop'[x] = "idle" /\ callback'[x] = {}
        BY <1>3, <2>2, <3>2 DEF TypeOK
    <3>6. UpToDate(c)'
      <4>1. OnlyCaller(c)'
          BY <3>2, <3>4, <3>5 DEF UpToDate, OnlyCaller
      <4>2. \A x \in stayed', p \in Partition : OnItsWay(x, p) => OnItsWay(x, p)'
          BY <2>2, <3>4 DEF OnItsWay
      <4>3. CatchingUp(c)'
          BY <2>2, <3>2, <3>4, <4>2 DEF UpToDate, CatchingUp
      <4>4. QED
          BY <4>1, <4>3 DEF UpToDate
    <3>7. QED
        BY <3>6
  <2>5. QED
      BY <2>3, <2>4
<1>13. ASSUME NEW b \in Broker, Restart(b) PROVE Views'
  <2>1. /\ b \notin up /\ assignments' = [assignments EXCEPT ![b] = file[b]]
        /\ UNCHANGED <<controller, loop, callback, tasks, file, elections, stayed>>
      BY <1>13 DEF Restart
  <2>2. \A x \in Broker : assignments'[x] = IF x = b THEN file[b] ELSE assignments[x]
      BY <2>1 DEF TypeOK
  <2>3. AllAlike'
      BY <1>2, <2>1, <2>2 DEF AllAlike
  <2>4. ASSUME NEW c \in controller PROVE UpToDate(c)'
    <3>1. UpToDate(c) /\ c \in Broker /\ c # b
        BY <1>2, <1>3, <2>1
    <3>2. \A x \in stayed : x \in Broker /\ x # b
        BY <2>1 DEF TypeOK
    <3>3. OnlyCaller(c)'
        BY <2>1, <3>1 DEF UpToDate, OnlyCaller
    <3>4. CatchingUp(c)'
        BY <2>1, <2>2, <3>1, <3>2 DEF UpToDate, CatchingUp, OnItsWay
    <3>5. QED
        BY <3>3, <3>4 DEF UpToDate
  <2>5. QED
      BY <2>1, <2>3, <2>4 DEF Views
<1>14. ASSUME NEW r \in reports, UpdateIsr(r) PROVE Views'
  <2> DEFINE entry == [assignments[r.to][r.p] EXCEPT !.isr = r.isr]
             table == [assignments[r.to] EXCEPT ![r.p] = entry]
             entries == [NoTable EXCEPT ![r.p] = entry]
  <2>1. CASE /\ r.to \in controller /\ assignments[r.to][r.p] # Absent
             /\ SetTable(r.to, table) /\ StayApart
             /\ tasks' = tasks \cup Broadcast(r.to, "isr", r.n, entries)
    <3>1. /\ r.to \in Broker /\ r.p \in Partition /\ r.isr \in SUBSET Broker
          /\ r.n \in 0 .. MaxReports
        BY DEF TypeOK, Report
    <3>2. assignments[r.to] \in Table /\ assignments[r.to][r.p] \in PartitionAssignment
        BY <3>1 DEF TypeOK, Table
    <3>3. entry \in PartitionAssignment /\ entry # Absent
        BY <2>1, <3>1, <3>2, EntryFields
    <3> HIDE DEF entry
    <3>4. /\ table \in Table /\ entries \in Table
          /\ \A p \in Partition :
               /\ table[p] = IF p = r.p THEN entry ELSE assignments[r.to][p]
               /\ entries[p] = IF p = r.p THEN entry ELSE Absent
        BY <3>1, <3>2, <3>3, NoTableType DEF Table
    <3> HIDE DEF table, entries
    <3>5. ~CallsUnderWay /\ stayed' = stayed
        BY <2>1 DEF StayApart, Smooth
    <3>6. UpToDate(r.to)
        BY <1>2, <2>1
    <3>7. UNCHANGED <<controller, loop, callback, elections>>
        BY <1>14 DEF UpdateIsr
    <3>8. UpToDate(r.to)'
        BY <2>1, <3>1, <3>3, <3>4, <3>5, <3>6, <3>7, Announced
    <3>9. QED
        BY <1>3, <1>4, <2>1, <3>7, <3>8
  <2>2. CASE UNCHANGED <<tableVars, tasks, pastVars>>
    <3>1. UNCHANGED <<controller, loop, callback, elections>>
        BY <1>14 DEF UpdateIsr
    <3>2. QED
        BY <1>5, <2>2, <3>1
  <2>3. QED
      BY <1>14, <2>1, <2>2 DEF UpdateIsr
<1>15. ASSUME NEW m \in tasks
       PROVE  m \in Task /\ m.at \in Broker /\ elections # 0
    BY <1>2 DEF TypeOK, Task, AllAlike
<1>16. ASSUME NEW m \in tasks, NEW n, n.stage # "sent", n.from = m.from,
              m.stage # "sent" \/ m.at \notin up,
              tasks' = tasks \ {m} \/ tasks' = (tasks \ {m}) \cup {n},
              UNCHANGED <<controller, loop, callback, assignments, elections, stayed>>
       PROVE  Views'
  <2>1. SUFFICES ASSUME NEW c \in controller PROVE UpToDate(c)'
      BY <1>4, <1>15, <1>16
  <2>2. UpToDate(c) /\ c \in Broker /\ m.from = c
      BY <1>2, <1>3 DEF UpToDate, OnlyCaller
  <2>3. \A o \in tasks : o.stage = "sent" => o \in tasks' \/ o.at \notin stayed
      BY <1>16 DEF TypeOK
  <2>4. \A o \in tasks' : o \in tasks \/ (o.from = c /\ o.stage # "sent")
      BY <1>16, <2>2
  <2>5. \A x \in Broker \ {c} : loop'[x] = "idle" /\ callback'[x] = {}
      BY <1>3, <1>16
  <2>6. QED
      BY <1>16, <2>2, <2>3, <2>4, <2>5, CallsMoveOn
<1>17. ASSUME NEW m \in tasks, CallFails(m) PROVE Views'
  <2>1. /\ m.at \notin up /\ tasks' = tasks \ {m}
        /\ UNCHANGED <<controller, loop, callback, assignments, elections, stayed>>
      BY <1>1, <1>17 DEF CallFails, Smooth
  <2>2. [m EXCEPT !.stage = "applied"].stage # "sent" /\ [m EXCEPT !.stage = "applied"].from = m.from
      BY <1>15 DEF Task
  <2>3. QED
      BY <1>16, <2>1, <2>2
<1>18. ASSUME NEW m \in tasks, CallRetry(m) PROVE FALSE
    BY <1>1, <1>18 DEF CallRetry, Smooth
<1>19. ASSUME NEW m \in tasks, ApplyLeaderAndIsr(m) PROVE Views'
  <2> DEFINE n == [m EXCEPT !.stage = "applied"]
             table == Overlay(assignments[m.at], m.entries)
  <2>1. /\ UNCHANGED <<controller, loop, callback, elections, stayed>> /\ m.stage = "sent"
        /\ SetTable(m.at, table) /\ tasks' = (tasks \ {m}) \cup {n}
      BY <1>19 DEF ApplyLeaderAndIsr
  <2>2. n.at = m.at /\ n.stage = "applied" /\ n.from = m.from
      BY <1>15 DEF Task
  <2>3. \A p \in Partition :
          table[p] = IF m.entries[p] = Absent THEN assignments[m.at][p] ELSE m.entries[p]
      BY DEF Overlay
  <2> HIDE DEF n, table
  <2>4. SUFFICES ASSUME NEW c \in controller PROVE UpToDate(c)'
      BY <1>4, <1>15, <2>1
  <2>5. UpToDate(c) /\ c \in Broker /\ controller = {c} /\ m.at # c
      BY <1>2, <1>3, <2>1 DEF UpToDate, OnlyCaller
  <2>6. \A x \in Broker : assignments'[x] = IF x = m.at THEN table ELSE assignments[x]
      BY <1>15, <2>1 DEF SetTable, TypeOK
  <2>7. \A o \in tasks' : (o \in tasks /\ o # m) \/ o = n
      BY <2>1
  <2>8. OnlyCaller(c)'
      BY <2>1, <2>2, <2>5, <2>7 DEF UpToDate, OnlyCaller
  <2>9. ASSUME NEW o \in tasks', NEW p \in Partition, o.stage = "sent", o.entries[p] # Absent
        PROVE  o.entries[p] = assignments'[c][p]
    <3>1. o \in tasks /\ assignments'[c] = assignments[c]
        BY <2>2, <2>5, <2>6, <2>7, <2>9
    <3>2. QED
        BY <2>5, <2>9, <3>1 DEF UpToDate, CatchingUp
  <2>10. ASSUME NEW x \in stayed \ {c}, NEW p \in Partition,
                assignments'[x][p] # assignments'[c][p]
         PROVE  OnItsWay(x, p)'
    <3>1. x \in Broker /\ assignments'[c] = assignments[c]
        BY <2>5, <2>6 DEF TypeOK
    <3>2. m.entries[p] # Absent => m.entries[p] = assignments[c][p]
        BY <2>1, <2>5 DEF UpToDate, CatchingUp
    <3>3. assignments[x][p] # assignments[c][p] /\ (x = m.at => m.entries[p] = Absent)
        BY <2>3, <2>6, <2>10, <3>1, <3>2
    <3>4. PICK o \in tasks : o.at = x /\ o.stage = "sent" /\ o.entries[p] # Absent
        BY <2>5, <3>3 DEF UpToDate, CatchingUp, OnItsWay
    <3>5. o # m
        BY <3>3, <3>4
    <3>6. QED
        BY <2>1, <3>4, <3>5 DEF OnItsWay
  <2>11. CatchingUp(c)'
      BY <2>1, <2>9, <2>10 DEF CatchingUp
  <2>12. QED
      BY <2>8, <2>11 DEF UpToDate
<1>20. ASSUME NEW m \in tasks, AllAssignments(m) \/ LockFollowers(m) \/ ReconcileReplication(m)
       PROVE  Views'
  <2>1. UNCHANGED <<controller, loop, callback, elections, assignments, stayed>> /\ m.stage # "sent"
      BY <1>20 DEF AllAssignments, LockFollowers, ReconcileReplication
  <2>2. CASE AllAssignments(m)
    <3> DEFINE n == [m EXCEPT !.stage = "read", !.copy = assignments[m.at]]
    <3>1. n.stage # "sent" /\ n.from = m.from
        BY <1>15 DEF Task
    <3>2. tasks' = (tasks \ {m}) \cup {n}
        BY <2>2 DEF AllAssignments
    <3> HIDE DEF n
    <3>3. QED
        BY <1>16, <2>1, <3>1, <3>2
  <2>3. CASE LockFollowers(m)
    <3> DEFINE n == [m EXCEPT !.stage = "locked"]
    <3>1. n.stage # "sent" /\ n.from = m.from
        BY <1>15 DEF Task
    <3>2. tasks' = (tasks \ {m}) \cup {n}
        BY <2>3 DEF LockFollowers
    <3> HIDE DEF n
    <3>3. QED
        BY <1>16, <2>1, <3>1, <3>2
  <2>4. CASE ReconcileReplication(m)
    <3>1. tasks' = tasks \ {m}
        BY <2>4 DEF ReconcileReplication
    <3>2. QED
        BY <1>16, <2>1, <3>1
  <2>5. QED
      BY <1>20, <2>2, <2>3, <2>4
<1>21. ASSUME NEW b \in Broker, NEW x \in Broker, Lapse(b, x) PROVE Views'
    BY <1>5, <1>21 DEF Lapse
<1>22. ASSUME NEW b \in Broker, NEW p \in Partition, ReportIsr(b, p) PROVE Views'
    BY <1>5, <1>22 DEF ReportIsr
<1>23. ASSUME NEW r \in reports, AnswerReport(r) \/ LoseReport(r) PROVE Views'
    BY <1>5, <1>23 DEF AnswerReport, LoseReport
<1>24. CASE UNCHANGED vars
    BY <1>5, <1>24 DEF vars
<1>25. QED
    BY <1>6, <1>7, <1>8, <1>9, <1>10, <1>11, <1>12, <1>13, <1>14, <1>17, <1>18, <1>19,
       <1>20, <1>21, <1>22, <1>23, <1>24 DEF Next

\* With one controller whose broadcasts do not overlap and calls that do not fail between
\* live brokers, every broker that has not crashed holds the controller's table once the
\* calls are over: in a new cluster and in one that has its topic, whichever brokers crash
\* and restart, and whatever failovers, ISR changes and topics the controller announces.
THEOREM ViewsAreCurrent == Spec \/ SpecCreated => []ViewsStayCurrent
<1> DEFINE I == TypeOK /\ ViewInv
<1>1. Init \/ InitCreated => I
    BY PlacedInvInit, CreatedInit, ViewsInit DEF PlacedInv
<1>2. I /\ [Next]_vars => I'
    BY TypeStep, ViewsStep
<1>3. I => ViewsStayCurrent
  <2> SUFFICES ASSUME TypeOK, ViewInv, elections = 1, breaks = 0, apart, ~CallsUnderWay,
                      NEW c \in controller, NEW b \in stayed
               PROVE  assignments[b] = assignments[c]
      BY DEF ViewsStayCurrent
  <2>1. UpToDate(c)
      BY DEF ViewInv, Smooth, Views
  <2>2. CASE b = c
      BY <2>2
  <2>3. CASE b # c
    <3>1. \A m \in tasks : m.at # b
        BY <2>1, <2>3 DEF UpToDate, OnlyCaller, CallsUnderWay
    <3>2. \A p \in Partition : assignments[b][p] = assignments[c][p]
        BY <2>1, <2>3, <3>1 DEF UpToDate, CatchingUp, OnItsWay
    <3>3. assignments[b] \in Table /\ assignments[c] \in Table
        BY DEF TypeOK
    <3>4. QED
        BY <3>2, <3>3 DEF Table
  <2>4. QED
      BY <2>2, <2>3
<1> HIDE DEF I
<1>4. QED
    BY <1>1, <1>2, <1>3, PTL DEF Spec, SpecCreated
=============================================================================
