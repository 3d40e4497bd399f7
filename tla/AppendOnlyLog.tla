--------------------------- MODULE AppendOnlyLog ---------------------------
(***************************************************************************)
(* What storage promises: a log that only grows, whose records carry their *)
(* position as offset, and of which an acknowledged part never shrinks.    *)
(* Records that a crash kept although their append was never acknowledged  *)
(* belong to the log like any other.                                       *)
(***************************************************************************)
EXTENDS Integers, Sequences

CONSTANT Payload    \* what a record carries besides its offset

VARIABLES
    log,      \* the records, the one with offset o at o + 1
    acked     \* how many of them were acknowledged to callers

Record == [offset : Nat, payload : Payload]

\* The batch continues the log: consecutive offsets from the log end on.
Continues(batch) ==
    /\ batch \in Seq(Record)
    /\ \A i \in 1 .. Len(batch) : batch[i].offset = Len(log) + i - 1

\* The log grows by some records.
Extends ==
    /\ Len(log') >= Len(log)
    /\ SubSeq(log', 1, Len(log)) = log
    /\ Continues(SubSeq(log', Len(log) + 1, Len(log')))

Init == log = <<>> /\ acked = 0

\* An append returns: everything in the log is acknowledged.
AppendAcked == Extends /\ acked' = Len(log')

\* An append is cut short: some records of it may have made it.
Cut == Extends /\ UNCHANGED acked

Next == AppendAcked \/ Cut

Spec == Init /\ [][Next]_<<log, acked>>
=============================================================================
