----------------------------- MODULE CommitLog -----------------------------
(***************************************************************************)
(* The log of one partition on disk: Partition over a list of Segments,    *)
(* each a .log file of framed records and a sparse .index file, with       *)
(* processes that die in the middle of an append or of recovery.           *)
(*                                                                         *)
(* Partition::mu_ serialises every operation, so an operation is one step; *)
(* a crash inside one is a step of its own that leaves any state of the    *)
(* files the operation could have left.  Files survive the process (no     *)
(* power loss); bytes still in the stream's buffer do not.                 *)
(*                                                                         *)
(* A frame is a record with the number of bytes it encodes to.  A frame    *)
(* that was cut short has offset Torn: decode_record throws on it.  Every  *)
(* batch is assumed to start at the log end (see AppendReplicated).        *)
(*                                                                         *)
(* An operator whose name ends in _bug is a mutant: a plausible mistake in *)
(* the operator that follows it.                                           *)
(***************************************************************************)
EXTENDS Integers, Sequences, FiniteSets, SequencesExt

CONSTANTS
    FrameSize,          \* the encoded sizes of records
    MaxSegBytes,        \* maxSegBytes_
    IndexInterval,      \* kIndexIntervalBytes
    MaxBatch,           \* bound: records of one append
    MaxOffset,          \* bound: records of the log
    MaxCrashes          \* bound: crashes

ASSUME SizeAssumption ==
    FrameSize \subseteq Nat \ {0} /\ MaxSegBytes \in Nat \ {0} /\ IndexInterval \in Nat
ASSUME BoundAssumption == MaxBatch \in Nat /\ MaxOffset \in Nat /\ MaxCrashes \in Nat

VARIABLES
    segments,   \* the files: [base, frames, index] in the order of base
    open,       \* the Segment objects: [index, size, since] of each
    nextOffset, \* nextOffset_
    hwm,        \* hwm_
    up,         \* the process runs and recover() is done
    crashes,    \* crashes so far; also tells records of different lives apart
    acked       \* history: log end of the last append that returned

vars == <<segments, open, nextOffset, hwm, up, crashes, acked>>

Torn == -1

Payload == [size : Nat, life : Nat]

-----------------------------------------------------------------------------
(* Segment *)

Bytes(frames) == FoldLeft(LAMBDA n, f : n + f.payload.size, 0, frames)

\* The frames decode_record accepts, up to the first torn one.
Clean(frames) ==
    LET t == SelectInSeq(frames, LAMBDA f : f.offset = Torn)
    IN IF t = 0 THEN frames ELSE SubSeq(frames, 1, t - 1)

\* A fresh segment: create_empty.
Empty == [index |-> <<>>, size |-> 0, since |-> 0]

\* One turn of the loop of append: the sparse index entry, then the record.
\* The loop of scan_and_recover does the same to every record it decodes.
Indexed_bug(base, s, f) ==
    LET due == s.index = <<>> \/ s.since >= IndexInterval
    IN [index |-> IF due THEN Append(s.index, <<f.offset - base, s.size + f.payload.size>>)
                         ELSE s.index,
        size |-> s.size + f.payload.size,
        since |-> f.payload.size + IF due THEN 0 ELSE s.since]

Indexed(base, s, f) ==
    LET due == s.index = <<>> \/ s.since >= IndexInterval
    IN [index |-> IF due THEN Append(s.index, <<f.offset - base, s.size>>) ELSE s.index,
        size |-> s.size + f.payload.size,
        since |-> f.payload.size + IF due THEN 0 ELSE s.since]

IndexAll(base, s, frames) == FoldLeft(LAMBDA a, f : Indexed(base, a, f), s, frames)

\* find_start_position: the last index entry at or before rel.
FindStartPosition(index, rel) ==
    LET i == SelectLastInSeq(index, LAMBDA e : e[1] <= rel)
    IN IF i = 0 THEN 0 ELSE index[i][2]

\* read_from: decoding starts at byte pos.  Bytes that are no frame's first
\* decode to nothing.
ReadFrom(frames, pos) ==
    LET starts == {i \in 1 .. Len(frames) : Bytes(SubSeq(frames, 1, i - 1)) = pos}
    IN IF starts = {} THEN <<>>
       ELSE Clean(SubSeq(frames, Min(starts), Len(frames)))

-----------------------------------------------------------------------------
(* Partition: append and recovery *)

NewSegment(base) == [base |-> base, frames |-> <<>>, index |-> <<>>]

\* append rolls to a new segment when the active one is full.
MustRoll == Last(open).size >= MaxSegBytes

\* The files and the objects an append starts on.
Rolled == IF MustRoll THEN Append(segments, NewSegment(nextOffset)) ELSE segments
RolledOpen == IF MustRoll THEN Append(open, Empty) ELSE open

\* The records of an append, with consecutive offsets from nextOffset_ on.
Batches ==
    {[i \in 1 .. n |-> [offset |-> nextOffset + i - 1,
                        payload |-> [size |-> sizes[i], life |-> crashes]]] :
       n \in 1 .. MaxBatch, sizes \in [1 .. MaxBatch -> FrameSize]}

\* The files and objects once the active segment has the batch.
Written(batch) ==
    LET segs == Rolled
        n == Len(segs)
        s == IndexAll(segs[n].base, RolledOpen[n], batch)
    IN /\ segments' = [segs EXCEPT ![n].frames = @ \o batch, ![n].index = s.index]
       /\ open' = [RolledOpen EXCEPT ![n] = s]
       /\ nextOffset' = nextOffset + Len(batch)

\* append: the leader's records; the watermark goes to the log end.
AppendRecords(batch) ==
    /\ up
    /\ nextOffset + Len(batch) <= MaxOffset
    /\ Written(batch)
    /\ hwm' = nextOffset'
    /\ acked' = nextOffset'
    /\ UNCHANGED <<up, crashes>>

\* append_replicated: a follower's copy; the watermark stays.  The batch goes on
\* at nextOffset_, which the code does not check: LeaderHandover says when it does.
AppendReplicated(batch) ==
    /\ up
    /\ nextOffset + Len(batch) <= MaxOffset
    /\ Written(batch)
    /\ acked' = nextOffset'
    /\ UNCHANGED <<hwm, up, crashes>>

\* set_high_watermark by IsrManager and reconcile_replication.
SetHighWatermark(h) ==
    /\ up
    /\ hwm' = h
    /\ UNCHANGED <<segments, open, nextOffset, up, crashes, acked>>

\* What recover makes of the active segment: scan_and_recover.
Scan(seg) == IndexAll(seg.base, Empty, Clean(seg.frames))

\* The frames that scan_and_recover leaves in the file (resize_file).
Truncated_bug(frames) == frames

Truncated(frames) == Clean(frames)

\* nextOffset_ after recovery: one past the last good record, or the base of
\* a segment that has none.
OffsetAfter_bug(seg) ==
    LET good == Clean(seg.frames)
    IN IF good = <<>> THEN 0 ELSE Last(good).offset + 1

OffsetAfter(seg) ==
    LET good == Clean(seg.frames)
    IN IF good = <<>> THEN seg.base ELSE Last(good).offset + 1

\* load_index: closed segments are trusted.
LoadIndex(seg) == [index |-> seg.index, size |-> Bytes(seg.frames), since |-> 0]

\* recover() when the broker opens the partition.
Recover ==
    LET segs == IF segments = <<>> THEN <<NewSegment(0)>> ELSE segments
        n == Len(segs)
    IN /\ ~up
       /\ up' = TRUE
       /\ open' = [i \in 1 .. n |-> IF i < n THEN LoadIndex(segs[i]) ELSE Scan(segs[n])]
       /\ segments' = [segs EXCEPT ![n].frames = Truncated(@), ![n].index = Scan(segs[n]).index]
       /\ nextOffset' = OffsetAfter(segs[n])
       /\ hwm' = nextOffset'
       /\ UNCHANGED <<crashes, acked>>

-----------------------------------------------------------------------------
(* Crashes *)

\* The process ends and leaves the files segs.
Die(segs) ==
    /\ crashes < MaxCrashes
    /\ crashes' = crashes + 1
    /\ up' = FALSE
    /\ segments' = segs
    /\ open' = <<>>
    /\ nextOffset' = 0
    /\ hwm' = 0
    /\ UNCHANGED acked

Crash == up /\ Die(segments)

\* The first b bytes of the batch, as the frames they make up.
FirstBytes(batch, b) ==
    LET whole == Max({k \in 0 .. Len(batch) : Bytes(SubSeq(batch, 1, k)) <= b})
        rest == b - Bytes(SubSeq(batch, 1, whole))
    IN SubSeq(batch, 1, whole) \o
       IF rest = 0 THEN <<>>
       ELSE <<[offset |-> Torn, payload |-> [size |-> rest, life |-> crashes]]>>

\* Inside append: the loop has handled j records and perhaps written the next
\* one's index entry.  Index entries are on disk, the stream's buffer has
\* reached the file up to byte b.
CrashInAppend(batch) ==
    /\ up
    /\ nextOffset + Len(batch) <= MaxOffset
    /\ \E j \in 0 .. Len(batch) : \E i \in {j, j + 1} \cap 0 .. Len(batch) :
       \E b \in 0 .. Bytes(SubSeq(batch, 1, j)) :
         LET segs == Rolled
             n == Len(segs)
             s == IndexAll(segs[n].base, RolledOpen[n], SubSeq(batch, 1, i))
         IN Die([segs EXCEPT ![n].frames = @ \o FirstBytes(batch, b), ![n].index = s.index])

\* Inside recover: the index file is emptied and partly rebuilt, the .log file
\* is truncated last.  Or the very first segment is only just created.
CrashInRecover ==
    LET n == Len(segments) IN
    /\ ~up
    /\ \/ segments = <<>> /\ Die(<<NewSegment(0)>>)
       \/ /\ segments # <<>>
          /\ \E index \in Prefixes(Scan(segments[n]).index) :
             \E frames \in {segments[n].frames, Truncated(segments[n].frames)} :
               Die([segments EXCEPT ![n].frames = frames, ![n].index = index])

-----------------------------------------------------------------------------
Init ==
    /\ segments = <<>>
    /\ open = <<>>
    /\ nextOffset = 0
    /\ hwm = 0
    /\ up = FALSE
    /\ crashes = 0
    /\ acked = 0

Next ==
    \/ Recover
    \/ \E batch \in Batches :
         AppendRecords(batch) \/ AppendReplicated(batch) \/ CrashInAppend(batch)
    \/ \E h \in 0 .. nextOffset : SetHighWatermark(h)
    \/ Crash
    \/ CrashInRecover

Spec == Init /\ [][Next]_vars

-----------------------------------------------------------------------------
(* Partition::read and read_up_to_leo *)

\* segment_for_offset: the last segment that starts at or before the offset.
SegmentFor(start) ==
    LET i == SelectLastInSeq(segments, LAMBDA s : s.base <= start)
    IN IF i = 0 THEN 1 ELSE i

\* Where decoding starts in the first segment that is read.
FromPos(i, start) ==
    IF start > segments[i].base
      THEN FindStartPosition(open[i].index, start - segments[i].base) ELSE 0

\* The records read_clamped decodes, segment after segment.
Decoded(start) ==
    LET first == SegmentFor(start)
    IN FlattenSeq([k \in 1 .. Len(segments) - first + 1 |->
         ReadFrom(segments[first + k - 1].frames, IF k = 1 THEN FromPos(first, start) ELSE 0)])

\* The longest start of the records within maxBytes; a lone oversized record
\* is returned all the same.
Fitting(records, maxBytes) ==
    LET fit == Max({k \in 0 .. Len(records) : Bytes(SubSeq(records, 1, k)) <= maxBytes})
    IN IF fit = 0 /\ records # <<>> THEN <<records[1]>> ELSE SubSeq(records, 1, fit)

\* The loop of read_clamped passes over what was decoded before start.
Skipped(records, start) ==
    FoldLeft(LAMBDA kept, r : IF r.offset < start THEN kept ELSE Append(kept, r), <<>>, records)

\* read_clamped: the first record at or beyond the clamp ends the result.
ReadClamped(start, maxBytes, clamp) ==
    LET from == Skipped(Decoded(start), start)
        stop == SelectInSeq(from, LAMBDA r : r.offset >= clamp)
    IN IF start >= clamp THEN <<>>
       ELSE Fitting(IF stop = 0 THEN from ELSE SubSeq(from, 1, stop - 1), maxBytes)

-----------------------------------------------------------------------------
(* Properties *)

\* The records on disk, across the segments.
Stored == FlattenSeq([i \in 1 .. Len(segments) |-> Clean(segments[i].frames)])

\* The files, the Segment objects and the offsets are well formed: an object per
\* file while the process runs, a torn frame only where nothing follows it, and
\* the watermark within the log.
TypeOK ==
    /\ nextOffset \in 0 .. MaxOffset
    /\ hwm \in 0 .. nextOffset
    /\ crashes \in 0 .. MaxCrashes
    /\ acked \in 0 .. MaxOffset
    /\ up \in BOOLEAN
    /\ up => Len(open) = Len(segments)
    /\ \A i \in 1 .. Len(segments) :
         /\ segments[i].base \in 0 .. MaxOffset
         /\ \A k \in 1 .. Len(segments[i].frames) :
              segments[i].frames[k].offset \in 0 .. MaxOffset \cup {Torn}
         /\ Len(Clean(segments[i].frames)) >= Len(segments[i].frames) - 1

Abstract == INSTANCE AppendOnlyLog WITH log <- Stored, acked <- acked

\* Segments, sparse indexes, torn writes and recovery implement the append-only
\* log, as long as batches go on at the log end: no crash in an append or in
\* recover() loses an acknowledged record, leaves a gap or reuses an offset.
ImplementsLog == Abstract!Spec

\* The log end Partition works with is the log end on disk, and everything that was
\* acknowledged is below it, after any number of crashes inside append and recover.
LogEndIsDurable == up => nextOffset = Len(Stored) /\ acked <= nextOffset

\* read() and read_up_to_leo() return exactly the records from startOffset on, below
\* the watermark or the log end, that fit maxBytes, for every way the log is cut into
\* segments and for every index that append, scan_and_recover or load_index built.
ReadIsExact ==
    up => \A start \in 0 .. nextOffset : \A clamp \in {hwm, nextOffset} :
            \A maxBytes \in 0 .. Bytes(Stored) :
              ReadClamped(start, maxBytes, clamp)
                = Fitting(SubSeq(Stored, start + 1, clamp), maxBytes)
=============================================================================
