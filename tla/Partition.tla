------------------------------ MODULE Partition ------------------------------
(***************************************************************************)
(* One partition of the broker: the segments of src/src/storage/partition.rs*)
(* each with its log file and its index (segment.rs, index.rs), starting    *)
(* from an empty directory.  File operations succeed, and the process may   *)
(* end between any two steps and open the partition again; module           *)
(* SegmentFile is about what crashes inside a write, power losses and       *)
(* failed writes do to one segment.                                         *)
(*                                                                          *)
(* A segment made by Segment::create writes to the end of its file (append  *)
(* mode).  One opened by Segment::load writes at the file position, which   *)
(* is the end of the file as long as every read reaches it.  Reopen is      *)
(* therefore limited to segments that one read covers, which the defaults   *)
(* (10 MiB segments, reads of 1 MiB) are not: what happens to larger ones   *)
(* is a matter of SegmentFile.                                              *)
(*                                                                          *)
(* A partition is owned by one actor, which runs one command at a time, so  *)
(* no two operations overlap.  The loops of append_batch and read_batch are *)
(* steps of their own: one payload, one chunk, one segment at a time.       *)
(*                                                                          *)
(* Byte counts are the real ones.  A record on disk carries `at', the byte  *)
(* it starts at; keys and values are members of Blob, of which only the     *)
(* length matters.  Timestamps are left out.                                *)
(*                                                                          *)
(* A definition whose name ends in _bug is not part of the model: it is the *)
(* definition after it with a plausible mistake, kept to confirm that the   *)
(* property it is paired with can fail.                                     *)
(***************************************************************************)
EXTENDS Integers, Sequences

CONSTANTS
  Blob,              \* the keys and values clients send
  None,              \* an absent key or value
  BlobLen,           \* BlobLen[b] is the number of bytes of b
  MaxSegmentBytes,   \* Config::segment_max_bytes
  ReadBuffers,       \* the least bytes a read may ask for (1 MiB in the code)
  Messages,          \* the pairs of key and value a Produce request may hold
  Batches,           \* the payload vectors a ProduceBatch request may hold
  Budgets,           \* the values of max_bytes a Fetch request may hold
  MaxOffset          \* bound: no more than MaxOffset records are stored

ASSUME BlobAssumption == None \notin Blob \cup Nat /\ BlobLen \in [Blob -> Nat]
ASSUME LimitAssumption == MaxSegmentBytes \in Nat /\ MaxOffset \in Nat
ASSUME InputAssumption == /\ Messages \subseteq (Blob \cup {None}) \X (Blob \cup {None})
                          /\ Batches \subseteq Seq(Blob)
                          /\ Budgets \subseteq Nat
                          /\ ReadBuffers \subseteq Nat

VARIABLES
  segments,   \* Partition::segments, the active one last
  phase,      \* "idle", or the loop that is running: "batch" or "fetch"
  batch,      \* the locals of append_batch
  fetch,      \* the locals of read_batch
  reply,      \* what the last operation returned, once it has
  acked,      \* history: every record a client was told is stored
  buffer      \* a member of ReadBuffers, the same for ever

vars == <<segments, phase, batch, fetch, reply, acked, buffer>>

-----------------------------------------------------------------------------
\* Records and segments.

Field == Blob \cup {None}

\* A Record and the byte of the log file it starts at.
Placed == [at : Nat, offset : Nat, key : Field, value : Field]

IndexEntry == [offset : Nat, position : Nat]

Segment == [base : Nat, log : Seq(Placed), entries : Seq(IndexEntry),
            size : Nat, next : Nat]

FieldLen(b) == IF b = None THEN 0 ELSE BlobLen[b]

\* 4 (length) + 8 (offset) + 8 (timestamp) + 4 (key length) + 4 (value length).
Overhead == 28

RecordLen(k, v) == Overhead + FieldLen(k) + FieldLen(v)

\* The byte after a record.
End(r) == r.at + RecordLen(r.key, r.value)

FileLen(log) == IF log = <<>> THEN 0 ELSE End(log[Len(log)])

\* A file with no records in memory or on disk.
NewSegment(base) ==
  [base |-> base, log |-> <<>>, entries |-> <<>>, size |-> 0, next |-> base]

Active == segments[Len(segments)]

NextOffset == Active.next

\* What a client sees of a record.
View(r) == [offset |-> r.offset, key |-> r.key, value |-> r.value]

Stored == UNION {{View(segments[i].log[j]) : j \in DOMAIN segments[i].log} :
                   i \in DOMAIN segments}

-----------------------------------------------------------------------------
\* Segment::append and Segment::append_batch.

TooLarge(k, v) == RecordLen(k, v) > MaxSegmentBytes

SegmentFull(seg, k, v) ==
  seg.size + RecordLen(k, v) > MaxSegmentBytes /\ seg.size > 0

Position_bug(seg, staged) == seg.size

\* The local physical_position after the records of `staged' were encoded.
Position(seg, staged) ==
  IF staged = <<>> THEN seg.size ELSE End(staged[Len(staged)])

Stage_bug(seg, staged, k, v) ==
  [at |-> seg.size, offset |-> seg.next + Len(staged), key |-> k, value |-> v]

\* The next record of a write, as the code numbers and places it.
Stage(seg, staged, k, v) ==
  [at |-> Position(seg, staged), offset |-> seg.next + Len(staged),
   key |-> k, value |-> v]

\* The bytes go to the end of the file (append mode), wherever the segment
\* believes they go; the index entries say what the segment believes.
Written(seg, staged) ==
  [i \in DOMAIN staged |->
     [staged[i] EXCEPT !.at = FileLen(seg.log) + (@ - seg.size)]]

Indexed(staged) ==
  [i \in DOMAIN staged |->
     [offset |-> staged[i].offset, position |-> staged[i].at]]

Write(seg, staged) ==
  [seg EXCEPT !.log = @ \o Written(seg, staged),
              !.entries = @ \o Indexed(staged),
              !.size = Position(seg, staged),
              !.next = @ + Len(staged)]

-----------------------------------------------------------------------------
\* Index::lookup, Segment::read_at and Segment::read_batch.

InSegment(seg, o) == seg.base <= o /\ o < seg.next

\* The indices of the log's records that start where the index says o is.
Located(seg, o) ==
  {j \in DOMAIN seg.log :
     \E i \in DOMAIN seg.entries :
        seg.entries[i] = [offset |-> o, position |-> seg.log[j].at]}

\* read_at reads again when the record it finds has another offset, and returns
\* what it then finds unseen; with an exact index (IndexExact) that never happens.
ReadAt(seg, o) ==
  IF InSegment(seg, o)
  THEN {View(seg.log[j]) : j \in {i \in Located(seg, o) : seg.log[i].offset = o}}
  ELSE {}

StopAt_bug(log, j, budget) == Len(log) + 1

\* One past the last record read_batch takes from the records that start at j:
\* the first, then those that keep the total within budget.
StopAt(log, j, budget) ==
  CHOOSE k \in j + 1 .. Len(log) + 1 :
    /\ k <= Len(log) => End(log[k]) - log[j].at > budget
    /\ \A i \in j + 1 .. k - 1 : End(log[i]) - log[j].at <= budget

\* The buffer is as long as the budget, or as `buffer' if that is more: the only
\* record it can cut off is the first, and the loop then decodes nothing.
CutOff(r, budget) ==
  RecordLen(r.key, r.value) > budget /\ RecordLen(r.key, r.value) > buffer

\* The record is skipped.
Whole_bug(r) == <<>>

\* "Read exact first record if it exceeds buffer": seek back, read that record.
Whole(r) == <<r>>

SegmentReadBatch(seg, o, budget) ==
  IF InSegment(seg, o) /\ Located(seg, o) # {}
  THEN LET j == CHOOSE i \in Located(seg, o) : TRUE
       IN  IF CutOff(seg.log[j], budget) THEN Whole(seg.log[j])
           ELSE SubSeq(seg.log, j, StopAt(seg.log, j, budget) - 1)
  ELSE <<>>

SegmentFor_bug(o) == Len(segments)

\* binary_search_by_key on base_offset: the last segment that starts at or
\* below o, or 0 when there is none.
SegmentFor(o) ==
  IF o < segments[1].base THEN 0
  ELSE CHOOSE i \in DOMAIN segments :
         /\ segments[i].base <= o
         /\ i < Len(segments) => o < segments[i + 1].base

\* Partition::read on the current state: the records it can answer with.
Read(o) == IF SegmentFor(o) = 0 THEN {} ELSE ReadAt(segments[SegmentFor(o)], o)

-----------------------------------------------------------------------------
\* The state of a partition between two commands, and at the start.

\* `request' and `from' (the next offset when the batch arrived) are history.
NoBatch == [request |-> <<>>, from |-> 0, rest |-> <<>>, staged |-> <<>>,
            base |-> None]

NoFetch == [from |-> 0, max |-> 0, seg |-> 0, offset |-> 0, budget |-> 0,
            results |-> <<>>]

\* The records a fetch returns are fetch.results.
Reply(op, status, offset) == [op |-> op, status |-> status, offset |-> offset]

NoReply == Reply("none", "Ok", 0)

\* Partition::open_or_create in an empty directory.
Init ==
  /\ segments = <<NewSegment(0)>>
  /\ phase = "idle"
  /\ batch = NoBatch
  /\ fetch = NoFetch
  /\ reply = NoReply
  /\ acked = {}
  /\ buffer \in ReadBuffers

-----------------------------------------------------------------------------
\* Partition::append.

\* Replace the active segment.
SetActive(seg) == [segments EXCEPT ![Len(segments)] = seg]

Rotated_bug == Append(segments, NewSegment(NextOffset + 1))

\* Rotation: flush the active segment, create one at its next offset.
Rotated == Append(segments, NewSegment(NextOffset))

Ack(offset, k, v) ==
  /\ reply' = Reply("produce", "Ok", offset)
  /\ acked' = acked \cup {[offset |-> offset, key |-> k, value |-> v]}

Idle ==
  /\ phase = "idle" /\ phase' = "idle"
  /\ batch' = NoBatch /\ fetch' = NoFetch /\ buffer' = buffer

Produce(k, v) ==
  /\ Idle /\ NextOffset < MaxOffset
  /\ ~TooLarge(k, v) /\ ~SegmentFull(Active, k, v)
  /\ segments' = SetActive(Write(Active, <<Stage(Active, <<>>, k, v)>>))
  /\ Ack(NextOffset, k, v)

ProduceRotate(k, v) ==
  /\ Idle /\ NextOffset < MaxOffset
  /\ ~TooLarge(k, v) /\ SegmentFull(Active, k, v)
  /\ LET new == NewSegment(NextOffset)
     IN  segments' = Append(segments, Write(new, <<Stage(new, <<>>, k, v)>>))
  /\ Ack(NextOffset, k, v)

ProduceTooLarge(k, v) ==
  /\ Idle
  /\ TooLarge(k, v)
  /\ reply' = Reply("produce", "MessageTooLarge", 0)
  /\ UNCHANGED <<segments, acked>>

-----------------------------------------------------------------------------
\* Partition::append_batch.  batch.rest is the vector `payloads'; the records
\* of batch.staged are the ones the for loop of Segment::append_batch encoded.

BeginBatch(payloads) ==
  /\ phase = "idle"
  /\ NextOffset + Len(payloads) <= MaxOffset
  /\ phase' = "batch"
  /\ batch' = [NoBatch EXCEPT !.request = payloads, !.rest = payloads,
                              !.from = NextOffset]
  /\ fetch' = NoFetch
  /\ reply' = NoReply
  /\ UNCHANGED <<segments, acked, buffer>>

\* The for loop has a payload left, and it is this one.
HasPayload == phase = "batch" /\ Len(batch.staged) < Len(batch.rest)

Payload == batch.rest[Len(batch.staged) + 1]

Fits_bug == Active.size + RecordLen(None, Payload) <= MaxSegmentBytes

Fits == Position(Active, batch.staged) + RecordLen(None, Payload) <= MaxSegmentBytes

StagePayload ==
  /\ HasPayload
  /\ ~TooLarge(None, Payload) /\ Fits
  /\ batch' = [batch EXCEPT
       !.staged = Append(@, Stage(Active, @, None, Payload))]
  /\ UNCHANGED <<segments, phase, fetch, reply, acked, buffer>>

\* Return Err(MessageTooLarge): what is staged is dropped, what earlier
\* iterations wrote to earlier segments stays.
BatchTooLarge ==
  /\ HasPayload
  /\ TooLarge(None, Payload)
  /\ phase' = "idle"
  /\ batch' = [batch EXCEPT !.staged = <<>>]
  /\ reply' = Reply("batch", "MessageTooLarge", 0)
  /\ UNCHANGED <<segments, fetch, acked, buffer>>

SplitOff_bug(payloads, count) == SubSeq(payloads, count + 2, Len(payloads))

\* The payloads after the first `count'.
SplitOff(payloads, count) == SubSeq(payloads, count + 1, Len(payloads))

\* The for loop ended or broke: write the chunk, and rotate if payloads are left.
WriteChunk ==
  /\ phase = "batch" /\ batch.staged # <<>>
  /\ HasPayload => ~TooLarge(None, Payload) /\ ~Fits
  /\ LET seg == Write(Active, batch.staged)
         rest == SplitOff(batch.rest, Len(batch.staged))
     IN  /\ segments' = IF rest = <<>> THEN SetActive(seg)
                        ELSE Append(SetActive(seg), NewSegment(seg.next))
         /\ batch' = [batch EXCEPT !.rest = rest, !.staged = <<>>,
                        !.base = IF @ = None THEN NextOffset ELSE @]
  /\ UNCHANGED <<phase, fetch, reply, acked, buffer>>

\* Err(SegmentFull) before anything was staged.
BatchRotate ==
  /\ HasPayload /\ batch.staged = <<>>
  /\ ~TooLarge(None, Payload) /\ ~Fits
  /\ segments' = Rotated
  /\ UNCHANGED <<phase, batch, fetch, reply, acked, buffer>>

\* The client takes the reply to mean that payload j is at base + j - 1.
BatchDone ==
  /\ phase = "batch" /\ batch.rest = <<>>
  /\ LET base == IF batch.base = None THEN NextOffset ELSE batch.base
     IN  /\ reply' = Reply("batch", "Ok", base)
         /\ acked' = acked \cup
              {[offset |-> base + j - 1, key |-> None, value |-> batch.request[j]] :
                 j \in DOMAIN batch.request}
  /\ phase' = "idle"
  /\ UNCHANGED <<segments, batch, fetch, buffer>>

-----------------------------------------------------------------------------
\* Partition::read_batch.

BeginFetch(o, max) ==
  /\ phase = "idle"
  /\ phase' = "fetch"
  /\ fetch' = [from |-> o, max |-> max, seg |-> SegmentFor(o), offset |-> o,
               budget |-> max, results |-> <<>>]
  /\ batch' = NoBatch
  /\ reply' = NoReply
  /\ UNCHANGED <<segments, acked, buffer>>

Fetching == phase = "fetch" /\ fetch.seg \in DOMAIN segments /\ fetch.budget > 0

\* What Segment::read_batch returns to the loop.
Records == SegmentReadBatch(segments[fetch.seg], fetch.offset, fetch.budget)

Bytes(records) ==
  IF records = <<>> THEN 0 ELSE End(records[Len(records)]) - records[1].at

WithinBudget_bug == TRUE

\* Segment::read_batch exceeds the budget only with a single record.
WithinBudget == Bytes(Records) <= fetch.budget

Advanced_bug ==
  [fetch EXCEPT !.results = @ \o Records, !.budget = @ - Bytes(Records)]

\* The locals after the records were pushed: the loop goes on with the segment
\* after this one, from its first offset.
Advanced ==
  [fetch EXCEPT
     !.results = @ \o Records,
     !.budget = @ - Bytes(Records),
     !.seg = @ + 1,
     !.offset = IF fetch.seg < Len(segments) THEN segments[fetch.seg + 1].base
                ELSE IF Records = <<>> THEN @
                ELSE Records[Len(Records)].offset + 1]

FetchSegment ==
  /\ Fetching /\ WithinBudget
  /\ fetch' = Advanced
  /\ UNCHANGED <<segments, phase, batch, reply, acked, buffer>>

\* A record over the budget is returned if it is the only one.
FetchOversized ==
  /\ Fetching /\ ~WithinBudget
  /\ phase' = "idle"
  /\ fetch' = IF fetch.results = <<>> THEN [fetch EXCEPT !.results = Records] ELSE fetch
  /\ reply' = Reply("fetch", "Ok", 0)
  /\ UNCHANGED <<segments, batch, acked, buffer>>

FetchDone ==
  /\ phase = "fetch" /\ ~Fetching
  /\ phase' = "idle"
  /\ reply' = Reply("fetch", "Ok", 0)
  /\ UNCHANGED <<segments, batch, fetch, acked, buffer>>

-----------------------------------------------------------------------------
\* The process ends, wherever it is, and is started again: open_or_create.

LoadNext_bug(seg) == seg.base + Len(seg.entries) - 1

\* next_offset is one more than the last record's.
LoadNext(seg) == IF seg.log = <<>> THEN seg.base ELSE seg.log[Len(seg.log)].offset + 1

\* Segment::load, from the two files: count the records, and index them if the
\* index file has no entry.
LoadSegment(seg) ==
  [seg EXCEPT !.entries = IF @ = <<>> THEN Indexed(seg.log) ELSE @,
              !.size = FileLen(seg.log),
              !.next = LoadNext(seg)]

SortedByBase(list) ==
  \A i, j \in DOMAIN list : i < j => list[i].base <= list[j].base

\* read_dir lists the files in any order p; the loaded segments are then sorted.
Reopen ==
  /\ MaxSegmentBytes <= buffer
  /\ \E p \in [DOMAIN segments -> DOMAIN segments] :
       /\ \A i, j \in DOMAIN segments : p[i] = p[j] => i = j
       /\ segments' = [i \in DOMAIN segments |-> LoadSegment(segments[p[i]])]
       /\ SortedByBase(segments')
  /\ phase' = "idle" /\ batch' = NoBatch /\ fetch' = NoFetch /\ reply' = NoReply
  /\ UNCHANGED <<acked, buffer>>

-----------------------------------------------------------------------------
Next ==
  \/ \E m \in Messages : \/ Produce(m[1], m[2])
                        \/ ProduceRotate(m[1], m[2])
                        \/ ProduceTooLarge(m[1], m[2])
  \/ \E payloads \in Batches : BeginBatch(payloads)
  \/ StagePayload \/ BatchTooLarge \/ WriteChunk \/ BatchRotate \/ BatchDone
  \/ \E o \in 0 .. MaxOffset, max \in Budgets : BeginFetch(o, max)
  \/ FetchSegment \/ FetchOversized \/ FetchDone
  \/ Reopen

Spec == Init /\ [][Next]_vars

\* A loop that has begun keeps running: it contains no await.
LoopStep == \/ StagePayload \/ BatchTooLarge \/ WriteChunk \/ BatchRotate \/ BatchDone
            \/ FetchSegment \/ FetchOversized \/ FetchDone

FairSpec == Spec /\ WF_vars(LoopStep)

-----------------------------------------------------------------------------
\* Properties.

BatchLocals == [request : Seq(Blob), from : Nat, rest : Seq(Blob),
                staged : Seq(Placed), base : Nat \cup {None}]

FetchLocals == [from : Nat, max : Nat, seg : Nat, offset : Nat, budget : Nat,
                results : Seq(Placed)]

Replies == [op : {"none", "produce", "batch", "fetch"},
            status : {"Ok", "MessageTooLarge"}, offset : Nat]

\* Every variable has its type; in particular the budget of a fetch, a u32 in
\* the code, never goes below 0.
TypeOK ==
  /\ segments \in Seq(Segment) /\ segments # <<>>
  /\ phase \in {"idle", "batch", "fetch"}
  /\ batch \in BatchLocals
  /\ fetch \in FetchLocals
  /\ reply \in Replies
  /\ acked \subseteq [offset : Nat, key : Field, value : Field]
  /\ buffer \in ReadBuffers

\* Every record of a log file has exactly one index entry, which holds its
\* offset and the byte where it really starts (Segment::append writes the entry
\* from current_size, the operating system places the bytes).
SegmentIndexExact(seg) ==
  /\ Len(seg.entries) = Len(seg.log)
  /\ \A j \in DOMAIN seg.log :
       seg.entries[j] = [offset |-> seg.log[j].offset, position |-> seg.log[j].at]

IndexExact == \A i \in DOMAIN segments : SegmentIndexExact(segments[i])

\* A segment's offsets count up from its base without a hole.
SegmentDense(seg) ==
  /\ seg.next = seg.base + Len(seg.log)
  /\ \A j \in DOMAIN seg.log : seg.log[j].offset = seg.base + j - 1

\* Offsets are dense over the whole partition.  Since a segment is only left
\* when it holds a record, no two segments have the same base offset: rotation
\* never creates (and truncates the index of) a file that is already in use.
OffsetsDense ==
  /\ segments[1].base = 0
  /\ \A i \in DOMAIN segments : SegmentDense(segments[i])
  /\ \A i \in 1 .. Len(segments) - 1 :
       segments[i].log # <<>> /\ segments[i + 1].base = segments[i].next

\* The records of a log file lie end to end, current_size is the file's length,
\* and no file outgrows segment_max_bytes.
SegmentPacked(seg) ==
  /\ seg.size = FileLen(seg.log) /\ seg.size <= MaxSegmentBytes
  /\ seg.log # <<>> => seg.log[1].at = 0
  /\ \A j \in 1 .. Len(seg.log) - 1 : seg.log[j + 1].at = End(seg.log[j])

FilesPacked == \A i \in DOMAIN segments : SegmentPacked(segments[i])

\* Records staged for a segment continue its offsets and its bytes, and leave
\* the file within its limit.
StagedFor(seg, staged) ==
  /\ \A j \in DOMAIN staged : staged[j].offset = seg.next + j - 1
  /\ staged # <<>> => staged[1].at = seg.size
  /\ \A j \in 1 .. Len(staged) - 1 : staged[j + 1].at = End(staged[j])
  /\ Position(seg, staged) <= MaxSegmentBytes

\* What append_batch has staged are its next payloads, staged for the active
\* segment; outside of its loop nothing is staged.
StagedConsistent ==
  IF phase = "batch"
  THEN /\ StagedFor(Active, batch.staged)
       /\ Len(batch.staged) <= Len(batch.rest)
       /\ \A j \in DOMAIN batch.staged :
            batch.staged[j].key = None /\ batch.staged[j].value = batch.rest[j]
  ELSE batch.staged = <<>>

\* The inductive invariant behind the theorems of PartitionProofs.
IInv == TypeOK /\ IndexExact /\ OffsetsDense /\ FilesPacked /\ StagedConsistent

\* Whatever a produce or a batch acknowledged can be read back at its offset,
\* as it was sent, at every later moment and across rotations.
AckedReadable == \A r \in acked : Read(r.offset) = {r}

\* A batch in progress, or one that just ended, has stored a prefix of its
\* payloads, in order, from the offset where it began; it is all of them when
\* the reply is Ok, and stops short of the payload too large to be stored when
\* it is MessageTooLarge.
BatchPrefix ==
  phase = "batch" \/ reply.op = "batch" =>
    LET done == NextOffset - batch.from IN
    /\ done \in 0 .. Len(batch.request)
    /\ batch.rest = SubSeq(batch.request, done + 1, Len(batch.request))
    /\ \A j \in 1 .. done :
         [offset |-> batch.from + j - 1, key |-> None, value |-> batch.request[j]]
           \in Stored
    /\ reply.op = "batch" =>
         CASE reply.status = "Ok" -> done = Len(batch.request) /\ reply.offset = batch.from
           [] OTHER -> \E j \in done + 1 .. Len(batch.request) :
                          TooLarge(None, batch.request[j])

\* The first offset of every segment.
Bases == {segments[i].base : i \in DOMAIN segments}

\* Of two neighbours in rs the second has the next offset, or it is in `bases'.
HolesOnlyAt(rs, bases) ==
  \A i \in 1 .. Len(rs) - 1 :
    rs[i + 1].offset = rs[i].offset + 1 \/ rs[i + 1].offset \in bases

\* A fetch returns stored records in ascending order of offset, without a hole
\* but where it changed over to another segment.  If max_bytes is not 0 it begins
\* with the record asked for whenever that is stored, however long it is.
FetchFaithful ==
  reply.op = "fetch" =>
    LET rs == fetch.results IN
    /\ \A i \in DOMAIN rs : View(rs[i]) \in Stored
    /\ \A i \in 1 .. Len(rs) - 1 : rs[i].offset < rs[i + 1].offset
    /\ HolesOnlyAt(rs, Bases)
    /\ \A r \in Stored :
         r.offset = fetch.from /\ fetch.max > 0 =>
           rs # <<>> /\ View(rs[1]) = r

\* While a batch is in progress nothing was answered yet, and base_offset is
\* where the batch began as soon as a chunk of it is written.
BatchBase ==
  phase = "batch" =>
    /\ reply.op = "none"
    /\ batch.base = IF NextOffset = batch.from THEN None ELSE batch.from

\* While a fetch is in progress, what it has is stored, has holes only between
\* segments and lies before the offset it goes on from, and it has the record asked for or is about to read
\* it with its whole budget.
FetchProgress ==
  phase = "fetch" =>
    LET rs == fetch.results IN
    /\ reply.op = "none"
    /\ \A i \in DOMAIN rs : View(rs[i]) \in Stored
    /\ \A i \in 1 .. Len(rs) - 1 : rs[i].offset < rs[i + 1].offset
    /\ HolesOnlyAt(rs, Bases)
    /\ fetch.seg \in DOMAIN segments /\ rs # <<>> =>
         /\ fetch.offset = segments[fetch.seg].base
         /\ rs[Len(rs)].offset < fetch.offset
    /\ \A r \in Stored :
         r.offset = fetch.from /\ fetch.max > 0 =>
           \/ rs # <<>> /\ View(rs[1]) = r
           \/ /\ rs = <<>> /\ fetch.offset = fetch.from /\ fetch.budget = fetch.max
              /\ fetch.seg \in DOMAIN segments
              /\ InSegment(segments[fetch.seg], fetch.from)

\* The encoded length of the first n records, for every n.
RunningLen(records) ==
  LET sum[n \in 0 .. Len(records)] ==
        IF n = 0 THEN 0
        ELSE sum[n - 1] + RecordLen(records[n].key, records[n].value)
  IN  sum

TotalLen(records) == RunningLen(records)[Len(records)]

\* A fetch returns more than max_bytes only as a single record.
FetchWithinBudget ==
  reply.op = "fetch" /\ Len(fetch.results) # 1 => TotalLen(fetch.results) <= fetch.max

\* While a fetch is in progress, bytes_budget is what its records, measured by
\* their own lengths and not by where they lie, leave of max_bytes.
FetchSpent == phase = "fetch" => TotalLen(fetch.results) + fetch.budget = fetch.max

\* The invariant behind the theorems about what clients see, inductive given
\* IInv.
ClientInv ==
  /\ acked \subseteq Stored /\ BatchPrefix /\ BatchBase
  /\ FetchFaithful /\ FetchProgress /\ FetchWithinBudget /\ FetchSpent

\* A loop that started returns: neither rotation nor the walk over the segments
\* goes on for ever.
LoopsFinish == phase # "idle" ~> phase = "idle"

\* The partition is the log of module OffsetLog.
Log == INSTANCE OffsetLog WITH stored <- Stored, next <- NextOffset

IsOffsetLog == Log!Spec

\* What the comment at partition.rs:221 takes for granted ("If we consumed all
\* records from this segment"): when the walk leaves a segment for the next one
\* it has taken that segment's last record, so a fetch has no hole.
FetchContiguous ==
  \A i \in 1 .. Len(fetch.results) - 1 :
    fetch.results[i + 1].offset = fetch.results[i].offset + 1
=============================================================================
