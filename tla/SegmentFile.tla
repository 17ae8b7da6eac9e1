----------------------------- MODULE SegmentFile -----------------------------
(***************************************************************************)
(* The two files of one segment (src/src/storage/segment.rs, index.rs) under*)
(* crashes.  An append is several system calls: write the records to the    *)
(* log, sync it, write the index entries one by one, sync the index, update *)
(* the memory.  The process may be killed, or the machine may lose power,   *)
(* between any two of them, and Segment::load has to make sense of what is  *)
(* left; it may be interrupted as well.                                     *)
(*                                                                          *)
(* All records have the same length here, so a file is a sequence of cells, *)
(* a position is a number of cells, and a write at a file position replaces *)
(* whole cells.  logTorn and indexTorn say that a partial cell follows.     *)
(*                                                                          *)
(* A kill leaves what was written in the page cache.  A power loss keeps at *)
(* least what was synced, and of the rest a prefix.  (The file system is    *)
(* external: no garbage, no zero-filled tails, file creation and truncation *)
(* are durable at once.)  Definitions ending in _bug are wrong variants of  *)
(* the definition that follows; the model does not use them.                *)
(***************************************************************************)
EXTENDS Integers, Sequences, Functions

CONSTANTS
  Value,        \* payloads
  Zeros,        \* a cell that was never written: it reads as zeros
  SyncLevel,    \* Config::sync_level: "None", "Log" or "LogAndIndex"
  BaseOffset,   \* Segment::base_offset
  ReadCells,    \* records covered by the buffer of one read (1 MiB or max_bytes)
  Writes,       \* the payload vectors that are appended
  Faults,       \* which of "kill", "power" and "io" may happen together
  MaxRecords,   \* bound: cells of the log file
  MaxFaults     \* bound: number of faults

ASSUME SegmentAssumption ==
  /\ SyncLevel \in {"None", "Log", "LogAndIndex"}
  /\ BaseOffset \in Nat /\ MaxRecords \in Nat /\ MaxFaults \in Nat
  /\ ReadCells \in Nat \ {0}
  /\ Writes \subseteq Seq(Value) \ {<<>>}
  /\ Zeros \notin [offset : Nat, value : Value]
  /\ Faults \subseteq SUBSET {"kill", "power", "io"}

VARIABLES
  log, logTorn, logDur,         \* the log file, and what of it is on the platter
  index, indexTorn, indexDur,   \* the index file, likewise
  pc,          \* "idle", "written", "synced" (append), "down", "loading" (load)
  entries,     \* Index::entries
  size, next,  \* Segment::current_size (in cells) and next_offset
  cursor,      \* the file position of log_file
  appendMode,  \* log_file was opened with append(true)
  pending,     \* the records of the append in progress
  queue,       \* index entries the append or the load still has to write
  acked,       \* history: the records whose append returned Ok
  mix,         \* the kinds of fault in this behaviour, a member of Faults
  faults       \* faults so far

files == <<log, logTorn, logDur, index, indexTorn, indexDur>>
memory == <<pc, entries, size, next, cursor, appendMode, pending, queue>>
vars == <<files, memory, acked, mix, faults>>

Record == [offset : Nat, value : Value]
Entry == [offset : Nat, position : Nat]

\* The last item of a sequence, and whether one sequence begins another.
Last(s) == s[Len(s)]

IsPrefix(s, t) == Len(s) <= Len(t) /\ \A i \in 1 .. Len(s) : s[i] = t[i]

-----------------------------------------------------------------------------
\* Segment::create on a directory without the segment.
Init ==
  /\ log = <<>> /\ logTorn = FALSE /\ logDur = <<>>
  /\ index = <<>> /\ indexTorn = FALSE /\ indexDur = <<>>
  /\ pc = "idle" /\ entries = <<>> /\ size = 0 /\ next = BaseOffset
  /\ cursor = 0 /\ appendMode = TRUE /\ pending = <<>> /\ queue = <<>>
  /\ acked = {} /\ mix \in Faults /\ faults = 0

\* The file after recs were written at cell `at', which may be past its end.
Overlay(file, at, recs) ==
  [i \in 1 .. IF at + Len(recs) > Len(file) THEN at + Len(recs) ELSE Len(file) |->
     IF i > at /\ i <= at + Len(recs) THEN recs[i - at]
     ELSE IF i <= Len(file) THEN file[i] ELSE Zeros]

WritePosition == IF appendMode THEN Len(log) ELSE cursor

Numbered(values) == [j \in DOMAIN values |-> [offset |-> next + j - 1, value |-> values[j]]]

EntriesOf_bug(recs, position) ==
  [j \in DOMAIN recs |-> [offset |-> recs[j].offset, position |-> position + j - 2]]

\* The index entries of records that start at `position'.
EntriesOf(recs, position) ==
  [j \in DOMAIN recs |-> [offset |-> recs[j].offset, position |-> position + j - 1]]

\* write_all to the log.
WriteLog(values) ==
  /\ pc = "idle" /\ Len(log) + Len(values) <= MaxRecords
  /\ pending' = Numbered(values)
  /\ queue' = EntriesOf(pending', size)
  /\ log' = Overlay(log, WritePosition, pending')
  /\ cursor' = WritePosition + Len(values)
  /\ pc' = "written"
  /\ UNCHANGED <<logTorn, logDur, index, indexTorn, indexDur, entries, size, next,
                 appendMode, acked, mix, faults>>

SyncsLog_bug == SyncLevel = "Log"

SyncsLog == SyncLevel \in {"Log", "LogAndIndex"}

\* sync_data on the log, unless sync_level is None.
SyncLog ==
  /\ pc = "written"
  /\ logDur' = IF SyncsLog THEN log ELSE logDur
  /\ pc' = "synced"
  /\ UNCHANGED <<log, logTorn, index, indexTorn, indexDur, entries, size, next,
                 cursor, appendMode, pending, queue, acked, mix, faults>>

\* Index::append: one entry, to the file and to memory.
IndexAppend ==
  /\ queue # <<>>
  /\ index' = Append(index, Head(queue))
  /\ entries' = Append(entries, Head(queue))
  /\ queue' = Tail(queue)
  /\ UNCHANGED <<log, logTorn, logDur, indexTorn, indexDur, pc, size, next, cursor,
                 appendMode, pending, acked, mix, faults>>

WriteIndex == pc = "synced" /\ IndexAppend

SizeAfter_bug(recs) == size + 1

SizeAfter(recs) == size + Len(recs)

\* Sync the index if sync_level says so, count the records, return Ok.
Commit ==
  /\ pc = "synced" /\ queue = <<>>
  /\ indexDur' = IF SyncLevel = "LogAndIndex" THEN index ELSE indexDur
  /\ size' = SizeAfter(pending)
  /\ next' = next + Len(pending)
  /\ acked' = acked \cup Range(pending)
  /\ pending' = <<>>
  /\ pc' = "idle"
  /\ UNCHANGED <<log, logTorn, logDur, index, indexTorn, entries, cursor, appendMode,
                 queue, mix, faults>>

\* An error from a sync or from the index after the records were written: append
\* returns it, and leaves size and next as they were.
IoError ==
  /\ "io" \in mix /\ faults < MaxFaults
  /\ \/ pc = "written" /\ SyncsLog
     \/ pc = "synced" /\ (queue # <<>> \/ SyncLevel = "LogAndIndex")
  /\ pc' = "idle" /\ pending' = <<>> /\ queue' = <<>>
  /\ faults' = faults + 1
  /\ UNCHANGED <<files, entries, size, next, cursor, appendMode, acked, mix>>

\* Index::lookup.  Binary search may return any of several entries for an offset.
Positions(o) == {e.position : e \in {x \in Range(entries) : x.offset = o}}

\* A read leaves the file position where its buffer ended.
ReadAdvances(p) == IF p + ReadCells < Len(log) THEN p + ReadCells ELSE Len(log)

\* Segment::read_batch: seek to the record, fill the buffer.  (For a record longer
\* than the buffer it seeks back and ends after that record, as with ReadCells = 1.)
Read(o) ==
  /\ pc = "idle" /\ BaseOffset <= o /\ o < next
  /\ \E p \in Positions(o) : cursor' = IF p < Len(log) THEN ReadAdvances(p) ELSE p
  /\ UNCHANGED <<files, pc, entries, size, next, appendMode, pending, queue, acked, mix, faults>>

-----------------------------------------------------------------------------
\* Crashes.

\* The process is gone; its memory with it.
Down ==
  /\ pc' = "down" /\ entries' = <<>> /\ size' = 0 /\ next' = BaseOffset /\ cursor' = 0
  /\ appendMode' = FALSE /\ pending' = <<>> /\ queue' = <<>>
  /\ faults' = faults + 1
  /\ UNCHANGED <<acked, mix>>

Kill ==
  /\ "kill" \in mix /\ faults < MaxFaults
  /\ pc # "down"
  /\ Down
  /\ UNCHANGED files

\* Killed inside write_all at the end of the file: some whole records got there,
\* and perhaps a part of the next.
KillInWrite(values) ==
  /\ "kill" \in mix /\ faults < MaxFaults
  /\ pc = "idle" /\ Len(log) + Len(values) <= MaxRecords /\ WritePosition = Len(log)
  /\ \E k \in 0 .. Len(values) - 1 : log' = log \o SubSeq(Numbered(values), 1, k)
  /\ logTorn' \in BOOLEAN
  /\ Down
  /\ UNCHANGED <<logDur, index, indexTorn, indexDur>>

\* What a power loss may leave of a file with contents cur, of which dur is synced.
Survivors(cur, dur) ==
  {cur, dur} \cup (IF IsPrefix(dur, cur)
                   THEN {SubSeq(cur, 1, k) : k \in Len(dur) .. Len(cur)} ELSE {})

PowerLoss ==
  /\ "power" \in mix /\ faults < MaxFaults
  /\ log' \in Survivors(log, logDur) /\ logDur' = log'
  /\ index' \in Survivors(index, indexDur) /\ indexDur' = index'
  /\ logTorn' \in {FALSE, logTorn \/ Len(log') < Len(log)}
  /\ indexTorn' \in {FALSE, indexTorn \/ Len(index') < Len(index)}
  /\ Down

-----------------------------------------------------------------------------
\* Segment::load.

Decoded_bug == SubSeq(log, 1, Len(entries))

\* The records up to the first cell that does not decode.
Decoded ==
  SubSeq(log, 1, CHOOSE k \in 0 .. Len(log) :
                   /\ k < Len(log) => log[k + 1] = Zeros
                   /\ \A i \in 1 .. k : log[i] # Zeros)

\* Index::load refuses a file whose length is no multiple of an entry's, and
\* Index::create then truncates it.
UsableIndex == IF indexTorn THEN <<>> ELSE index

\* The index is rebuilt only if there is no usable entry at all.
NeedsRebuild == UsableIndex = <<>> /\ (log # <<>> \/ logTorn)

\* Open both files.
Load ==
  /\ pc = "down"
  /\ index' = UsableIndex /\ entries' = UsableIndex
  /\ indexDur' = IF indexTorn THEN <<>> ELSE indexDur
  /\ indexTorn' = FALSE
  /\ queue' = IF NeedsRebuild THEN EntriesOf(Decoded, 0) ELSE <<>>
  /\ pc' = "loading"
  /\ UNCHANGED <<log, logTorn, logDur, size, next, cursor, appendMode, pending, acked,
                 mix, faults>>

RebuildEntry == pc = "loading" /\ IndexAppend

NextAfter_bug(recs) == IF recs = <<>> THEN BaseOffset ELSE Last(recs).offset

\* next_offset is one more than the last decoded record's.
NextAfter(recs) == IF recs = <<>> THEN BaseOffset ELSE Last(recs).offset + 1

FinishLoad_bug ==
  /\ pc = "loading" /\ queue = <<>> /\ ~logTorn
  /\ log' = Decoded /\ logTorn' = FALSE /\ size' = Len(log') /\ next' = NextAfter(log')
  /\ cursor' = Len(log') /\ appendMode' = FALSE /\ pc' = "idle"
  /\ UNCHANGED <<logDur, index, indexTorn, indexDur, entries, pending, queue, acked,
                 mix, faults>>

\* Truncate what does not decode, seek to the end, return the segment.
FinishLoad ==
  /\ pc = "loading" /\ queue = <<>>
  /\ log' = Decoded
  /\ logTorn' = FALSE
  /\ size' = Len(log')
  /\ next' = NextAfter(log')
  /\ cursor' = Len(log')
  /\ appendMode' = FALSE
  /\ pc' = "idle"
  /\ UNCHANGED <<logDur, index, indexTorn, indexDur, entries, pending, queue, acked,
                 mix, faults>>

-----------------------------------------------------------------------------
Next ==
  \/ \E values \in Writes : WriteLog(values) \/ KillInWrite(values)
  \/ SyncLog \/ WriteIndex \/ Commit \/ IoError
  \/ \E o \in BaseOffset .. BaseOffset + MaxRecords : Read(o)
  \/ Kill \/ PowerLoss
  \/ Load \/ RebuildEntry \/ FinishLoad

Spec == Init /\ [][Next]_vars

\* A restarted broker runs Segment::load to its end unless it crashes again.
FairSpec == Spec /\ WF_vars(Load) /\ WF_vars(RebuildEntry) /\ WF_vars(FinishLoad)

-----------------------------------------------------------------------------
\* Properties.

TypeOK ==
  /\ log \in Seq(Record \cup {Zeros}) /\ logDur \in Seq(Record \cup {Zeros})
  /\ pending \in Seq(Record)
  /\ index \in Seq(Entry) /\ indexDur \in Seq(Entry)
  /\ entries \in Seq(Entry) /\ queue \in Seq(Entry)
  /\ logTorn \in BOOLEAN /\ indexTorn \in BOOLEAN /\ appendMode \in BOOLEAN
  /\ pc \in {"idle", "written", "synced", "down", "loading"}
  /\ size \in Nat /\ next \in Nat /\ cursor \in Nat /\ mix \in Faults /\ faults \in 0 .. MaxFaults
  /\ acked \subseteq Record

\* A record whose append returned Ok is in the log file for good: no crash loses
\* it and no later write or recovery replaces it.
AckedDurable == acked \subseteq Range(log)

\* No two acknowledged records have the same offset, crashes notwithstanding:
\* recovery never hands out an offset again that a client was given.
OffsetsNotReused == \A r, s \in acked : r.offset = s.offset => r = s

\* A step that takes no acknowledgement back, acknowledges nothing below what was
\* acknowledged before, and moves no acknowledged record.
KeepsAcked ==
  /\ acked \subseteq acked'
  /\ \A r \in acked' \ acked, s \in acked : s.offset < r.offset
  /\ \A i \in DOMAIN log : log[i] \in acked => i \in DOMAIN log' /\ log'[i] = log[i]

\* Appends are acknowledged in the order of their offsets, across crashes and
\* recoveries, and an acknowledged record stays at the position in the log file
\* that the index has for it.
AckedStayPut == [][KeepsAcked]_vars

\* The index file never leads astray: its entries are in strictly ascending
\* order, as the binary search needs, and each one points at the record in the
\* log with its offset, even right after a crash.
IndexSound ==
  /\ \A i \in DOMAIN index :
       /\ index[i].position < Len(log)
       /\ log[index[i].position + 1] \in [offset : {index[i].offset}, value : Value]
  /\ \A i \in 1 .. Len(index) - 1 : index[i].offset < index[i + 1].offset

\* Reading the offset of an acknowledged record returns that record.
AckedReadable ==
  pc = "idle" =>
    \A r \in acked :
      /\ Positions(r.offset) # {}
      /\ \A p \in Positions(r.offset) : p < Len(log) /\ log[p + 1] = r

\* Whatever kills and power losses leave of the two files, a read of an
\* acknowledged offset never returns another record: an index entry that is left
\* over or lost can hide the record but not stand for a different one.  (After
\* an append that failed half-way it can; see segment_io_error.)
NoForeignReads ==
  pc = "idle" /\ "io" \notin mix =>
    \A r \in acked : \A p \in Positions(r.offset) : p < Len(log) => log[p + 1] = r

\* The in-memory size is the length of the log file, so that the position a new
\* record is indexed at is where it will be written.
SizeIsFileLength == pc = "idle" => size = Len(log) /\ WritePosition = Len(log)

\* An append is under way, and the segment is open.
Appending == pc \in {"written", "synced"}

Open == pc = "idle" \/ Appending

\* Every cell of the log is a record, and the next write goes to its end, where
\* the records of an append under way already are.
FileInv ==
  /\ Len(log) <= MaxRecords /\ Range(log) \subseteq Record
  /\ Open => (appendMode \/ cursor = Len(log)) /\ size + Len(pending) <= Len(log)
  /\ IF Appending
     THEN /\ pending # <<>>
          /\ \A j \in DOMAIN pending :
               /\ pending[j].offset = next + j - 1
               /\ pending[j] = log[Len(log) - Len(pending) + j]
     ELSE pending = <<>>
  /\ pc \in {"idle", "down"} => queue = <<>>

\* Acknowledged records are in the log, under offsets of their own, and neither
\* the next append nor the one after a recovery uses one of these again.
AckInv ==
  /\ AckedDurable /\ OffsetsNotReused
  /\ \A r \in acked : r.offset <= Last(log).offset /\ (Open => r.offset < next)

Aligned(es) == \A i \in DOMAIN es : es[i].offset = BaseOffset + es[i].position

\* Without a failed append offsets are positions, in the log and in every entry.
DenseInv ==
  /\ \A i \in DOMAIN log : log[i].offset = BaseOffset + i - 1
  /\ Aligned(index) /\ Aligned(indexDur) /\ Aligned(entries) /\ Aligned(queue)
  /\ Open => size + Len(pending) = Len(log) /\ next = BaseOffset + size

\* What a power loss may take is no acknowledged record.
SyncInv ==
  /\ IsPrefix(logDur, log) /\ acked \subseteq Range(logDur)
  /\ pc = "synced" => logDur = log

Inside(es) == \A i \in DOMAIN es : es[i].position < Len(log)

\* Without a power loss no entry points past the log.
InsideInv == Inside(index) /\ Inside(entries) /\ Inside(queue)

\* When processes are only killed, the index is in order, what is still to be
\* indexed is the end of the log, and acknowledged records are indexed.
IndexedInv ==
  /\ ~indexTorn /\ (pc # "down" => entries = index)
  /\ \A i \in 1 .. Len(index) - 1 : index[i].position < index[i + 1].position
  /\ Len(queue) <= Len(log)
  /\ \A i \in DOMAIN index : index[i].position < Len(log) - Len(queue)
  /\ \A j \in DOMAIN queue : queue[j].position = Len(log) - Len(queue) + j - 1
  /\ \A r \in acked : \E i \in DOMAIN index : index[i].offset = r.offset
  /\ Appending =>
       \A p \in size .. Len(log) - Len(queue) - 1 :
         \E i \in DOMAIN index : index[i].position = p

\* The inductive invariant behind the theorems of SegmentProofs.
SegmentInv ==
  /\ TypeOK /\ FileInv /\ AckInv
  /\ "io" \notin mix => DenseInv
  /\ IF "power" \in mix THEN SyncInv ELSE InsideInv
  /\ mix \subseteq {"kill"} => IndexedInv

\* The circumstances in which nothing is lost: one read covers a whole segment,
\* and where the power may fail the log is synced and no write fails half-way.
Tolerated ==
  /\ MaxRecords <= ReadCells
  /\ \A m \in Faults : "power" \in m => SyncsLog /\ "io" \notin m

\* A segment that is down comes up again once the crashes stop.
Recovers == pc = "down" ~> pc = "idle"
=============================================================================
