# A TLA+ model of Ruka

Ruka (`src/`) is a single-node message broker. Clients append messages to
partitions of topics and fetch them by offset. This directory holds TLA+ modules
of its storage engine, of the broker in front of it and of its wire protocol,
configurations that check them with TLC, and proofs that TLAPS checks.

## The system

| Part | Source | Module |
| --- | --- | --- |
| A partition: a list of segments, appends, batches, rotation, fetches, reopening | `storage/partition.rs`, `segment.rs`, `index.rs` | `Partition` |
| What a partition promises: an append-only log with dense offsets | | `OffsetLog` |
| The log file and index file of one segment under crashes, power loss and I/O errors | `storage/segment.rs`, `index.rs` | `SegmentFile` |
| Accept loop, connections, handlers, topic registry, partition actors | `network/`, `broker/`, `storage/topic.rs` | `Broker` |
| What the broker promises: one atomic log per partition | | `LogService` |
| Bytes of frames, requests, responses and records | `protocol/`, `storage/segment.rs` | `Codec` |
| One connection: a pipelining client, the byte stream, the connection's task | `network/connection.rs`, `protocol/codec.rs`, `examples/throughput_bench.rs` | `Wire` |
| What a connection promises: requests served once and in order | | `Session` |
| Configuration, errors, `main`, `zero_copy` | `config.rs`, `error.rs`, `main.rs`, `network/zero_copy.rs` | not modelled |

A client's frame is decoded by the connection's task, which calls a handler. The
handler gets the sender of the partition's channel from the registry (creating
partition, channel and actor on the first write), sends a command with a oneshot
channel, and waits for the reply. The actor owns the `Partition` and carries out
one command at a time, so nothing inside a partition is concurrent. What is
concurrent is the registry, the channels, the two ends of a connection and,
between any two system calls, the end of the process.

## The modules

**`Partition`.** The variables are `segments` (base offset, log, index entries,
`current_size`, `next_offset`) and the locals of the loop that is running.
`Produce`, `ProduceRotate` and `ProduceTooLarge` are the outcomes of
`Partition::append`; `BeginBatch`, `StagePayload`, `WriteChunk`, `BatchRotate`,
`BatchTooLarge` and `BatchDone` the steps of `append_batch`; `BeginFetch`,
`FetchSegment`, `FetchOversized` and `FetchDone` those of `read_batch`. `Reopen`
is a clean restart, possibly in the middle of a loop: the segment files are listed
in any order, sorted, loaded. It has a guard that the code has not: one read must
cover a segment (`MaxSegmentBytes <= buffer`). A loaded segment writes where its
last read ended, which is the end of the file only then. The defaults, segments of
10 MiB and reads of 1 MiB, are outside of it, so whatever is shown of a partition
after a restart is shown for small segments or large reads; `segment_cursor` is
about the others. Without a restart there is no such limit. Lengths and positions
are real byte counts, and the read buffer has its own limit (`ReadBuffers`, 1 MiB
in the code): a first record that is longer than the buffer and the budget is cut
off (`CutOff`) and then read on its own (`Whole`). Contents are names with a
length. Where the bytes of a write go is decided by the file (its
end), where the index says they are by `current_size`, so that the two can
disagree. File operations succeed here; `SegmentFile` has the failures.

**`OffsetLog`.** A set of records and the next offset; a step adds records at the
next offsets. `Partition` implements it (`IsOffsetLog`) with all records of all
segments as the set and the active segment's `next_offset` as the next offset.

**`SegmentFile`.** One segment with a step per system call: `WriteLog`, `SyncLog`,
`WriteIndex` (per entry), `Commit`, and for `Segment::load` `Load`,
`RebuildEntry` (per entry), `FinishLoad`. `Kill`, `KillInWrite`, `PowerLoss` and
`IoError` may come between any two of them. All records have one length, so
a file is a sequence of cells. For each file the model keeps what the page cache
holds and what is on disk; a power loss keeps the latter and a prefix of the
rest. `cursor` and `appendMode` model the file position: a segment from
`Segment::create` appends, one from `Segment::load` writes where the last read or
write ended. `ReadCells` is the number of records that fit in a read buffer.

**`Broker`.** One step per stretch between two awaits. `Take` to `Respond` are the
stations of a request in its connection's task: read lock, write lock, opening,
sending (or blocked on a full channel), waiting for the reply, replying. `Handle`
is one turn of the actor's loop; `Panic` ends an actor in a read, which drops its
receiver. tokio's lock and channel are external and modelled as first come, first
served. A partition is the sequence of its records. A failing append may have
stored a prefix of a batch, as `Partition` shows. A fetch result is reduced to its
first record; a fetch for 0 bytes finds nothing, whatever is stored. I/O errors
occur here only in `open_or_create`: an append that returns one after its bytes
were written (`IoError` of `SegmentFile`) is left out. Different pairs of topic and
partition stand for different directories. The code joins the topic to the data
directory as it is, so two spellings of one path are two keys of the registry, and
`OneActorPerPartition` says nothing of them.

**`LogService`.** The log of each partition, a call per connection (idle, pending
or done) and the responses sent. `Write`, `Read` and `Fail` give pending calls
their result in one step: a write that is answered with an offset has appended all
its records there, one that is answered with `MessageTooLarge` a proper prefix, a
fetch is told what the log holds in that state (`PartitionNotFound` only while it
is empty; for 0 bytes always `OffsetNotFound`), and the other errors mean that
nothing was written. The last holds within the scope of `Broker`: an append that
fails with an I/O error is answered with `StorageError` too, and its records may
be in the file. `Broker` implements
it (`ServesAtomically`): a connection's `pc` says which of the three its call is in
(`CallOf`), and the logs are `store`.

**`Codec`.** `Frame::encode` and `Frame::decode`, `into_frame` and `from_frame` of
each request, `into_frame` of each response, `Record::encode` and
`Record::decode`, as functions between values and sequences of bytes. `Incomplete`,
`Refused` and `FrameOf` are the three outcomes of `Frame::decode`. The memory that
`from_frame` sets aside for the count of a batch is not modelled. UTF-8 is its
ASCII subset, and numbers stay below 2^31, so the upper half of a u64 is zero.

**`Wire`.** Both ends of a connection run the same codec over a stream that holds a
bounded number of bytes and moves them in arbitrary pieces. A direction is the
bytes encoded so far and three positions: written, arrived, consumed. The client
sends a script of requests with at most `MaxInFlight` unanswered (with 1 it is
the send-and-wait client of the other examples) and may be killed anywhere. The
connection's task takes a frame, parses it, answers, flushes the answer, and
only then reads on. What a handler answers is any of `ResponsesTo`; `Broker` and
`Partition` say which.

**`Session`.** Three sequences of correlation ids: asked, served, answered. `Wire`
implements it (`IsSession`) with the ids of the frames sent and received.

In all modules a definition ending in `_bug` is a wrong variant of the definition
after it. It is not part of the model; it serves to confirm that a property can
fail.

## The runs

Passing runs:

| Run | What it shows | Bounds | States |
| --- | --- | --- | --- |
| `partition_core` | index exact, offsets dense, files packed and bounded, acknowledged records readable, batches store prefixes, fetches begin with the record asked for, have holes only between segments and stay within budget, loops end, `OffsetLog` implemented, the invariants of the proofs | 100-byte segments, payloads of 2, 22 and 73 bytes (one does not fit, some fill a segment exactly), read buffers of 40 bytes (shorter than a record) and 100 (a segment, so with restarts), 4 records | 173,000 |
| `segment_kill` | after kills, even in a load and with no sync at all: acknowledged records readable, index sound, size right, the segment recovers | 4 records, batches of up to 2, 3 kills | 8,600 |
| `segment_faults` | with `LogAndIndex`, kills mixed with power losses or with failing appends: acknowledged records stay where they are, acknowledgements come in the order of the offsets, which are not given out again; with kills and power losses only, a read never returns another record; the invariant of the proofs | 4 records, 4 faults | 147,000 |
| `broker_core` | one actor per partition, channels bounded and consistent with the tasks, acknowledged offsets exact, real-time order, `LogService` implemented, every request answered, the invariant of the proofs | 2 connections with 2 and 1 requests, 2 partitions of which one exists, fetches for 0 and 1 bytes, a channel of 1 slot, 1 panic | 139,000 |
| `wire_core` | frames, requests and replies arrive as they were sent, `Session` implemented, failures only for cause, client and task end, the invariants of the proofs | 4 scripts of up to 3 requests, 2 in flight, sockets of 12 and 40 bytes, pieces of 1 and 11 bytes, frames of up to 79 bytes | 166,000 |

Four records are enough for three segments, a batch across two of them, and a
fetch across all; four cells and three faults for a crash during the recovery
from a crash, with records before and after. Two connections are enough for both
to miss a partition and race to create it; with one slot the second sender blocks.
A request socket of 12 bytes holds no whole frame, so every frame is cut, and
pieces of 11 bytes let two frames meet in one buffer. The scripts have a batch with
an empty message, a frame one byte over the limit, an empty topic, and a fetch
frame that carries only an offset; a fetch finds records that fill a frame to its
limit, or too many. `Completes` needs the reply socket to hold all but one of the
replies in flight; that is the condition under which the pipelining client cannot
deadlock with the broker.

Runs that end in a violation, each of a statement found in the repository:

| Run | Statement | What happens |
| --- | --- | --- |
| `partition_fetch_gap` | partition.rs:221, the next segment is tried "if we consumed all records from this segment" | a fetch whose budget ends inside a segment goes on with the next one, and the result has a gap |
| `segment_rebuild_crash` | recovery_tests.rs:180, records "must be readable after corrupt-index recovery" | a crash during the rebuild leaves a partial index that later loads accept |
| `segment_cursor` | partition.rs:15, "append-only" | after a reload, an append that follows a read of an earlier part overwrites records |
| `segment_io_error` | index.rs:29, the position is "where this record starts" | the record after a failed append is indexed at the orphan's position |
| `broker_shutdown` | README.md:90, dispatched requests "will complete" | Ctrl-C drops queued commands |
| `broker_registry_lock` | storage/mod.rs:14, operations on different partitions "never block each other" | requests wait while another partition is opened under the registry's lock |
| `wire_reply_limit` | types.rs:9, "Maximum allowed frame size" | a fetch is answered with a frame over the limit, which the client's decoder refuses |

One more disagreement has no run of its own: frame.rs:32 and request.rs:64 describe
a fetch payload as an offset of exactly 8 bytes, while `from_frame` needs 12. A
script of `wire_core` sends 8, and the broker drops the connection.

The passing segment runs use a buffer that covers the whole file
(`ReadCells` = 4): with a smaller one `segment_cursor` applies. I/O errors, kills
and power losses all together are beyond what the segment withstands: after an
I/O error, a kill, a rebuild from bytes that were not on disk and a power loss,
the index is ahead of the log, a read can leave the position past the end of the
file, and a write then leaves a hole at which the next load cuts the log off.
`segment_faults` therefore has the faults in pairs.

Deadlock is not checked where the inputs are bounded (all clients done, all
records written) or the process has exited. Waiting in a circle would show up in
`Answered`, `Completes` and `LoopsFinish`.

## Fairness

`LoopsFinish` assumes that the running loop of an operation goes on: it is
straight-line code in one task. `Recovers` assumes that a load that was started
goes on unless there is another crash, of which there are finitely many.
`Answered`, `Completes` and `Released` assume that each task is polled again when
it can go on (tokio's scheduler) and that file operations return; the lock and the
channel serve their waiters in order. New requests, hang-ups, panics, the death of
a client and Ctrl-C are not assumed to happen.

## Proofs

### The partition

`PartitionProofs` proves, for every set of payloads and lengths, every segment
size, every set of batches, budgets and read buffers, and every `MaxOffset`:

- `TypeCorrect`: the types, so a fetch budget does not underflow;
- `IndexIsExact`, `OffsetsAreDense`, `FilesArePacked`.

They follow from `Invariance`, the inductive invariant `IInv`. The three safety
conjuncts need each other: the index is exact only if `current_size` is the
length of the file (packed), and a rotation keeps offsets dense only if the
active segment is not empty, which follows from a record not fitting. They
are not inductive alone, because `append_batch` stages records before it writes
them: `StagedConsistent` says that the staged records continue the offsets and
bytes of the active segment and still fit. The proof reduces `IInv` to a
predicate per segment (`SegmentOK`), shows that writing staged records (`WriteOK`)
and adding an empty segment (`AddActive`) keep it, and treats each action in a
lemma of its own. Reads need that records found by the index are the ones asked
for (`LocatedOK`, `ReadBatchOK`), and that a record the buffer cuts off is also the
only one the budget allows (`CutOffStops`). The assumptions are those of `Partition`: `None`
is not a payload, lengths and limits are natural numbers, inputs have their types.

`PartitionClientProofs` goes on from there to what clients see:

- `AckedIsReadable`, `BatchesStorePrefixes`, `FetchesAreFaithful` and
  `FetchesStayWithinBudget`, from `ClientInvariance`: `ClientInv` is inductive given
  `IInv`. It adds to these properties what holds in the middle of a loop
  (`BatchBase`, `FetchProgress`, `FetchSpent`). That a fetch has holes only between
  segments rests on its going on at the base of the next one. The budget is charged by the
  distance between positions in the file, the property adds up the lengths of the
  records; that these agree (`TotalGrows`) takes an induction over the records and
  that a log has no holes.
- `ImplementsOffsetLog`: every step of `Partition` adds records at the next
  offsets or none. The steps that add are reduced to one lemma (`Grows`); rotation
  and reopening leave the stored records and the next offset alone.

### The segment's files

`SegmentProofs` proves, for every base offset, set of batches and number of faults:

- `SegmentTypes`, without further assumptions;
- `AckedSurvive`, `OffsetsStayUnique` and `ReadsAreNotForeign`, from
  `SegmentInvariance`, if `Tolerated` holds;
- `AckedNeverMove`, under the same assumption: a step acknowledges only offsets
  above all acknowledged ones, takes none back, and leaves acknowledged records in
  their cells. It needs the invariant before the step only: a commit, that pending
  offsets start at `next`; a power loss, that an acknowledged record is in the
  synced prefix and in no other cell; a load, that every cell decodes;
- `SizesAgree`, if in addition no append fails half-way;
- `IndexIsSound` and `AckedStayReadable`, for every `sync_level`, if processes are
  killed but nothing else goes wrong.

`Tolerated` says that one read covers the segment and that, where the power may
fail, `append` syncs the log and no append fails half-way. None of this can be left
out: `segment_cursor` shows what a smaller buffer does, with `sync_level` `None` a
power loss takes acknowledged records by design, and power losses together with
failed appends are the case described under the runs. Nor do the last two theorems
hold under more than kills: `segment_rebuild_crash` and `segment_io_error`. The
constants of the two passing runs satisfy these assumptions.

`SegmentInv` is inductive. The properties speak of acknowledged records; the
invariant has to say what a crash may find. `FileInv`: every cell is a record, the
file position is the end of the file, and the records of an append under way
are its last cells. `AckInv`: acknowledged offsets are below those of the next
append, and not above the last record's, from which a load counts on. `DenseInv`: as
long as no append failed, offsets are positions, in all copies of the index too.
`SyncInv`: what is on disk is a prefix of the file and has every acknowledged
record. `IndexedInv`: after kills only, the index is in order, and what an append or
a rebuild still has to index is the end of the log. Which of these hold depends on
the faults that are possible, so `SegmentInv` has them under conditions on `mix`.

### The broker

`BrokerProofs` proves, for any connections, partitions, requests and capacity:
`BrokerTypes`, `SingleActor`, `BoundedChannels`, `AckedWhereTold` and
`ServedInRealTime`, from `BrokerInvariance`. `BrokerInv` is inductive. It
adds who holds the registry's lock and who waits for it (`LockHeld`), that the
registry and the actors agree and the partition the lock's writer is about to
insert is not there yet (`RegistryExact`), and that a result on its way to a client is already
justified by the log (`UnderWay`). That every waiting task stands in exactly one
line, once, is part of `ChannelBounded`; most of the proof is that each step moves
one task from one line to another. The assumptions are those of `Broker`:
a capacity of at least 1, non-empty batches and well-formed requests.

`ServiceProofs` proves `ImplementsLogService`, that `Broker` implements
`LogService`. `Handle` is where a request takes effect: a `Write` or a `Read`.
`Take` is `Invoke`, `Respond` is `Return`, `RespondFails` is `Lose`. `ReadLock` is
a `Read` when it refuses a fetch, for which `RegistryExact` is needed: a partition
that is not in the registry has no records. `OpenFails`, a `Send` to a dead actor
and `Panic` are `Fail`, of all the requests in the channel at once. All other steps
are not seen. That the command an actor receives belongs to a task that still waits
for it, and to the actor's partition, is `ChannelBounded` and `TypeOK`.

### The connection

`CodecProofs` is about the byte formats, for contents of any length that fit the
length fields:

- `DecodeUndoesEncode`: whatever follows it in the buffer, an encoded frame is
  decoded to itself, byte arithmetic included;
- `ParseUndoesIntoFrame`: `from_frame` gives back the produce, batch or fetch
  that `into_frame` wrote;
- `RecordsUndone`: a fetch payload reads back as its records.

`WireProofs` proves, for every script of encodable requests, every frame limit,
socket capacity and way of cutting the stream, and every window:

- `FramesArriveIntact` and `WireTypeCorrect`, from `WireInvariance`: both streams
  are encoded frames end to end and both decoders stand at a frame boundary;
- `ImplementsSession`: `ClientSend`, `BrokerRespond` and `ClientReply` are the three
  steps of `Session`, and all other steps leave it alone.

`WireInv` is inductive: that a decoder takes a whole frame needs the bytes after
its position to be the next frame's encoding, which needs `ends` to be their
running sum; that a response answers the oldest open request needs `OneAtATime`.

`ConversationProofs` adds the meaning of the frames:

- `RequestsArriveIntact` and `RepliesArriveIntact`: the broker works on the
  requests the client built, the client reads the answers the broker gave;
- `FailuresHaveCause`: a connection fails only over a frame outside the limits.

They follow from `ConversationInvariance`. The inductive invariant (`TalkInv`) is
`WireInv` with `Conversation` (frames sent are those of the script and of the
responses, each response answers its request) and `FailureHasCause`, and the steps
use the theorems of `CodecProofs` on each frame taken.

The assumptions are that a frame's numbers and lengths fit the fields they are
written to (`Encodable`; the code casts without checking), that the answers of
the handlers do, and that requests and answers have the types of the code
(`ValueAssumption`).

### Induction over data

Buffers that a loop fills or reads are recursive functions in the modules. The
proofs show that such a function exists, and what it computes, by induction over
the set of lengths for which this holds (`Counting`, from the well-foundedness of the
natural numbers).

### Only model-checked

- All liveness (`LoopsFinish`, `Recovers`, `Answered`, `Completes`, `Released`), which is
  out of the prover's reach.
- The runs that end in a violation are counterexamples and have no proof.

## Not modelled

- The 16 bytes of an index entry; timestamps; `lookup_floor`, `Partition::sync`
  and `zero_copy`, which nothing calls; configuration and start-up.
- Files that come back from a power loss with garbage or without their directory
  entry. Records have no checksum, so the code could not tell.
- A `write_all` that fails half-way without a crash.
- Fetches that fail with an I/O error, and appends that do, other than in
  `SegmentFile`.
- A partition with several segments that is reopened after a crash: `Partition`
  reopens after a clean stop, `SegmentFile` covers the crash of one segment.
- Topic names outside ASCII, topics longer than 65,535 bytes and numbers over 2^31.
