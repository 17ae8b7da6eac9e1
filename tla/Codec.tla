------------------------------- MODULE Codec --------------------------------
(***************************************************************************)
(* The wire format, byte for byte: frames (protocol/frame.rs), the typed    *)
(* requests and responses they carry (protocol/request.rs,                  *)
(* protocol/response.rs) and the records inside a fetch response            *)
(* (Record::encode and Record::decode in storage/segment.rs).               *)
(*                                                                         *)
(* A buffer is a sequence of bytes.  Numbers stay below 2^31, TLC's limit,  *)
(* so the upper half of a u64 is always zero.  Definitions ending in _bug   *)
(* are wrong variants of the definition that follows; the model does not    *)
(* use them.                                                                *)
(***************************************************************************)
EXTENDS Integers, Sequences, Functions

CONSTANTS
  MaxFrameSize,  \* MAX_FRAME_SIZE, 16 MiB in the code
  Absent         \* Option::None for a record's key or value

Byte == 0..255

\* The last item of a sequence, and whether one sequence begins another.
Last(s) == s[Len(s)]

IsPrefix(s, t) == Len(s) <= Len(t) /\ \A i \in 1..Len(s) : s[i] = t[i]

\* put_u16, put_u32 and put_u64, big-endian.
U16(n) == <<(n \div 256) % 256, n % 256>>

U32(n) == U16(n \div 65536) \o U16(n)

U64(n) == U32((n \div 65536) \div 65536) \o U32(n)

\* get_u16, get_u32 and get_u64 at position `at` of a buffer.
Get16(b, at) == b[at] * 256 + b[at + 1]

Get32(b, at) == Get16(b, at) * 65536 + Get16(b, at + 2)

Get64(b, at) == (Get32(b, at) * 65536) * 65536 + Get32(b, at + 4)

-----------------------------------------------------------------------------
\* Frames.

MagicByte == 202

MinHeaderSize == 17

MaxTopicLen == 255

\* ApiKey and its wire values.
ApiKey == [Produce |-> 1, Fetch |-> 2, ProduceBatch |-> 3, Error |-> 4]

ApiKeyOf(n) == CHOOSE k \in DOMAIN ApiKey : ApiKey[k] = n

BodyLen(f) == 1 + 2 + 4 + 2 + Len(f.topic) + 4 + 4 + Len(f.payload)

Encode_bug(f) ==
  U32(BodyLen(f))
    \o <<f.magic>> \o U16(ApiKey[f.api_key]) \o U32(f.partition)
    \o U16(Len(f.topic)) \o f.topic
    \o U32(f.correlation_id) \o U32(Len(f.payload)) \o f.payload

Encode(f) ==
  U32(BodyLen(f))
    \o <<f.magic>> \o U16(ApiKey[f.api_key]) \o U32(f.correlation_id)
    \o U16(Len(f.topic)) \o f.topic
    \o U32(f.partition) \o U32(Len(f.payload)) \o f.payload

TotalLen(src) == Get32(src, 1)

TotalLenOK_bug(src) == TotalLen(src) \in MinHeaderSize..(MaxFrameSize - 1)

TotalLenOK(src) == TotalLen(src) \in MinHeaderSize..MaxFrameSize

\* Bytes Frame::decode needs before it can decide about the frame.
Needed(src) == IF Len(src) >= 4 /\ TotalLenOK(src) THEN 4 + TotalLen(src) ELSE 4

Incomplete_bug(src) == Len(src) <= Needed(src)

\* Frame::decode returns Ok(None): wait for more bytes.
Incomplete(src) == Len(src) < Needed(src)

\* The body split off `src`: what follows the length prefix.
Body(src) == SubSeq(src, 5, 4 + TotalLen(src))

TopicLen(body) == Get16(body, 8)

TopicBytes(body) == SubSeq(body, 10, 9 + TopicLen(body))

PayloadLen(body) == Get32(body, 14 + TopicLen(body))

PayloadAt(body) == 17 + TopicLen(body)   \* bytes before the payload

\* str::from_utf8 on the ASCII subset; longer encodings are not modelled.
Utf8(bytes) == \A i \in DOMAIN bytes : bytes[i] < 128

BodyOK_bug(body) ==
  /\ body[1] = MagicByte
  /\ \E k \in DOMAIN ApiKey : ApiKey[k] = Get16(body, 2)
  /\ TopicLen(body) <= MaxTopicLen
  /\ Len(body) - 9 >= TopicLen(body) + 4 + 4
  /\ Utf8(TopicBytes(body))
  /\ Len(body) - PayloadAt(body) >= PayloadLen(body)

\* The checks of Frame::decode on a complete body, in the order it makes them.
BodyOK(body) ==
  /\ body[1] = MagicByte
  /\ \E k \in DOMAIN ApiKey : ApiKey[k] = Get16(body, 2)
  /\ TopicLen(body) = 0 => Get16(body, 2) = ApiKey.Error
  /\ TopicLen(body) <= MaxTopicLen
  /\ Len(body) - 9 >= TopicLen(body) + 4 + 4
  /\ Utf8(TopicBytes(body))
  /\ Len(body) - PayloadAt(body) >= PayloadLen(body)

\* Frame::decode returns an error.
Refused(src) == ~Incomplete(src) /\ ~(TotalLenOK(src) /\ BodyOK(Body(src)))

\* The frame Frame::decode returns otherwise; it takes FrameLen(src) bytes.
FrameOf(src) ==
  LET body == Body(src)
  IN  [magic          |-> body[1],
       api_key        |-> ApiKeyOf(Get16(body, 2)),
       correlation_id |-> Get32(body, 4),
       topic          |-> TopicBytes(body),
       partition      |-> Get32(body, 10 + TopicLen(body)),
       payload        |-> SubSeq(body, PayloadAt(body) + 1,
                                 PayloadAt(body) + PayloadLen(body))]

FrameLen_bug(src) == 8 + TotalLen(src)

FrameLen(src) == 4 + TotalLen(src)

-----------------------------------------------------------------------------
\* Typed requests.

\* A frame with this key and payload for the header fields of message `m`.
FrameFor(key, m, payload) ==
  [magic          |-> MagicByte,
   api_key        |-> key,
   correlation_id |-> m.correlation_id,
   topic          |-> m.topic,
   partition      |-> m.partition,
   payload        |-> payload]

\* ProduceBatchRequest's payload: the count, then each message behind its length.
\* Entry k is the buffer after k messages.
BatchBuffer(payloads) ==
  LET buf[k \in 0..Len(payloads)] ==
        IF k = 0 THEN U32(Len(payloads))
        ELSE buf[k - 1] \o (U32(Len(payloads[k])) \o payloads[k])
  IN  buf

BatchBytes(payloads) == BatchBuffer(payloads)[Len(payloads)]

\* The into_frame of the three request types.
ProduceFrame(r) == FrameFor("Produce", r, r.payload)

BatchFrame(r) == FrameFor("ProduceBatch", r, BatchBytes(r.payloads))

FetchFrame_bug(r) == FrameFor("Fetch", r, U64(r.max_bytes) \o U32(r.offset))

FetchFrame(r) == FrameFor("Fetch", r, U64(r.offset) \o U32(r.max_bytes))

RequestFrame(r) ==
  CASE r.type = "Produce" -> ProduceFrame(r)
    [] r.type = "ProduceBatch" -> BatchFrame(r)
    [] r.type = "Fetch" -> FetchFrame(r)

\* One turn of the batch loop of Request::from_frame: whether every check passed
\* so far, the messages taken and the bytes left.
TakeMessage(st) ==
  LET rest == st.rest
  IN  IF st.ok /\ Len(rest) >= 4 /\ Len(rest) - 4 >= Get32(rest, 1)
      THEN [ok       |-> TRUE,
            payloads |-> Append(st.payloads, SubSeq(rest, 5, 4 + Get32(rest, 1))),
            rest     |-> SubSeq(rest, 5 + Get32(rest, 1), Len(rest))]
      ELSE [st EXCEPT !.ok = FALSE]

\* The loop: entry k is its state after k turns.
BatchLoop(payload) ==
  LET loop[k \in 0..Get32(payload, 1)] ==
        IF k = 0
        THEN [ok |-> TRUE, payloads |-> <<>>, rest |-> SubSeq(payload, 5, Len(payload))]
        ELSE TakeMessage(loop[k - 1])
  IN  loop

BatchEnd(payload) == BatchLoop(payload)[Get32(payload, 1)]

\* The count is taken as it is.  (The code also sets memory aside for that many
\* payloads before it has seen them, which is not modelled.)
BatchOK(payload) ==
  /\ Len(payload) >= 4
  /\ BatchEnd(payload).ok
  /\ BatchEnd(payload).rest = <<>>   \* no trailing bytes

\* Request::from_frame returns an error.
BadRequest(f) ==
  \/ f.api_key = "Error"
  \/ f.api_key = "ProduceBatch" /\ ~BatchOK(f.payload)
  \/ f.api_key = "Fetch" /\ Len(f.payload) # 12

\* The typed request Request::from_frame returns otherwise.
RequestOf(f) ==
  CASE f.api_key = "Produce" ->
         [type |-> "Produce", correlation_id |-> f.correlation_id, topic |-> f.topic,
          partition |-> f.partition, payload |-> f.payload]
    [] f.api_key = "ProduceBatch" ->
         [type |-> "ProduceBatch", correlation_id |-> f.correlation_id, topic |-> f.topic,
          partition |-> f.partition, payloads |-> BatchEnd(f.payload).payloads]
    [] f.api_key = "Fetch" ->
         [type |-> "Fetch", correlation_id |-> f.correlation_id, topic |-> f.topic,
          partition |-> f.partition, offset |-> Get64(f.payload, 1),
          max_bytes |-> Get32(f.payload, 9)]

-----------------------------------------------------------------------------
\* Records and responses.

MaxU32 == <<255, 255, 255, 255>>   \* u32::MAX, the length that means None

OptLen(bytes) == IF bytes = Absent THEN 0 ELSE Len(bytes)

OptBytes_bug(bytes) == IF bytes = Absent THEN U32(0) ELSE U32(Len(bytes)) \o bytes

OptBytes(bytes) == IF bytes = Absent THEN MaxU32 ELSE U32(Len(bytes)) \o bytes

\* Record::encode.
RecordBytes(r) ==
  U32(4 + 8 + 8 + 4 + OptLen(r.key) + 4 + OptLen(r.value))
    \o U64(r.offset) \o U64(r.timestamp_ms) \o OptBytes(r.key) \o OptBytes(r.value)

OptAt(b, at) ==
  IF SubSeq(b, at, at + 3) = MaxU32 THEN Absent
  ELSE SubSeq(b, at + 4, at + 3 + Get32(b, at))

\* Record::decode finds a whole record at the front of `src`.
HasRecord(src) == Len(src) >= 4 /\ Get32(src, 1) \in 28..Len(src)

\* That record, and where it ends.
RecordOf(src) ==
  LET key == OptAt(src, 21)
  IN  [offset |-> Get64(src, 5), timestamp_ms |-> Get64(src, 13),
       key |-> key, value |-> OptAt(src, 25 + OptLen(key))]

RecordEnd(src) == 28 + OptLen(RecordOf(src).key) + OptLen(RecordOf(src).value)

\* handle_fetch's payload: the count, then the records.  Entry k is the buffer
\* after k records.
FetchBuffer(records) ==
  LET buf[k \in 0..Len(records)] ==
        IF k = 0 THEN U32(Len(records)) ELSE buf[k - 1] \o RecordBytes(records[k])
  IN  buf

FetchBytes(records) == FetchBuffer(records)[Len(records)]

\* ErrorCode and its wire values, and From<&RukaError>.
ErrorCode ==
  [None |-> 0, UnknownApiKey |-> 1, InvalidFrame |-> 2, OffsetNotFound |-> 3,
   PartitionNotFound |-> 4, StorageError |-> 5, MessageTooLarge |-> 6, ServerError |-> 7]

CodeFor(error) ==
  CASE error \in {"InvalidMagicByte", "FrameTooShort", "InvalidTopicName"} -> "InvalidFrame"
    [] error = "FrameTooLarge" -> "MessageTooLarge"
    [] error \in {"SegmentFull", "CorruptedIndex", "Io"} -> "StorageError"
    [] error \in {"UnknownApiKey", "InvalidFrame", "MessageTooLarge", "OffsetNotFound",
                  "PartitionNotFound"} -> error
    [] OTHER -> "ServerError"

\* The into_frame of the four response types.
OffsetFrame(r) == FrameFor(r.type, r, U64(r.offset))

FetchedFrame(r) == FrameFor("Fetch", r, FetchBytes(r.records))

ErrorFrame(r) ==
  FrameFor("Error",
           [correlation_id |-> r.correlation_id, topic |-> <<>>, partition |-> 0],
           U16(ErrorCode[r.error_code]) \o r.error_message)

ResponseFrame(r) ==
  CASE r.type \in {"Produce", "ProduceBatch"} -> OffsetFrame(r)
    [] r.type = "Fetch" -> FetchedFrame(r)
    [] r.type = "Error" -> ErrorFrame(r)
=============================================================================
