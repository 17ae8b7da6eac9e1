-------------------------------- MODULE Wire --------------------------------
(***************************************************************************)
(* One TCP connection: a client that pipelines requests                     *)
(* (examples/throughput_bench.rs; with MaxInFlight = 1 the sequential       *)
(* client of examples/client.rs and examples/benchmark.rs), the broker's    *)
(* connection task (network/connection.rs) and the byte stream between      *)
(* them.                                                                    *)
(*                                                                         *)
(* Both ends run Framed<TcpStream, RukaCodec>: `send` encodes a frame into  *)
(* a write buffer and flushes it to the socket, a few bytes at a time;      *)
(* `next` decodes a frame from the read buffer and reads more bytes from    *)
(* the socket only while no whole frame is there.  A socket holds a bounded *)
(* number of bytes, delivers them in order and loses none; how many move at *)
(* once is arbitrary.                                                       *)
(*                                                                         *)
(* Direction "req" carries requests, direction "rep" responses.  A          *)
(* direction is the bytes encoded so far and three positions in them:       *)
(* written <= Len(bytes) have reached the socket, arrived <= written are in *)
(* the reader's buffer or behind it, consumed <= arrived are decoded.  The  *)
(* history `ends` records where each frame ends in the bytes.  Definitions  *)
(* ending in _bug are wrong variants of the definition that follows.        *)
(***************************************************************************)
EXTENDS Codec

CONSTANTS
  Scripts,      \* the request sequences a client may be about to send
  MaxInFlight,  \* max_in_flight
  Capacity,     \* bytes each direction's socket holds
  Chunks,       \* how many bytes one read or write may move (a bound)
  Offsets,      \* offsets a produce may be given (a bound)
  Fetched,      \* non-empty record sequences a fetch may find (a bound)
  Errors,       \* for each request type, errors its handling may meet (a bound)
  Message       \* an error message

\* into_frame, or a frame the client filled in itself (Frame's fields are public).
ScriptFrame(r) == IF r.type = "Frame" THEN r.frame ELSE RequestFrame(r)

MaxInt == 2147483647   \* bound: the numbers of a frame stay below 2^31

Frame ==
  [magic : {MagicByte}, api_key : DOMAIN ApiKey, correlation_id : Nat,
   topic : Seq(Byte), partition : Nat, payload : Seq(Byte)]

\* A frame whose numbers and lengths fit the fields Frame::encode casts them to.
Encodable(f) ==
  /\ f \in Frame
  /\ f.correlation_id <= MaxInt /\ f.partition <= MaxInt
  /\ Len(f.topic) < 65536 /\ BodyLen(f) <= MaxInt

\* The requests of protocol/request.rs, or a frame filled in by hand.
Request ==
  [type : {"Produce"}, correlation_id : 0..MaxInt, topic : Seq(Byte), partition : 0..MaxInt,
   payload : Seq(Byte)] \cup
  [type : {"ProduceBatch"}, correlation_id : 0..MaxInt, topic : Seq(Byte),
   partition : 0..MaxInt, payloads : Seq(Seq(Byte))] \cup
  [type : {"Fetch"}, correlation_id : 0..MaxInt, topic : Seq(Byte), partition : 0..MaxInt,
   offset : 0..MaxInt, max_bytes : 0..MaxInt] \cup
  [type : {"Frame"}, correlation_id : 0..MaxInt, frame : Frame]

\* The Record of storage/segment.rs.
StoredRecord ==
  [offset : 0..MaxInt, timestamp_ms : 0..MaxInt,
   key : {Absent} \cup Seq(Byte), value : {Absent} \cup Seq(Byte)]

Direction == {"req", "rep"}

MaxPayload == MaxInt - (MinHeaderSize + MaxTopicLen)

ASSUME SizeAssumption ==
  MaxFrameSize \in Nat /\ Chunks \subseteq Nat /\ Capacity \in [Direction -> Nat]
ASSUME ScriptAssumption ==
  \A sc \in Scripts :
    /\ sc \in Seq(Range(sc))
    /\ \A i \in DOMAIN sc : /\ Encodable(ScriptFrame(sc[i]))
                            /\ ScriptFrame(sc[i]).correlation_id = sc[i].correlation_id
ASSUME AnswerAssumption ==
  /\ Offsets \subseteq Nat
  /\ Message \in Seq(Byte) /\ 2 + Len(Message) <= MaxPayload
  /\ \A rs \in Fetched : /\ FetchBytes(rs) \in Seq(Byte)
                          /\ Len(FetchBytes(rs)) <= MaxPayload
ASSUME ValueAssumption ==
  /\ \A sc \in Scripts : \A i \in DOMAIN sc :
       sc[i] \in Request /\ Utf8(ScriptFrame(sc[i]).topic)   \* a topic is a String
  /\ Offsets \subseteq 0..MaxInt /\ Fetched \subseteq Seq(StoredRecord)
  /\ Absent \notin Seq(Byte)

VARIABLES
  script,     \* the requests the client sends, in order
  pipe,       \* the two directions
  sent,       \* history: the frames passed to send, per direction
  got,        \* history: the frames returned by next, per direction
  requests,   \* history: the typed requests the broker took off its frames
  responses,  \* history: the typed responses it made
  client,     \* "ready", "flushing", or gone: "done", "failed", "quit"
  broker      \* "reading", "parsing", "handling", "flushing", "refused" or "closed"

vars == <<script, pipe, sent, got, requests, responses, client, broker>>

Gone == {"done", "failed", "quit"}

\* The reader's buffer, and the bytes in the socket.
Buffer(d) == SubSeq(pipe[d].bytes, pipe[d].consumed + 1, pipe[d].arrived)

InSocket(d) == pipe[d].written - pipe[d].arrived

InFlight == Len(sent["req"]) - Len(got["rep"])

Init ==
  /\ script \in Scripts
  /\ pipe = [d \in Direction |-> 
       [bytes |-> <<>>, ends |-> <<>>, written |-> 0, arrived |-> 0, consumed |-> 0]]
  /\ sent = [d \in Direction |-> <<>>]
  /\ got = [d \in Direction |-> <<>>]
  /\ requests = <<>>
  /\ responses = <<>>
  /\ client = "ready"
  /\ broker = "reading"

-----------------------------------------------------------------------------
\* Framed::send and Framed::next.

\* start_send: encode the frame into the write buffer.
StartSend(d, frame) ==
  /\ LET stream == pipe[d].bytes \o Encode(frame)
         ends   == Append(pipe[d].ends, Len(stream))
     IN  pipe' = [pipe EXCEPT ![d] = [pipe[d] EXCEPT !.bytes = stream, !.ends = ends]]
  /\ sent' = [sent EXCEPT ![d] = Append(@, frame)]

\* flush: the socket takes n of the bytes it has room for.
Write(d, n) ==
  /\ n <= Len(pipe[d].bytes) - pipe[d].written
  /\ n <= Capacity[d] - InSocket(d)
  /\ pipe' = [pipe EXCEPT ![d].written = @ + n]

\* The state of a sender after that: still flushing until nothing is left.
AfterWrite(d, n, idle) ==
  IF pipe[d].written + n = Len(pipe[d].bytes) THEN idle ELSE "flushing"

\* No whole frame is buffered: read n of the bytes in the socket.
Read(d, n) ==
  /\ Incomplete(Buffer(d))
  /\ n <= InSocket(d)
  /\ pipe' = [pipe EXCEPT ![d].arrived = @ + n]

\* The decoder returns a frame and takes its bytes off the buffer.
Take(d) ==
  /\ ~Incomplete(Buffer(d)) /\ ~Refused(Buffer(d))
  /\ got' = [got EXCEPT ![d] = Append(@, FrameOf(Buffer(d)))]
  /\ pipe' = [pipe EXCEPT ![d].consumed = @ + FrameLen(Buffer(d))]

-----------------------------------------------------------------------------
\* The client.

MaySend_bug == Len(sent["req"]) < Len(script)

\* The inner loop: room in the window and requests left to send.
MaySend == InFlight < MaxInFlight /\ Len(sent["req"]) < Len(script)

ClientSend ==
  /\ client = "ready" /\ MaySend
  /\ StartSend("req", ScriptFrame(script[Len(sent["req"]) + 1]))
  /\ client' = "flushing"
  /\ UNCHANGED <<script, got, requests, responses, broker>>

ClientWrite ==
  /\ client = "flushing"
  /\ \E n \in Chunks : Write("req", n) /\ client' = AfterWrite("req", n, "ready")
  /\ UNCHANGED <<script, sent, got, requests, responses, broker>>

\* The outer loop: wait for one reply.
Waiting == client = "ready" /\ ~MaySend /\ Len(got["rep"]) < Len(script)

ClientRead ==
  /\ Waiting
  /\ \E n \in Chunks : Read("rep", n)
  /\ UNCHANGED <<script, sent, got, requests, responses, client, broker>>

ClientReply ==
  /\ Waiting
  /\ Take("rep")
  /\ UNCHANGED <<script, sent, requests, responses, client, broker>>

\* The client's decoder refuses a reply: `?` and unwrap end the client.
ClientRefuse ==
  /\ Waiting /\ Refused(Buffer("rep"))
  /\ client' = "failed"
  /\ UNCHANGED <<script, pipe, sent, got, requests, responses, broker>>

\* The broker has closed the connection; what it had sent may be lost.
ClientLost ==
  /\ broker = "refused" /\ (client = "flushing" \/ Waiting)
  /\ client' = "failed"
  /\ UNCHANGED <<script, pipe, sent, got, requests, responses, broker>>

\* All replies are in: the client drops the connection.
ClientDone ==
  /\ client = "ready" /\ Len(got["rep"]) = Len(script)
  /\ client' = "done"
  /\ UNCHANGED <<script, pipe, sent, got, requests, responses, broker>>

\* The client process is killed, perhaps in the middle of a frame.
ClientQuit ==
  /\ client \notin Gone
  /\ client' = "quit"
  /\ UNCHANGED <<script, pipe, sent, got, requests, responses, broker>>

-----------------------------------------------------------------------------
\* The broker's connection task.

BrokerRead ==
  /\ broker = "reading"
  /\ \E n \in Chunks : Read("req", n)
  /\ UNCHANGED <<script, sent, got, requests, responses, client, broker>>

BrokerTake ==
  /\ broker = "reading"
  /\ Take("req")
  /\ broker' = "parsing"
  /\ UNCHANGED <<script, sent, requests, responses, client>>

\* Frame::decode fails: the connection is dropped without a response.
BrokerRefuse ==
  /\ broker = "reading" /\ Refused(Buffer("req"))
  /\ broker' = "refused"
  /\ UNCHANGED <<script, pipe, sent, got, requests, responses, client>>

\* Request::from_frame accepts the frame, or the connection is dropped.
BrokerParse ==
  /\ broker = "parsing"
  /\ IF BadRequest(Last(got["req"]))
     THEN broker' = "refused" /\ UNCHANGED requests
     ELSE broker' = "handling" /\ requests' = Append(requests, RequestOf(Last(got["req"])))
  /\ UNCHANGED <<script, pipe, sent, got, responses, client>>

\* What handle_request may return for request q.
ErrorsTo(q) ==
  {[type |-> "Error", correlation_id |-> q.correlation_id,
    error_code |-> CodeFor(e), error_message |-> Message] : e \in Errors[q.type]}

OffsetsTo(q) ==
  {[type |-> q.type, correlation_id |-> q.correlation_id, topic |-> q.topic,
    partition |-> q.partition, offset |-> o] : o \in Offsets}

RecordsTo(q) ==
  {[type |-> "Fetch", correlation_id |-> q.correlation_id, topic |-> q.topic,
    partition |-> q.partition, records |-> rs] : rs \in Fetched}

ResponsesTo(q) ==
  ErrorsTo(q) \cup (IF q.type = "Fetch" THEN RecordsTo(q) ELSE OffsetsTo(q))

BrokerRespond ==
  /\ broker = "handling"
  /\ \E r \in ResponsesTo(Last(requests)) :
       /\ StartSend("rep", ResponseFrame(r))
       /\ responses' = Append(responses, r)
  /\ broker' = "flushing"
  /\ UNCHANGED <<script, got, requests, client>>

BrokerWrite ==
  /\ broker = "flushing"
  /\ \E n \in Chunks : Write("rep", n) /\ broker' = AfterWrite("rep", n, "reading")
  /\ UNCHANGED <<script, sent, got, requests, responses, client>>

BrokerHangup_bug ==
  /\ client \in Gone /\ broker = "reading"
  /\ broker' = "closed"
  /\ UNCHANGED <<script, pipe, sent, got, requests, responses, client>>

\* The client is gone: next ends or fails, or send fails.
BrokerHangup ==
  /\ client \in Gone /\ broker \in {"reading", "flushing"}
  /\ broker' = "closed"
  /\ UNCHANGED <<script, pipe, sent, got, requests, responses, client>>

-----------------------------------------------------------------------------
ClientStep ==
  ClientSend \/ ClientWrite \/ ClientRead \/ ClientReply \/ ClientRefuse
    \/ ClientLost \/ ClientDone

BrokerStep ==
  BrokerRead \/ BrokerTake \/ BrokerRefuse \/ BrokerParse \/ BrokerRespond \/ BrokerWrite \/ BrokerHangup

Next == ClientStep \/ ClientQuit \/ BrokerStep

Spec == Init /\ [][Next]_vars

\* Both ends are tasks the runtime polls for as long as they can make progress.
FairSpec == Spec /\ WF_vars(ClientStep) /\ WF_vars(BrokerStep)

-----------------------------------------------------------------------------
\* Properties.

Pipe ==
  [bytes : Seq(Byte), ends : Seq(Nat), written : Nat, arrived : Nat, consumed : Nat]

InOrder(p) ==
  p.consumed <= p.arrived /\ p.arrived <= p.written /\ p.written <= Len(p.bytes)

\* Every variable has its type, and the positions in a direction are ordered:
\* nothing is decoded before it arrived nor arrived before it was written.
TypeOK ==
  /\ script \in Scripts
  /\ pipe \in [Direction -> Pipe]
  /\ sent \in [Direction -> Seq(Frame)]
  /\ got \in [Direction -> Seq(Frame)]
  /\ client \in {"ready", "flushing"} \cup Gone
  /\ broker \in {"reading", "parsing", "handling", "flushing", "refused", "closed"}
  /\ \A d \in Direction : InOrder(pipe[d])

\* However the stream is cut into reads and writes, and wherever the writer
\* dies, the frames Frame::decode yields are the first ones that were sent, in
\* order: none torn, merged, repeated or skipped.
FramesIntact == \A d \in Direction : IsPrefix(got[d], sent[d])

\* Where the i-th frame of a direction ends in its bytes.
EndOf(p, i) == IF i = 0 THEN 0 ELSE p.ends[i]

\* The i-th frame sent is one the codec can carry, and its encoding is what lies
\* between the ends of the frame before it and of itself.
FrameInPlace(p, f, i) ==
  /\ Encodable(f)
  /\ EndOf(p, i) = EndOf(p, i - 1) + Len(Encode(f)) /\ EndOf(p, i) <= Len(p.bytes)
  /\ \A k \in 1..Len(Encode(f)) : p.bytes[EndOf(p, i - 1) + k] = Encode(f)[k]

\* The bytes of a direction are the frames s sent end to end, and the decoder
\* has returned the first of them, g, and stands at the end of the last.
FramedStream(p, s, g) ==
  /\ Len(p.ends) = Len(s)
  /\ EndOf(p, Len(s)) = Len(p.bytes)
  /\ \A i \in 1..Len(s) : FrameInPlace(p, s[i], i)
  /\ Len(g) <= Len(s)
  /\ \A i \in 1..Len(g) : g[i] = s[i]
  /\ p.consumed = EndOf(p, Len(g))

\* The request the broker is at: the last frame it took is the only one it has
\* not answered, its topic passed the decoder's check, and the typed request
\* being handled carries its header.
OneAtATime ==
  /\ requests \in Seq(Range(requests))
  /\ broker \in {"reading", "flushing"} => Len(got["req"]) = Len(sent["rep"])
  /\ broker \in {"parsing", "handling"} =>
       /\ Len(got["req"]) = Len(sent["rep"]) + 1
       /\ Len(Last(got["req"]).topic) <= MaxTopicLen
  /\ broker = "handling" =>
       LET q == Last(requests)
           f == Last(got["req"])
       IN  /\ q.type \in {"Produce", "ProduceBatch", "Fetch"}
           /\ q.correlation_id = f.correlation_id /\ q.topic = f.topic
           /\ q.partition = f.partition

\* The state between two steps of connection.rs and of the codecs at its ends:
\* both streams are whole frames end to end, read at frame boundaries, and the
\* broker works on one request at a time.
WireInv ==
  TypeOK /\ OneAtATime /\ \A d \in Direction : FramedStream(pipe[d], sent[d], got[d])

\* The request an entry of the script stands for.
Meant(r) == IF r.type = "Frame" THEN RequestOf(r.frame) ELSE r

\* A request reaches the handler as the client built it: from_frame undoes
\* into_frame through the byte stream, batches and fetch positions included.
RequestsIntact ==
  /\ Len(requests) <= Len(script)
  /\ \A i \in DOMAIN requests : requests[i] = Meant(script[i])

\* A reader of a fetch payload: one Record::decode, then one after the other.
TakeRecord(st) ==
  IF ~HasRecord(st.rest) THEN st
  ELSE [records |-> Append(st.records, RecordOf(st.rest)),
        rest    |-> SubSeq(st.rest, RecordEnd(st.rest) + 1, Len(st.rest))]

RecordLoop(payload) ==
  LET loop[k \in 0..Get32(payload, 1)] ==
        IF k = 0 THEN [records |-> <<>>, rest |-> SubSeq(payload, 5, Len(payload))]
        ELSE TakeRecord(loop[k - 1])
  IN  loop

RecordsIn(payload) == RecordLoop(payload)[Get32(payload, 1)].records

\* The i-th reply is the broker's answer to the i-th request, and its payload
\* reads back as the offset, the records or the error code answered.
RepliesIntact ==
  \A i \in DOMAIN got["rep"] :
    LET f == got["rep"][i]
        r == responses[i]
    IN  /\ f.correlation_id = script[i].correlation_id
        /\ f.api_key = r.type
        /\ CASE r.type = "Fetch" -> RecordsIn(f.payload) = r.records
              [] r.type = "Error" -> Get16(f.payload, 1) = ErrorCode[r.error_code]
              [] OTHER -> Get64(f.payload, 1) = r.offset

\* A request within the limits Frame::decode and Request::from_frame enforce and
\* Frame::encode does not.
Carried(r) ==
  /\ BodyLen(ScriptFrame(r)) <= MaxFrameSize
  /\ Len(ScriptFrame(r).topic) \in 1..MaxTopicLen
  /\ ~BadRequest(ScriptFrame(r))

\* A connection is only ever dropped for cause: the broker drops it over the
\* first request outside those limits, with every request before it answered,
\* and the client fails only then or over a reply too large for its decoder.
FailureHasCause ==
  /\ broker = "refused" =>
       /\ Len(responses) < Len(script)
       /\ ~Carried(script[Len(responses) + 1])
  /\ client = "failed" =>
       \/ broker = "refused"
       \/ /\ Len(got["rep"]) < Len(sent["rep"])
          /\ BodyLen(sent["rep"][Len(got["rep"]) + 1]) > MaxFrameSize

\* What Frame::decode asks of a topic, and of a frame.
Named(f) ==
  /\ Len(f.topic) <= MaxTopicLen /\ Utf8(f.topic)
  /\ Len(f.topic) = 0 => f.api_key = "Error"

Decodable(f) == BodyLen(f) <= MaxFrameSize /\ Named(f)

\* The frames on the wire are the requests of the script and the responses the
\* broker made, each to its own request; it makes one response at a time, and
\* only to requests it could read.
Conversation ==
  /\ Len(sent["req"]) <= Len(script)
  /\ \A i \in 1..Len(sent["req"]) : sent["req"][i] = ScriptFrame(script[i])
  /\ \A i \in 1..Len(got["req"]) : Decodable(got["req"][i])
  /\ Len(requests) = Len(responses) + (IF broker = "handling" THEN 1 ELSE 0)
  /\ Len(requests) <= Len(got["req"])
  /\ \A i \in 1..Len(requests) :
       ~BadRequest(got["req"][i]) /\ requests[i] = RequestOf(got["req"][i])
  /\ responses \in Seq(Range(responses)) /\ Len(sent["rep"]) = Len(responses)
  /\ \A i \in 1..Len(responses) :
       /\ responses[i] \in ResponsesTo(requests[i])
       /\ sent["rep"][i] = ResponseFrame(responses[i]) /\ Named(sent["rep"][i])

\* Every reply the broker sends is within the maximum allowed frame size, so the
\* client's decoder takes it.
RepliesFit == \A i \in DOMAIN sent["rep"] : BodyLen(sent["rep"][i]) <= MaxFrameSize

\* The pipelined client never waits for ever: it and the broker never both wait
\* for the other to read, and no whole reply is left in a buffer unseen.
Completes == <>(client \in Gone)

\* A connection task ends once its client is gone, whatever half a frame it
\* was left with.
Released == client \in Gone ~> broker \in {"refused", "closed"}

\* The connection implements the session its ends rely on.
IdsOf(frames) == [i \in DOMAIN frames |-> frames[i].correlation_id]

S == INSTANCE Session WITH
       Ids      <- {r.correlation_id : r \in UNION {Range(sc) : sc \in Scripts}},
       asked    <- IdsOf(sent["req"]),
       served   <- IdsOf(sent["rep"]),
       answered <- IdsOf(got["rep"])

\* Requests are served exactly once and in order, and replies come back in the
\* order of the requests: every step of the connection is a step of Session.
IsSession == S!Spec
=============================================================================
