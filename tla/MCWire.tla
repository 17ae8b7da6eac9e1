------------------------------- MODULE MCWire -------------------------------
(***************************************************************************)
(* Wire for model checking: a client that pipelines a batch, a produce and  *)
(* a fetch, one whose second request is one byte too large for a frame, one *)
(* whose topic name is empty, and one that fills in a fetch frame with only *)
(* the offset as payload.  A fetch finds two records, which fill a frame to *)
(* its limit, or three.                                                     *)
(***************************************************************************)
EXTENDS Wire

Topic == <<116>>

Produce(id, payload) ==
  [type |-> "Produce", correlation_id |-> id, topic |-> Topic, partition |-> 1,
   payload |-> payload]

Batch(id, payloads) ==
  [type |-> "ProduceBatch", correlation_id |-> id, topic |-> Topic, partition |-> 1,
   payloads |-> payloads]

Fetch(id, offset) ==
  [type |-> "Fetch", correlation_id |-> id, topic |-> Topic, partition |-> 1,
   offset |-> offset, max_bytes |-> 70000]

OffsetOnly(id, offset) ==
  [type |-> "Frame", correlation_id |-> id,
   frame |-> [FetchFrame(Fetch(id, offset)) EXCEPT !.payload = U64(offset)]]

MCScripts ==
  {<<Batch(1, <<<<170>>, <<>>>>), Produce(2, <<7>>), Fetch(258, 65536)>>,
   <<Produce(1, <<>>), Produce(2, <<>> \o [i \in 1..62 |-> 0]), Produce(3, <<1>>)>>,
   <<[Produce(1, <<9>>) EXCEPT !.topic = <<>>], Produce(2, <<1>>)>>,
   <<OffsetOnly(1, 0), Produce(2, <<1>>)>>}

MCCapacity == [req |-> 12, rep |-> 40]

Record(o, v) == [offset |-> o, timestamp_ms |-> 300, key |-> Absent, value |-> v]

MCFetched ==
  LET two == <<Record(65536, <<5>>), Record(65537, <<>>)>>
  IN  {two, Append(two, Record(65538, <<6>>))}

MCMessage == <<33>>

MCErrors == [Produce |-> {"Io"}, ProduceBatch |-> {}, Fetch |-> {"OffsetNotFound"}]
=============================================================================
