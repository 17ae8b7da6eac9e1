-------------------------------- MODULE Broker --------------------------------
(***************************************************************************)
(* The broker in front of the partitions: the accept loop (server.rs), one  *)
(* task per connection (connection.rs, handler.rs), the topic registry with *)
(* its RwLock (topic.rs), and one actor task per partition that is fed      *)
(* through a bounded channel and answers through a oneshot channel.         *)
(*                                                                          *)
(* A task runs on between two awaits, so a step of this module is what a    *)
(* task does from one await to the next.  The lock and the channel serve    *)
(* their waiters first come first served, as tokio's do (external).  A      *)
(* partition is the sequence of its records, named by the request and the   *)
(* place in it that they came from; Partition shows how it is kept in       *)
(* segments.  What fails with an I/O error here is opening a partition, not *)
(* an append or a read: what an append that fails half-way leaves in the    *)
(* files is a matter of SegmentFile.  Different pairs of topic and partition*)
(* stand for different directories.  (The code joins the topic to the data  *)
(* directory as it is, so that two spellings of one path would be two.)     *)
(* Definitions ending in _bug are wrong variants of the definition that     *)
(* follows; the model does not use them.                                    *)
(***************************************************************************)
EXTENDS Integers, Sequences, Functions, FiniteSets, FiniteSetsExt

CONSTANTS
  Conns,        \* connections
  Parts,        \* pairs of a topic and a partition id
  None,         \* no channel, no task
  Capacity,     \* Config::channel_capacity
  BatchLen,     \* payloads of a produce batch
  Known,        \* the partitions that have a directory when the broker starts
  Requests,     \* the requests that are sent
  MaxRequests,  \* bound: requests of each connection
  MaxPanics     \* bound: actor tasks that panic

ASSUME BrokerAssumption ==
  /\ Capacity \in Nat \ {0} /\ BatchLen \in Nat \ {0}
  /\ Known \subseteq Parts /\ Cardinality(Known) \in Nat
  /\ Requests \subseteq [kind : {"produce", "batch"}, part : Parts] \cup
                        [kind : {"fetch"}, part : Parts, offset : Nat, max : Nat]
  /\ MaxRequests \in [Conns -> Nat] /\ MaxPanics \in Nat
  /\ None \notin Conns \cup Nat

VARIABLES
  phase,     \* of the process: "up" or "exited"
  conn,      \* per connection: where its task stands and the request it serves
  topics,    \* TopicRegistry::topics: the channel of each partition, or None
  lockq,     \* tasks waiting for the RwLock of topics
  writer,    \* the task that holds its write lock across open_or_create, or None
  actors,    \* the channels created so far, each with its receiving task
  store,     \* the records of each partition
  answered   \* history: the responses that were sent

vars == <<phase, conn, topics, lockq, writer, actors, store, answered>>

\* The records a request writes.
Size(r) == IF r.kind = "batch" THEN BatchLen ELSE 1

\* A response: an offset, the first of the records read, or an error code.
Wrote(o) == [is |-> "wrote", offset |-> o]
Got(rec) == [is |-> "got", record |-> rec]
Error(code) == [is |-> "error", code |-> code]

\* One more than the last offset of p that some client was told.
AckedEnd(p) ==
  Max({0} \cup {a.result.offset + Size(a.req) :
                  a \in {x \in answered : x.req.part = p /\ x.result.is = "wrote"}})

NewActor(p) == [part |-> p, alive |-> TRUE, queue |-> <<>>, waiting |-> <<>>]

\* TopicRegistry::load has opened the partitions that have a directory.
Init ==
  /\ phase = "up"
  /\ conn = [c \in Conns |-> [pc |-> "new", count |-> 0]]
  /\ \E listed \in Bijection(1 .. Cardinality(Known), Known) :
         /\ actors = [i \in DOMAIN listed |-> NewActor(listed[i])]
         /\ topics = [p \in Parts |->
                        IF p \in Known THEN CHOOSE i \in DOMAIN listed : listed[i] = p ELSE None]
  /\ lockq = <<>> /\ writer = None
  /\ store = [p \in Parts |-> <<>>]
  /\ answered = {}

-----------------------------------------------------------------------------
\* start_server.

Accept(c) ==
  /\ phase = "up" /\ conn[c].pc = "new"
  /\ conn' = [conn EXCEPT ![c].pc = "idle"]
  /\ UNCHANGED <<phase, topics, lockq, writer, actors, store, answered>>

\* Ctrl-C: main returns and the runtime is dropped, whatever its tasks wait for.
Shutdown ==
  /\ phase = "up" /\ phase' = "exited"
  /\ UNCHANGED <<conn, topics, lockq, writer, actors, store, answered>>

-----------------------------------------------------------------------------
\* A connection's task.

At(c, pc) == phase = "up" /\ conn[c].pc = pc

\* The connection after its request has been given a result.
Resolved(cn, result) ==
  [pc |-> "reply", count |-> cn.count, req |-> cn.req, floor |-> cn.floor, result |-> result]

\* The connection once it has a clone of the sender.
HasSender(cn, tx) ==
  [pc |-> "send", count |-> cn.count, req |-> cn.req, floor |-> cn.floor, tx |-> tx]

\* The next frame is a request: handle_request asks for the registry's read lock.
Take(c, r) ==
  /\ At(c, "idle") /\ conn[c].count < MaxRequests[c]
  /\ conn' = [conn EXCEPT ![c] =
       [pc |-> "read", count |-> @.count + 1, req |-> r, floor |-> AckedEnd(r.part)]]
  /\ lockq' = Append(lockq, c)
  /\ UNCHANGED <<phase, topics, writer, actors, store, answered>>

\* End of the stream, or a frame that is no request.
Hangup(c) ==
  /\ At(c, "idle")
  /\ conn' = [conn EXCEPT ![c] = [pc |-> "closed", count |-> @.count]]
  /\ UNCHANGED <<phase, topics, lockq, writer, actors, store, answered>>

\* The lock is c's turn, and no task holds it across a step.
LockFree(c) == Head(lockq) = c /\ writer = None

\* get_partition, or the fast path of get_or_create_partition.
ReadLock(c) ==
  /\ At(c, "read") /\ LockFree(c)
  /\ LET r == conn[c].req
         tx == topics[r.part]
     IN  \/ /\ tx # None
            /\ conn' = [conn EXCEPT ![c] = HasSender(@, tx)]
            /\ lockq' = Tail(lockq)
         \/ /\ tx = None /\ r.kind = "fetch"
            /\ conn' = [conn EXCEPT ![c] = Resolved(@, Error("PartitionNotFound"))]
            /\ lockq' = Tail(lockq)
         \/ /\ tx = None /\ r.kind # "fetch"
            /\ conn' = [conn EXCEPT ![c].pc = "write"]
            /\ lockq' = Append(Tail(lockq), c)
  /\ UNCHANGED <<phase, topics, writer, actors, store, answered>>

Recheck_bug(p) == FALSE

\* The second look at the map, under the write lock.
Recheck(p) == topics[p] # None

WriteLock(c) ==
  /\ At(c, "write") /\ LockFree(c)
  /\ lockq' = Tail(lockq)
  /\ LET p == conn[c].req.part
     IN  \/ /\ Recheck(p)
            /\ conn' = [conn EXCEPT ![c] = HasSender(@, topics[p])]
            /\ UNCHANGED writer
         \/ /\ ~Recheck(p)
            /\ conn' = [conn EXCEPT ![c].pc = "open"]
            /\ writer' = c
  /\ UNCHANGED <<phase, topics, actors, store, answered>>

NewChannel_bug == Len(actors)

NewChannel == Len(actors) + 1

\* Partition::open_or_create succeeds: spawn the actor and publish its channel.
Open(c) ==
  /\ At(c, "open")
  /\ actors' = Append(actors, NewActor(conn[c].req.part))
  /\ topics' = [topics EXCEPT ![conn[c].req.part] = NewChannel]
  /\ conn' = [conn EXCEPT ![c] = HasSender(@, NewChannel)]
  /\ writer' = None
  /\ UNCHANGED <<phase, lockq, store, answered>>

\* Partition::open_or_create returns an error.
OpenFails(c) ==
  /\ At(c, "open")
  /\ conn' = [conn EXCEPT ![c] = Resolved(@, Error("StorageError"))]
  /\ writer' = None
  /\ UNCHANGED <<phase, topics, lockq, actors, store, answered>>

-----------------------------------------------------------------------------
\* The channel of a partition and its actor.

HasRoom_bug(a) == TRUE

HasRoom(a) == Len(actors[a].queue) < Capacity

\* tx.send: into the channel if there is room and nobody waits, else into the
\* waiting line; an error if the receiver is gone.
Send(c) ==
  /\ At(c, "send")
  /\ LET a == conn[c].tx
     IN  \/ /\ ~actors[a].alive
            /\ conn' = [conn EXCEPT ![c] = Resolved(@, Error("ServerError"))]
            /\ UNCHANGED actors
         \/ /\ actors[a].alive /\ HasRoom(a) /\ actors[a].waiting = <<>>
            /\ conn' = [conn EXCEPT ![c].pc = "sent"]
            /\ actors' = [actors EXCEPT ![a].queue = Append(@, c)]
         \/ /\ actors[a].alive /\ (~HasRoom(a) \/ actors[a].waiting # <<>>)
            /\ conn' = [conn EXCEPT ![c].pc = "blocked"]
            /\ actors' = [actors EXCEPT ![a].waiting = Append(@, c)]
  /\ UNCHANGED <<phase, topics, lockq, writer, store, answered>>

\* The first sender in line gets a free slot.
Unblock(c) ==
  /\ At(c, "blocked")
  /\ LET a == conn[c].tx
     IN  /\ HasRoom(a) /\ actors[a].waiting # <<>> /\ Head(actors[a].waiting) = c
         /\ actors' = [actors EXCEPT ![a].queue = Append(@, c), ![a].waiting = Tail(@)]
  /\ conn' = [conn EXCEPT ![c].pc = "sent"]
  /\ UNCHANGED <<phase, topics, lockq, writer, store, answered>>

\* The records that the first k payloads of c's request become.
Payloads(c, k) == [i \in 1 .. k |-> <<c, conn[c].count, i>>]

FirstOffset_bug(c, p) == Len(store[p]) + Size(conn[c].req) - 1

\* The offset in the reply: that of the first record, for a batch too.
FirstOffset(c, p) == Len(store[p])

\* An error although the whole request was written.
Verdict_bug(c, p, k) == Error("MessageTooLarge")

\* The reply of the actor once k of the payloads have been written.
Verdict(c, p, k) ==
  IF k = Size(conn[c].req) THEN Wrote(FirstOffset(c, p)) ELSE Error("MessageTooLarge")

\* Partition::append and append_batch: all of it at the next offset; or
\* MessageTooLarge, after some of the payloads of a batch may have been written.
Appends(c, p) ==
  \E k \in 0 .. Size(conn[c].req) :
    /\ store' = [store EXCEPT ![p] = @ \o Payloads(c, k)]
    /\ conn' = [conn EXCEPT ![c] = Resolved(@, Verdict(c, p, k))]

Found_bug(p, o, max) == max > 0 /\ o + 1 < Len(store[p])

\* Partition::read_batch returns something: the loop runs only if max_bytes is
\* not 0, and it then begins with the record at o (Partition!FetchFaithful).
Found(p, o, max) == max > 0 /\ o < Len(store[p])

\* Partition::read_batch; handle_fetch makes an error of an empty answer.
Fetches(c, p) ==
  /\ LET r == conn[c].req
     IN  conn' = [conn EXCEPT ![c] = Resolved(@,
           IF Found(p, r.offset, r.max) THEN Got(store[p][r.offset + 1])
           ELSE Error("OffsetNotFound"))]
  /\ UNCHANGED store

Runs(a) == phase = "up" /\ actors[a].alive /\ actors[a].queue # <<>>

\* The actor receives a command, carries it out and sends the reply.
Handle(a) ==
  /\ Runs(a)
  /\ LET c == Head(actors[a].queue)
         p == actors[a].part
     IN  \/ conn[c].req.kind = "fetch" /\ Fetches(c, p)
         \/ conn[c].req.kind # "fetch" /\ Appends(c, p)
  /\ actors' = [actors EXCEPT ![a].queue = Tail(@)]
  /\ UNCHANGED <<phase, topics, lockq, writer, answered>>

Dropped_bug(a) == {Head(actors[a].queue)}

\* The tasks whose oneshot sender or pending send dies with the receiver of a.
Dropped(a) == Range(actors[a].queue) \cup Range(actors[a].waiting)

\* A read panics (Record::decode on a damaged file) and takes the actor with it.
Panic(a) ==
  /\ Runs(a) /\ conn[Head(actors[a].queue)].req.kind = "fetch"
  /\ Cardinality({b \in DOMAIN actors : ~actors[b].alive}) < MaxPanics
  /\ conn' = [c \in Conns |-> IF c \in Dropped(a)
                              THEN Resolved(conn[c], Error("ServerError")) ELSE conn[c]]
  /\ actors' = [actors EXCEPT ![a] = [@ EXCEPT !.alive = FALSE, !.queue = <<>>, !.waiting = <<>>]]
  /\ UNCHANGED <<phase, topics, lockq, writer, store, answered>>

\* The response is written to the socket.
Respond(c) ==
  /\ At(c, "reply")
  /\ answered' = answered \cup {[id |-> <<c, conn[c].count>>, req |-> conn[c].req,
                                 floor |-> conn[c].floor, result |-> conn[c].result]}
  /\ conn' = [conn EXCEPT ![c] = [pc |-> "idle", count |-> @.count]]
  /\ UNCHANGED <<phase, topics, lockq, writer, actors, store>>

\* The client is gone: the response is lost and the connection ends.
RespondFails(c) ==
  /\ At(c, "reply")
  /\ conn' = [conn EXCEPT ![c] = [pc |-> "closed", count |-> @.count]]
  /\ UNCHANGED <<phase, topics, lockq, writer, actors, store, answered>>

-----------------------------------------------------------------------------
\* What the task of a connection does until its request is answered.
Serve(c) ==
  \/ ReadLock(c) \/ WriteLock(c) \/ Open(c) \/ OpenFails(c)
  \/ Send(c) \/ Unblock(c) \/ Respond(c) \/ RespondFails(c)

Next ==
  \/ \E c \in Conns : Accept(c) \/ Hangup(c) \/ Serve(c)
  \/ \E c \in Conns, r \in Requests : Take(c, r)
  \/ \E a \in DOMAIN actors : Handle(a) \/ Panic(a)
  \/ Shutdown

Spec == Init /\ [][Next]_vars

Act(a) == a \in DOMAIN actors /\ (Handle(a) \/ Panic(a))

\* Every task that can run is polled again (tokio's scheduler), and I/O returns.
FairSpec ==
  /\ Spec
  /\ \A c \in Conns : WF_vars(Serve(c))
  /\ \A a \in 1 .. Cardinality(Parts) : WF_vars(Act(a))

-----------------------------------------------------------------------------
\* Properties.

Result ==
  [is : {"wrote"}, offset : Nat] \cup [is : {"got"}, record : Conns \X Nat \X Nat] \cup
  [is : {"error"}, code : {"PartitionNotFound", "OffsetNotFound", "MessageTooLarge",
                           "StorageError", "ServerError"}]

\* A connection without a request, one at the registry, one at a channel, one
\* with its result.
Resting == [pc : {"new", "idle", "closed"}, count : Nat]
Looking == [pc : {"read", "write", "open"}, count : Nat, req : Requests, floor : Nat]
Sending ==
  [pc : {"send", "blocked", "sent"}, count : Nat, req : Requests, floor : Nat, tx : DOMAIN actors]
Replying == [pc : {"reply"}, count : Nat, req : Requests, floor : Nat, result : Result]

\* Every variable has its type, and the channel a connection sends to is that of
\* its request's partition.
TypeOK ==
  /\ phase \in {"up", "exited"}
  /\ conn \in [Conns -> Resting \cup Looking \cup Sending \cup Replying]
  /\ \A c \in Conns : conn[c].pc \in {"send", "blocked", "sent"} =>
                        actors[conn[c].tx].part = conn[c].req.part
  /\ actors \in Seq([part : Parts, alive : BOOLEAN, queue : Seq(Conns), waiting : Seq(Conns)])
  /\ topics \in [Parts -> DOMAIN actors \cup {None}]
  /\ lockq \in Seq(Conns) /\ writer \in Conns \cup {None}
  /\ store \in [Parts -> Seq(Conns \X Nat \X Nat)]
  /\ answered \subseteq [id : Conns \X Nat, req : Requests, floor : Nat, result : Result]

\* The double-checked locking of get_or_create_partition never spawns two actors
\* for a pair of topic and partition, not even after the first one died.
OneActorPerPartition ==
  \A a, b \in DOMAIN actors : actors[a].part = actors[b].part => a = b

\* A channel never holds more than its capacity, and a command is in it or in
\* its waiting line exactly while the connection's task waits there.
ChannelBounded ==
  \A a \in DOMAIN actors :
    /\ Len(actors[a].queue) <= Capacity
    /\ IsInjective(actors[a].queue \o actors[a].waiting)
    /\ Range(actors[a].queue) = {c \in Conns : conn[c].pc = "sent" /\ conn[c].tx = a}
    /\ Range(actors[a].waiting) = {c \in Conns : conn[c].pc = "blocked" /\ conn[c].tx = a}

\* The records of request `id' are in its partition where `result' says.
AckedAt(id, req, result) ==
  result.is = "wrote" =>
    \A i \in 1 .. Size(req) :
      /\ result.offset + i <= Len(store[req.part])
      /\ store[req.part][result.offset + i] = id \o <<i>>

\* What a producer was told is where its records are: the response's offset is
\* the place of the request's records, all of them, in its own partition.
AckedAtOffset == \A a \in answered : AckedAt(a.id, a.req, a.result)

InRealTime(req, floor, result) ==
  /\ result.is = "wrote" => result.offset >= floor
  /\ req.kind = "fetch" /\ req.max > 0 /\ req.offset < floor =>
       result \notin {Error("OffsetNotFound"), Error("PartitionNotFound")}

\* The broker behaves like one log per partition to clients that talk to each
\* other: a request sent after a response was received is served after it.  A
\* later write gets a later offset, and a later fetch of the offset finds it
\* (unless max_bytes is 0).
RealTimeOrder == \A a \in answered : InRealTime(a.req, a.floor, a.result)

Busy(c) == conn[c].pc \notin {"new", "idle", "closed"}

\* The tasks that stand in line s are those in the set cs, each once.
Line(s, cs) == IsInjective(s) /\ Range(s) = cs

\* The registry's lock: its line are the tasks at read() or write(), and the one
\* that opens a partition holds it.
LockHeld ==
  /\ Line(lockq, {c \in Conns : conn[c].pc \in {"read", "write"}})
  /\ \A c \in Conns : conn[c].pc = "open" <=> writer = c

\* The map and the actors agree; the partition that is being opened is in
\* neither; a partition without an actor has no records.
RegistryExact ==
  /\ \A p \in Parts : topics[p] # None => actors[topics[p]].part = p
  /\ \A a \in DOMAIN actors : topics[actors[a].part] = a
  /\ \A c \in Conns : conn[c].pc = "open" => topics[conn[c].req.part] = None
  /\ \A p \in Parts : topics[p] = None => store[p] = <<>>

\* A request under way was sent when the log ended no later than now, and a
\* result that waits to be sent is one that may be sent.
UnderWay ==
  \A c \in Conns :
    /\ Busy(c) => conn[c].floor <= Len(store[conn[c].req.part])
    /\ conn[c].pc = "reply" =>
         /\ AckedAt(<<c, conn[c].count>>, conn[c].req, conn[c].result)
         /\ InRealTime(conn[c].req, conn[c].floor, conn[c].result)

\* The state between two steps of handler.rs, topic.rs and the actors: what the
\* safety properties of the broker rest on.
BrokerInv ==
  /\ TypeOK /\ LockHeld /\ RegistryExact /\ ChannelBounded /\ UnderWay
  /\ AckedAtOffset /\ RealTimeOrder

\* What clients see of a connection's task: at rest, busy with a request, or
\* holding the result.
CallOf(cn) ==
  IF cn.pc \in {"new", "idle", "closed"} THEN [at |-> "idle", n |-> cn.count]
  ELSE IF cn.pc = "reply"
       THEN [at |-> "done", n |-> cn.count, req |-> cn.req, result |-> cn.result]
       ELSE [at |-> "pending", n |-> cn.count, req |-> cn.req]

Calls == [c \in Conns |-> CallOf(conn[c])]
Told == {[id |-> x.id, req |-> x.req, result |-> x.result] : x \in answered}

Service == INSTANCE LogService WITH call <- Calls, told <- Told

\* The broker implements LogService: however the tasks of the connections, the
\* lock, the channels and the actors interleave, panics included, each request
\* takes effect at one moment between its arrival and its response, and the
\* response says what happened at that moment.
ServesAtomically == Service!Spec

\* Every request is answered, or its connection ends, as long as the broker is
\* up: no task waits forever for the lock, a slot or a reply, not even of a
\* partition whose actor has died.
Answered == \A c \in Conns : Busy(c) ~> ~Busy(c) \/ phase # "up"

\* README.md: "In-flight requests that have already been dispatched to partition
\* actors will complete".
DispatchedComplete ==
  phase = "exited" => \A a \in DOMAIN actors : actors[a].queue = <<>>

\* storage/mod.rs: "Each partition is independently locked with an `RwLock`,
\* ensuring that operations on different partitions never block each other".
PartitionsIndependent ==
  \A c \in Range(lockq) : writer # None => conn[writer].req.part = conn[c].req.part
=============================================================================
