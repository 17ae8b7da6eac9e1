----------------------------- MODULE LogService -----------------------------
(***************************************************************************)
(* What the broker promises its clients: one log per partition, on which    *)
(* every request takes effect in a single step between the moment it is     *)
(* read from the connection and the moment its response is sent.  There is  *)
(* no registry, no lock, no channel and no task here.  Broker is shown to   *)
(* implement it, for appends that do not fail with an I/O error half-way.   *)
(***************************************************************************)
EXTENDS Integers, Sequences

CONSTANTS
  Conns,     \* connections
  Parts,     \* pairs of a topic and a partition id
  Requests,  \* what a client may ask for
  BatchLen   \* payloads of a produce batch

VARIABLES
  store,  \* the log of each partition
  call,   \* per connection: the number of its requests, and the one in progress
  told    \* the responses that were sent

vars == <<store, call, told>>

Wrote(o) == [is |-> "wrote", offset |-> o]
Got(rec) == [is |-> "got", record |-> rec]
Error(code) == [is |-> "error", code |-> code]

\* A call's three stages.
Idle(n) == [at |-> "idle", n |-> n]
Pending(n, r) == [at |-> "pending", n |-> n, req |-> r]
Done(n, r, result) == [at |-> "done", n |-> n, req |-> r, result |-> result]

Init ==
  /\ store = [p \in Parts |-> <<>>]
  /\ call = [c \in Conns |-> Idle(0)]
  /\ told = {}

Invoke(c, r) ==
  /\ call[c].at = "idle"
  /\ call' = [call EXCEPT ![c] = Pending(@.n + 1, r)]
  /\ UNCHANGED <<store, told>>

Resolve(c, result) ==
  /\ call[c].at = "pending"
  /\ call' = [call EXCEPT ![c] = Done(@.n, @.req, result)]
  /\ UNCHANGED told

\* The whole request is appended and its first offset is the result; or a proper
\* prefix of it, none of it for a single record, and the result is an error.
Write(c, k) ==
  LET r == call[c].req
      size == IF r.kind = "batch" THEN BatchLen ELSE 1
  IN  /\ call[c].at = "pending" /\ r.kind # "fetch" /\ k <= size
      /\ store' = [store EXCEPT ![r.part] = @ \o [i \in 1 .. k |-> <<c, call[c].n, i>>]]
      /\ Resolve(c, IF k = size THEN Wrote(Len(store[r.part])) ELSE Error("MessageTooLarge"))

\* A fetch tells what the log holds at that moment; with max = 0, nothing.
Read(c) ==
  LET r == call[c].req
  IN  /\ call[c].at = "pending" /\ r.kind = "fetch"
      /\ \/ /\ r.max > 0 /\ r.offset < Len(store[r.part])
            /\ Resolve(c, Got(store[r.part][r.offset + 1]))
         \/ /\ r.max = 0 \/ r.offset >= Len(store[r.part])
            /\ Resolve(c, Error("OffsetNotFound"))
         \/ /\ store[r.part] = <<>>
            /\ Resolve(c, Error("PartitionNotFound"))
      /\ UNCHANGED store

\* The requests of some connections fail together, and none has had an effect.
Fail(cs, code) ==
  /\ \A c \in cs : call[c].at = "pending"
  /\ call' = [c \in Conns |-> IF c \in cs THEN Done(call[c].n, call[c].req, Error(code)) ELSE call[c]]
  /\ UNCHANGED <<store, told>>

\* The response reaches the client, or is lost with the connection.
Return(c) ==
  /\ call[c].at = "done"
  /\ told' = told \cup {[id |-> <<c, call[c].n>>, req |-> call[c].req, result |-> call[c].result]}
  /\ call' = [call EXCEPT ![c] = Idle(@.n)]
  /\ UNCHANGED store

Lose(c) ==
  /\ call[c].at = "done"
  /\ call' = [call EXCEPT ![c] = Idle(@.n)]
  /\ UNCHANGED <<store, told>>

Next ==
  \/ \E c \in Conns, r \in Requests : Invoke(c, r)
  \/ \E c \in Conns, k \in 0 .. BatchLen : Write(c, k)
  \/ \E c \in Conns : Read(c) \/ Return(c) \/ Lose(c)
  \/ \E cs \in SUBSET Conns, code \in {"StorageError", "ServerError"} : Fail(cs, code)

Spec == Init /\ [][Next]_vars
=============================================================================
