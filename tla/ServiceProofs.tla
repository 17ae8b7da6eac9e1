---------------------------- MODULE ServiceProofs ----------------------------
(***************************************************************************)
(* Broker implements LogService: step by step, what the tasks, the lock,    *)
(* the channels and the actors do is a step on the logs, or none.           *)
(***************************************************************************)
EXTENDS BrokerProofs

\* What clients see of a connection, by the place where its task stands.
LEMMA CallAt ==
  ASSUME NEW x
  PROVE  /\ x.pc \in {"new", "idle", "closed"} => CallOf(x) = [at |-> "idle", n |-> x.count]
         /\ x.pc \in {"read", "write", "open", "send", "blocked", "sent"} =>
              CallOf(x) = [at |-> "pending", n |-> x.count, req |-> x.req]
         /\ x.pc = "reply" =>
              CallOf(x) = [at |-> "done", n |-> x.count, req |-> x.req, result |-> x.result]
  BY ZenonT(60) DEF CallOf

\* The same, field by field.
LEMMA CallFields ==
  ASSUME NEW x
  PROVE  /\ x.pc \in {"new", "idle", "closed"} => CallOf(x).at = "idle" /\ CallOf(x).n = x.count
         /\ x.pc \in {"read", "write", "open", "send", "blocked", "sent"} =>
              CallOf(x).at = "pending" /\ CallOf(x).n = x.count /\ CallOf(x).req = x.req
         /\ x.pc = "reply" =>
              /\ CallOf(x).at = "done" /\ CallOf(x).n = x.count /\ CallOf(x).req = x.req
              /\ CallOf(x).result = x.result
  BY ZenonT(60) DEF CallOf

\* One connection moves, and with it its call.
LEMMA OneCallMoves ==
  ASSUME BrokerInv, NEW c \in Conns, NEW x, conn' = [conn EXCEPT ![c] = x]
  PROVE  /\ Calls[c] = CallOf(conn[c])
         /\ Calls' = [Calls EXCEPT ![c] = CallOf(x)]
<1>1. \A d \in Conns : conn'[d] = IF d = c THEN x ELSE conn[d]
  <2>1. conn = [d \in Conns |-> conn[d]]
    BY ZenonT(60), InvSplit DEF AllFit
  <2> QED
    BY Zenon, <2>1
<1>2. Calls' = [d \in Conns |-> CallOf(conn'[d])]
  BY ZenonT(60) DEF Calls, CallOf
<1>3. Calls = [d \in Conns |-> CallOf(conn[d])]
  BY Zenon DEF Calls
<1> QED
  BY SMTT(60), <1>1, <1>2, <1>3

\* A task that goes on with the same request is not seen from outside.
LEMMA Unseen ==
  ASSUME BrokerInv, NEW c \in Conns, NEW x, conn' = [conn EXCEPT ![c] = x],
         CallOf(x) = CallOf(conn[c]), store' = store, answered' = answered
  PROVE  UNCHANGED Service!vars
<1>1. Calls[c] = CallOf(conn[c]) /\ Calls' = [Calls EXCEPT ![c] = CallOf(x)]
  BY ZenonT(60), OneCallMoves
<1>2. Calls = [d \in Conns |-> Calls[d]]
  BY ZenonT(60) DEF Calls
<1>3. Calls' = Calls
  BY ZenonT(60), <1>1, <1>2
<1>4. Told' = Told
  BY ZenonT(60) DEF Told
<1> QED
  BY ZenonT(60), <1>3, <1>4 DEF Service!vars

\* Where the task of connection c stands, and what it serves.
LEMMA TaskFits ==
  ASSUME BrokerInv, NEW c \in Conns
  PROVE  /\ Fits(c, conn[c], actors, store)
         /\ Plain /\ RegistryExact /\ Parts7
  BY ZenonT(60), InvSplit, Taken DEF AllFit

\* The requests of the tasks in cs fail without having reached a partition.
LEMMA FailsSeen ==
  ASSUME BrokerInv, NEW cs \in SUBSET Conns, NEW code \in {"StorageError", "ServerError"},
         \A c \in cs : conn[c].pc \in {"open", "send", "blocked", "sent"},
         conn' = [c \in Conns |-> IF c \in cs THEN Resolved(conn[c], Error(code)) ELSE conn[c]],
         store' = store, answered' = answered
  PROVE  Service!Next
<1>1. Calls = [c \in Conns |-> CallOf(conn[c])] /\ Calls' = [c \in Conns |-> CallOf(conn'[c])]
  BY ZenonT(60) DEF Calls, CallOf
<1>2. \A c \in cs : /\ Calls[c].at = "pending"
                    /\ Calls[c].n = conn[c].count /\ Calls[c].req = conn[c].req
  <2> SUFFICES ASSUME NEW c \in cs
               PROVE  /\ Calls[c].at = "pending"
                      /\ Calls[c].n = conn[c].count /\ Calls[c].req = conn[c].req
    OBVIOUS
  <2>1. conn[c].pc \in {"read", "write", "open", "send", "blocked", "sent"} /\ c \in Conns
    BY ZenonT(60)
  <2>2. Calls[c] = CallOf(conn[c])
    BY ZenonT(60), <1>1, <2>1
  <2> QED
    BY ZenonT(60), <2>1, <2>2, CallFields
<1>3. ASSUME NEW c \in Conns
      PROVE  Calls'[c] = IF c \in cs THEN Service!Done(Calls[c].n, Calls[c].req, Service!Error(code))
                         ELSE Calls[c]
  <2>1. CASE c \in cs
    <3> DEFINE x == Resolved(conn[c], Error(code))
    <3>1. x.pc = "reply" /\ x.count = conn[c].count /\ x.req = conn[c].req /\ x.result = Error(code)
      BY ZenonT(60) DEF Resolved
    <3>2. conn'[c] = x
      BY ZenonT(60), <2>1
    <3> HIDE DEF x
    <3>3. Calls'[c] = [at |-> "done", n |-> conn[c].count, req |-> conn[c].req, result |-> Error(code)]
      <4>1. Calls'[c] = CallOf(x)
        BY Zenon, <1>1, <3>2
      <4>2. CallOf(x) = [at |-> "done", n |-> x.count, req |-> x.req, result |-> x.result]
        BY ZenonT(60), <3>1, CallAt
      <4> QED
        BY Zenon, <3>1, <4>1, <4>2
    <3> QED
      BY ZenonT(60), <1>2, <2>1, <3>3 DEF Service!Done, Service!Error, Error
  <2>2. CASE c \notin cs
    BY Zenon, <1>1, <2>2
  <2> QED
    BY ZenonT(60), <2>1, <2>2
<1>4. Calls' = [c \in Conns |-> IF c \in cs
                                THEN Service!Done(Calls[c].n, Calls[c].req, Service!Error(code))
                                ELSE Calls[c]]
  BY Zenon, <1>1, <1>3
<1>6. Told' = Told
  BY ZenonT(60) DEF Told
<1>7. Service!Fail(cs, code)
  BY ZenonT(60), <1>2, <1>4, <1>6 DEF Service!Fail
<1> QED
  BY ZenonT(60), <1>7 DEF Service!Next

\* The same of one task.
LEMMA OneFails ==
  ASSUME BrokerInv, NEW c \in Conns, NEW code \in {"StorageError", "ServerError"},
         conn[c].pc \in {"open", "send", "blocked", "sent"},
         conn' = [conn EXCEPT ![c] = Resolved(conn[c], Error(code))],
         store' = store, answered' = answered
  PROVE  Service!Next
<1> DEFINE x == Resolved(conn[c], Error(code))
<1>1. conn = [d \in Conns |-> conn[d]]
  BY ZenonT(60), InvSplit DEF AllFit
<1> HIDE DEF x
<1>2. conn' = [conn EXCEPT ![c] = x]
  BY ZenonT(60) DEF x
<1>3. conn' = [d \in Conns |-> IF d \in {c} THEN x ELSE conn[d]]
  BY ZenonT(60), <1>1, <1>2
<1>4. conn' = [d \in Conns |-> IF d \in {c} THEN Resolved(conn[d], Error(code)) ELSE conn[d]]
  BY ZenonT(60), <1>3 DEF x
<1>5. {c} \in SUBSET Conns /\ \A d \in {c} : conn[d].pc \in {"open", "send", "blocked", "sent"}
  BY ZenonT(60)
<1> QED
  BY ZenonT(60), <1>4, <1>5, FailsSeen

-----------------------------------------------------------------------------
\* The steps of a connection's task.

\* A request is read from the connection.
LEMMA TakeInvokes ==
  ASSUME BrokerInv, NEW c \in Conns, NEW r \in Requests, Take(c, r)
  PROVE  Service!Next
<1> DEFINE x == [pc |-> "read", count |-> conn[c].count + 1, req |-> r, floor |-> AckedEnd(r.part)]
<1>1. conn[c].pc = "idle" /\ conn' = [conn EXCEPT ![c] = x] /\ store' = store /\ answered' = answered
  BY ZenonT(60) DEF Take, At
<1>2. x.pc = "read" /\ x.count = conn[c].count + 1 /\ x.req = r
  BY ZenonT(60)
<1> HIDE DEF x
<1>4. CallOf(x) = [at |-> "pending", n |-> conn[c].count + 1, req |-> r]
  BY ZenonT(60), <1>2, CallAt
<1>5. Calls[c] = CallOf(conn[c]) /\ Calls' = [Calls EXCEPT ![c] = CallOf(x)]
  BY ZenonT(60), <1>1, OneCallMoves
<1>6. Calls[c].at = "idle" /\ Calls[c].n = conn[c].count
  BY ZenonT(60), <1>1, <1>5, CallFields
<1>7. Calls' = [Calls EXCEPT ![c] = Service!Pending(Calls[c].n + 1, r)]
  BY ZenonT(60), <1>4, <1>5, <1>6 DEF Service!Pending
<1>8. Told' = Told
  BY ZenonT(60), <1>1 DEF Told
<1>9. Service!Invoke(c, r)
  BY ZenonT(60), <1>1, <1>6, <1>7, <1>8 DEF Service!Invoke
<1> QED
  BY ZenonT(60), <1>9 DEF Service!Next

\* A connection without a request opens or closes.
LEMMA RestUnseen ==
  ASSUME BrokerInv, NEW c \in Conns, Accept(c) \/ Hangup(c)
  PROVE  UNCHANGED Service!vars
<1>1. conn[c].pc \in {"new", "idle", "closed"} /\ store' = store /\ answered' = answered
  BY ZenonT(60) DEF Accept, Hangup, At
<1>2. PICK x : /\ conn' = [conn EXCEPT ![c] = x]
               /\ x.pc \in {"new", "idle", "closed"} /\ x.count = conn[c].count
  <2>1. CASE Accept(c)
    <3> DEFINE x == [conn[c] EXCEPT !.pc = "idle"]
    <3>1. conn' = [conn EXCEPT ![c] = x]
      BY ZenonT(60), <2>1 DEF Accept
    <3>2. conn[c] \in Resting
      BY ZenonT(60), <1>1, TaskFits, FitsKind, BrokerAssumption
    <3>3. x.pc = "idle" /\ x.count = conn[c].count
      BY ZenonT(60), <3>2 DEF Resting
    <3> HIDE DEF x
    <3> QED
      BY ZenonT(60), <3>1, <3>3
  <2>2. CASE Hangup(c)
    <3> DEFINE x == [pc |-> "closed", count |-> conn[c].count]
    <3>1. conn' = [conn EXCEPT ![c] = x] /\ x.pc = "closed" /\ x.count = conn[c].count
      BY ZenonT(60), <2>2 DEF Hangup
    <3> HIDE DEF x
    <3> QED
      BY ZenonT(60), <3>1
  <2> QED
    BY ZenonT(60), <2>1, <2>2
<1>3. CallOf(x) = CallOf(conn[c])
  BY ZenonT(60), <1>1, <1>2, CallAt
<1> QED
  BY ZenonT(60), <1>1, <1>2, <1>3, Unseen

\* The response is sent, or lost with its connection.
LEMMA RespondReturns ==
  ASSUME BrokerInv, NEW c \in Conns, Respond(c) \/ RespondFails(c)
  PROVE  Service!Next
<1>1. conn[c].pc = "reply" /\ store' = store
  BY ZenonT(60) DEF Respond, RespondFails, At
<1>2. PICK x : /\ conn' = [conn EXCEPT ![c] = x]
               /\ x.pc \in {"new", "idle", "closed"} /\ x.count = conn[c].count
  <2> DEFINE y(pc) == [pc |-> pc, count |-> conn[c].count]
  <2>1. conn' = [conn EXCEPT ![c] = y("idle")] \/ conn' = [conn EXCEPT ![c] = y("closed")]
    BY ZenonT(60) DEF Respond, RespondFails
  <2>2. \A pc \in {"idle", "closed"} :
          y(pc).pc \in {"new", "idle", "closed"} /\ y(pc).count = conn[c].count
    BY ZenonT(60)
  <2> HIDE DEF y
  <2> QED
    BY ZenonT(60), <2>1, <2>2
<1>3. CallOf(x) = [at |-> "idle", n |-> conn[c].count]
  BY ZenonT(60), <1>2, CallAt
<1>5. Calls[c] = CallOf(conn[c]) /\ Calls' = [Calls EXCEPT ![c] = CallOf(x)]
  BY ZenonT(60), <1>2, OneCallMoves
<1>6. /\ Calls[c].at = "done" /\ Calls[c].n = conn[c].count /\ Calls[c].req = conn[c].req
      /\ Calls[c].result = conn[c].result
  BY ZenonT(60), <1>1, <1>5, CallFields
<1>7. Calls' = [Calls EXCEPT ![c] = Service!Idle(Calls[c].n)]
  BY ZenonT(60), <1>3, <1>5, <1>6 DEF Service!Idle
<1>8. CASE Respond(c)
  <2> DEFINE e == [id |-> <<c, conn[c].count>>, req |-> conn[c].req, floor |-> conn[c].floor,
                   result |-> conn[c].result]
             t == [id |-> <<c, Calls[c].n>>, req |-> Calls[c].req, result |-> Calls[c].result]
             View(y) == [id |-> y.id, req |-> y.req, result |-> y.result]
  <2>1. answered' = answered \cup {e}
    BY ZenonT(60), <1>8 DEF Respond
  <2>2. View(e) = t
    BY ZenonT(60), <1>6
  <2>3. Told = {View(y) : y \in answered} /\ Told' = {View(y) : y \in answered'}
    BY ZenonT(60) DEF Told
  <2> HIDE DEF e, t, View
  <2>4. Told' = Told \cup {t}
    BY ZenonT(60), <2>1, <2>2, <2>3
  <2>5. Service!Return(c)
    BY ZenonT(60), <1>1, <1>6, <1>7, <2>4 DEF Service!Return, t
  <2> QED
    BY ZenonT(60), <2>5 DEF Service!Next
<1>9. CASE RespondFails(c)
  <2>1. Told' = Told
    BY ZenonT(60), <1>9 DEF Told, RespondFails
  <2>2. Service!Lose(c)
    BY ZenonT(60), <1>1, <1>6, <1>7, <2>1 DEF Service!Lose
  <2> QED
    BY ZenonT(60), <2>2 DEF Service!Next
<1> QED
  BY ZenonT(60), <1>8, <1>9

\* The places of a task that has a request and no result.
Pending == {"read", "write", "open", "send", "blocked", "sent"}

\* A task with a request goes from one await to the next.
LEMMA GoesOn ==
  ASSUME BrokerInv, NEW c \in Conns, NEW x, conn' = [conn EXCEPT ![c] = x],
         conn[c].pc \in Pending, x.pc \in Pending, x.count = conn[c].count, x.req = conn[c].req,
         store' = store, answered' = answered
  PROVE  UNCHANGED Service!vars
<1>1. CallOf(x) = CallOf(conn[c])
  BY ZenonT(60), CallAt DEF Pending
<1> QED
  BY ZenonT(60), <1>1, Unseen

\* The same, when only the place changes.
LEMMA PlaceChanges ==
  ASSUME BrokerInv, NEW c \in Conns, NEW q \in Pending, conn' = [conn EXCEPT ![c].pc = q],
         conn[c].pc \in Pending, store' = store, answered' = answered
  PROVE  UNCHANGED Service!vars
<1> DEFINE x == [conn[c] EXCEPT !.pc = q]
<1>1. conn' = [conn EXCEPT ![c] = x]
  BY ZenonT(60)
<1>2. ASSUME conn[c].pc \in {"read", "write", "open"}
      PROVE  x.pc = q /\ x.count = conn[c].count /\ x.req = conn[c].req
  <2>1. conn[c] \in Looking
    BY ZenonT(60), <1>2, TaskFits, FitsKind, BrokerAssumption
  <2> QED
    BY ZenonT(60), <2>1 DEF Looking
<1>3. ASSUME conn[c].pc \in {"send", "blocked", "sent"}
      PROVE  x.pc = q /\ x.count = conn[c].count /\ x.req = conn[c].req
  <2>1. conn[c] = [pc |-> conn[c].pc, count |-> conn[c].count, req |-> conn[c].req,
                   floor |-> conn[c].floor, tx |-> conn[c].tx]
    BY ZenonT(60), <1>3, TaskFits, FitsKind, BrokerAssumption
  <2> QED
    BY ZenonT(60), <2>1
<1>4. x.pc = q /\ x.count = conn[c].count /\ x.req = conn[c].req
  BY ZenonT(60), <1>2, <1>3 DEF Pending
<1> HIDE DEF x
<1> QED
  BY ZenonT(60), <1>1, <1>4, GoesOn

\* The same, when the task gets a sender.
LEMMA SenderUnseen ==
  ASSUME BrokerInv, NEW c \in Conns, NEW tx, conn' = [conn EXCEPT ![c] = HasSender(conn[c], tx)],
         conn[c].pc \in Pending, store' = store, answered' = answered
  PROVE  UNCHANGED Service!vars
<1> DEFINE x == HasSender(conn[c], tx)
<1>1. x.pc = "send" /\ x.count = conn[c].count /\ x.req = conn[c].req
  BY ZenonT(60) DEF HasSender
<1> HIDE DEF x
<1>2. x.pc \in Pending
  BY ZenonT(60), <1>1 DEF Pending
<1> QED
  BY ZenonT(60), <1>1, <1>2, GoesOn DEF x

\* A request is given its result.
LEMMA Resolves ==
  ASSUME BrokerInv, NEW c \in Conns, NEW result, conn[c].pc \in Pending,
         conn' = [conn EXCEPT ![c] = Resolved(conn[c], result)], answered' = answered
  PROVE  /\ Calls[c].at = "pending" /\ Calls[c].n = conn[c].count /\ Calls[c].req = conn[c].req
         /\ Service!Resolve(c, result)
<1> DEFINE x == Resolved(conn[c], result)
<1>1. x.pc = "reply" /\ x.count = conn[c].count /\ x.req = conn[c].req /\ x.result = result
  BY ZenonT(60) DEF Resolved
<1> HIDE DEF x
<1>2. Calls[c] = CallOf(conn[c]) /\ Calls' = [Calls EXCEPT ![c] = CallOf(x)]
  BY ZenonT(60), OneCallMoves DEF x
<1>3. Calls[c].at = "pending" /\ Calls[c].n = conn[c].count /\ Calls[c].req = conn[c].req
  BY ZenonT(60), <1>2, CallFields DEF Pending
<1>4. CallOf(x) = [at |-> "done", n |-> conn[c].count, req |-> conn[c].req, result |-> result]
  BY ZenonT(60), <1>1, CallAt
<1>5. Told' = Told
  BY ZenonT(60) DEF Told
<1> QED
  BY ZenonT(60), <1>2, <1>3, <1>4, <1>5 DEF Service!Resolve, Service!Done

\* The registry is asked for the partition's channel: a fetch that finds none is
\* told so while the partition has no record.
LEMMA ReadLockSeen ==
  ASSUME BrokerInv, NEW c \in Conns, ReadLock(c)
  PROVE  Service!Next \/ UNCHANGED Service!vars
<1>1. conn[c].pc = "read" /\ conn[c].pc \in Pending /\ store' = store /\ answered' = answered
  BY ZenonT(60) DEF ReadLock, At, Pending
<1> DEFINE r == conn[c].req
           tx == topics[r.part]
<1>2. CASE conn' = [conn EXCEPT ![c] = HasSender(conn[c], tx)]
  BY ZenonT(60), <1>1, <1>2, SenderUnseen
<1>3. CASE conn' = [conn EXCEPT ![c].pc = "write"]
  <2>1. "write" \in Pending
    BY ZenonT(60) DEF Pending
  <2> QED
    BY ZenonT(60), <1>1, <1>3, <2>1, PlaceChanges
<1>4. CASE /\ tx = None /\ r.kind = "fetch"
           /\ conn' = [conn EXCEPT ![c] = Resolved(conn[c], Error("PartitionNotFound"))]
  <2>1. r.part \in Parts
    BY ZenonT(60), <1>1, TaskFits, FitsKind, BrokerAssumption DEF Pending
  <2>2. store[r.part] = <<>>
    BY ZenonT(60), <1>4, <2>1, TaskFits DEF RegistryExact
  <2>3. /\ Calls[c].at = "pending" /\ Calls[c].req = r
        /\ Service!Resolve(c, Error("PartitionNotFound"))
    BY ZenonT(60), <1>1, <1>4, Resolves
  <2>4. Service!Read(c)
    BY ZenonT(60), <1>1, <1>4, <2>2, <2>3 DEF Service!Read, Service!Error, Error
  <2> QED
    BY ZenonT(60), <2>4 DEF Service!Next
<1> QED
  BY ZenonT(60), <1>2, <1>3, <1>4 DEF ReadLock

\* The second look under the write lock.
LEMMA WriteLockUnseen ==
  ASSUME BrokerInv, NEW c \in Conns, WriteLock(c)
  PROVE  UNCHANGED Service!vars
<1>1. conn[c].pc \in Pending /\ "open" \in Pending /\ store' = store /\ answered' = answered
  BY ZenonT(60) DEF WriteLock, At, Pending
<1>2. \/ conn' = [conn EXCEPT ![c] = HasSender(conn[c], topics[conn[c].req.part])]
      \/ conn' = [conn EXCEPT ![c].pc = "open"]
  BY ZenonT(60) DEF WriteLock
<1> QED
  BY ZenonT(60), <1>1, <1>2, SenderUnseen, PlaceChanges

\* The partition is opened and its actor spawned.
LEMMA OpenUnseen ==
  ASSUME BrokerInv, NEW c \in Conns, Open(c)
  PROVE  UNCHANGED Service!vars
<1>1. conn[c].pc \in Pending /\ store' = store /\ answered' = answered
  BY ZenonT(60) DEF Open, At, Pending
<1>2. conn' = [conn EXCEPT ![c] = HasSender(conn[c], NewChannel)]
  BY ZenonT(60) DEF Open
<1> QED
  BY ZenonT(60), <1>1, <1>2, SenderUnseen

\* The partition cannot be opened.
LEMMA OpenFailsSeen ==
  ASSUME BrokerInv, NEW c \in Conns, OpenFails(c)
  PROVE  Service!Next
<1>1. /\ conn[c].pc \in {"open", "send", "blocked", "sent"} /\ store' = store
      /\ answered' = answered /\ "StorageError" \in {"StorageError", "ServerError"}
      /\ conn' = [conn EXCEPT ![c] = Resolved(conn[c], Error("StorageError"))]
  BY ZenonT(60) DEF OpenFails, At
<1> QED
  BY ZenonT(60), <1>1, OneFails

\* The command is sent to the actor, or its channel is closed.
LEMMA SendSeen ==
  ASSUME BrokerInv, NEW c \in Conns, Send(c)
  PROVE  Service!Next \/ UNCHANGED Service!vars
<1>1. /\ conn[c].pc = "send" /\ conn[c].pc \in Pending
      /\ {"sent", "blocked"} \subseteq Pending /\ store' = store /\ answered' = answered
  BY ZenonT(60) DEF Send, At, Pending
<1>2. \/ conn' = [conn EXCEPT ![c] = Resolved(conn[c], Error("ServerError"))]
      \/ conn' = [conn EXCEPT ![c].pc = "sent"]
      \/ conn' = [conn EXCEPT ![c].pc = "blocked"]
  BY ZenonT(60) DEF Send
<1>3. /\ conn[c].pc \in {"open", "send", "blocked", "sent"}
      /\ "ServerError" \in {"StorageError", "ServerError"}
  BY ZenonT(60), <1>1
<1> QED
  BY ZenonT(60), <1>1, <1>2, <1>3, OneFails, PlaceChanges

\* A waiting sender gets a slot.
LEMMA UnblockUnseen ==
  ASSUME BrokerInv, NEW c \in Conns, Unblock(c)
  PROVE  UNCHANGED Service!vars
<1>1. conn[c].pc \in Pending /\ "sent" \in Pending /\ store' = store /\ answered' = answered
  BY ZenonT(60) DEF Unblock, At, Pending
<1>2. conn' = [conn EXCEPT ![c].pc = "sent"]
  BY ZenonT(60) DEF Unblock
<1> QED
  BY ZenonT(60), <1>1, <1>2, PlaceChanges

-----------------------------------------------------------------------------
\* The steps of an actor.

\* The command an actor receives is that of a task that waits for it, for the
\* actor's own partition.
LEMMA FirstInQueue ==
  ASSUME BrokerInv, NEW a \in DOMAIN actors, actors[a].queue # <<>>
  PROVE  LET c == Head(actors[a].queue)
         IN  /\ c \in Conns /\ conn[c].pc \in Pending
             /\ conn[c].req \in Requests /\ conn[c].req.part = actors[a].part
<1> DEFINE c == Head(actors[a].queue)
<1>1. Parts7 /\ actors \in Seq(Channel) /\ Lines(a, actors[a], conn)
  BY Taken, ZenonT(60) DEF Parts7, Plain, AllLines
<1>2. actors[a].queue \in Seq(Conns)
  BY SMTT(60), <1>1, ChannelAt
<1>3. Line(actors[a].queue, Held(conn, "sent", a))
  BY <1>1, ZenonT(60) DEF Lines
<1>4. c \in Held(conn, "sent", a)
  BY <1>2, <1>3, LineTail, ZenonT(60)
<1> HIDE DEF c
<1>5. c \in Conns /\ conn[c].pc = "sent" /\ conn[c].tx = a
  BY ZenonT(60), <1>4 DEF Held
<1>6. conn[c].pc \in {"send", "blocked", "sent"} /\ conn[c].pc \in Pending
  BY ZenonT(60), <1>5 DEF Pending
<1>7. conn[c].req.part = actors[a].part /\ Fits(c, conn[c], actors, store)
  BY ZenonT(60), <1>1, <1>5, <1>6, AtChannel, BrokerAssumption
<1>8. conn[c].req \in Requests
  BY ZenonT(60), <1>6, <1>7, FitsKind, BrokerAssumption
<1> QED
  BY ZenonT(60), <1>5, <1>6, <1>7, <1>8 DEF c

\* The actor carries out a fetch: the reply is what the log holds at that moment.
LEMMA FetchReads ==
  ASSUME BrokerInv, NEW c \in Conns, NEW p \in Parts, conn[c].pc \in Pending,
         conn[c].req \in Requests, conn[c].req.part = p, conn[c].req.kind = "fetch",
         Fetches(c, p), answered' = answered
  PROVE  Service!Next
<1> DEFINE o == conn[c].req.offset
           max == conn[c].req.max
           result == IF Found(p, o, max) THEN Got(store[p][o + 1]) ELSE Error("OffsetNotFound")
<1>1. conn' = [conn EXCEPT ![c] = Resolved(conn[c], result)] /\ store' = store
  BY ZenonT(60) DEF Fetches
<1>2. Calls[c].at = "pending" /\ Calls[c].req = conn[c].req /\ Service!Resolve(c, result)
  BY ZenonT(60), <1>1, Resolves
<1>3. o \in Nat /\ max \in Nat /\ Len(store[p]) \in Nat
  <2>1. o \in Nat /\ max \in Nat
    BY ZenonT(60), BrokerAssumption DEF BrokerAssumption
  <2>2. store[p] \in Seq(Record)
    BY ZenonT(60), InvSplit DEF Plain
  <2> QED
    BY SMTT(60), <2>1, <2>2, LenProperties
<1>4. (max > 0 /\ o < Len(store[p])) \/ max = 0 \/ o >= Len(store[p])
  <2> HIDE DEF o, max
  <2> QED
    BY SMTT(60), <1>3
<1>5. CASE max > 0 /\ o < Len(store[p])
  <2>1. result = Service!Got(store[p][o + 1])
    BY ZenonT(60), <1>5 DEF Found, Got, Service!Got
  <2> QED
    BY ZenonT(60), <1>1, <1>2, <1>5, <2>1 DEF Service!Read, Service!Next
<1>6. CASE max = 0 \/ o >= Len(store[p])
  <2>1. ~(max > 0 /\ o < Len(store[p]))
    <3> HIDE DEF o, max
    <3> QED
      BY SMTT(60), <1>3, <1>6
  <2>2. result = Service!Error("OffsetNotFound")
    BY ZenonT(60), <2>1 DEF Found, Error, Service!Error
  <2> QED
    BY ZenonT(60), <1>1, <1>2, <1>6, <2>2 DEF Service!Read, Service!Next
<1> QED
  BY ZenonT(60), <1>4, <1>5, <1>6

\* The actor carries out a write: the records are in the log from then on, all
\* of them if the reply is an offset.
LEMMA AppendWrites ==
  ASSUME BrokerInv, NEW c \in Conns, NEW p \in Parts, conn[c].pc \in Pending,
         conn[c].req \in Requests, conn[c].req.part = p, conn[c].req.kind # "fetch",
         Appends(c, p), answered' = answered
  PROVE  Service!Next
<1> DEFINE r == conn[c].req
           size == IF r.kind = "batch" THEN BatchLen ELSE 1
<1>1. Size(r) = size
  BY ZenonT(60) DEF Size
<1>2. PICK k \in 0 .. size :
        /\ store' = [store EXCEPT ![p] = store[p] \o Payloads(c, k)]
        /\ conn' = [conn EXCEPT ![c] = Resolved(conn[c], Verdict(c, p, k))]
  BY ZenonT(60), <1>1 DEF Appends
<1> DEFINE result == Verdict(c, p, k)
<1>3. result = IF k = size THEN Service!Wrote(Len(store[p])) ELSE Service!Error("MessageTooLarge")
  BY ZenonT(60), <1>1 DEF Verdict, FirstOffset, Wrote, Error, Service!Wrote, Service!Error
<1> HIDE DEF result
<1>4. /\ Calls[c].at = "pending" /\ Calls[c].n = conn[c].count /\ Calls[c].req = r
      /\ Service!Resolve(c, result)
  BY ZenonT(60), <1>2, Resolves DEF result
<1>5. size \in Nat /\ size <= BatchLen
  BY SMTT(60), BrokerAssumption DEF BrokerAssumption
<1> HIDE DEF size
<1>6. k \in 0 .. BatchLen /\ k <= size
  BY SMTT(60), <1>5, BrokerAssumption DEF BrokerAssumption
<1>7. store' = [store EXCEPT ![r.part] = store[r.part] \o [i \in 1 .. k |-> <<c, Calls[c].n, i>>]]
  BY ZenonT(60), <1>2, <1>4 DEF Payloads
<1>8. Service!Write(c, k)
  <2> DEFINE q == Calls[c].req
             s == IF q.kind = "batch" THEN BatchLen ELSE 1
  <2>1. q = r /\ s = size
    BY ZenonT(60), <1>4 DEF size
  <2> HIDE DEF s
  <2>2. Service!Resolve(c, IF k = s THEN Service!Wrote(Len(store[q.part]))
                           ELSE Service!Error("MessageTooLarge"))
    BY ZenonT(60), <1>3, <1>4, <2>1
  <2>3. q.kind # "fetch" /\ k <= s
    BY ZenonT(60), <1>6, <2>1
  <2>4. store' = [store EXCEPT ![q.part] = store[q.part] \o [i \in 1 .. k |-> <<c, Calls[c].n, i>>]]
    BY ZenonT(60), <1>7, <2>1
  <2> QED
    BY ZenonT(60), <1>4, <2>2, <2>3, <2>4 DEF Service!Write, s
<1> QED
  BY ZenonT(60), <1>6, <1>8 DEF Service!Next

\* The actor handles a command.
LEMMA HandleSeen ==
  ASSUME BrokerInv, NEW a \in DOMAIN actors, Handle(a)
  PROVE  Service!Next
<1> DEFINE c == Head(actors[a].queue)
           p == actors[a].part
<1>1. actors[a].queue # <<>> /\ answered' = answered
  BY ZenonT(60) DEF Handle, Runs
<1>2. c \in Conns /\ conn[c].pc \in Pending /\ conn[c].req \in Requests /\ conn[c].req.part = p
  BY ZenonT(60), <1>1, FirstInQueue
<1>3. p \in Parts
  <2>1. actors \in Seq(Channel)
    BY ZenonT(60), InvSplit DEF Plain
  <2> QED
    BY ZenonT(60), <2>1, ChannelAt
<1>4. \/ conn[c].req.kind = "fetch" /\ Fetches(c, p)
      \/ conn[c].req.kind # "fetch" /\ Appends(c, p)
  BY ZenonT(60) DEF Handle
<1> HIDE DEF c, p
<1> QED
  BY ZenonT(60), <1>1, <1>2, <1>3, <1>4, FetchReads, AppendWrites

\* The actor dies: the requests in its channel and in line for it fail, and none
\* of them has written anything.
LEMMA PanicSeen ==
  ASSUME BrokerInv, NEW a \in DOMAIN actors, Panic(a)
  PROVE  Service!Next
<1> DEFINE D == Dropped(a)
<1>1. /\ conn' = [c \in Conns |-> IF c \in D THEN Resolved(conn[c], Error("ServerError")) ELSE conn[c]]
      /\ store' = store /\ answered' = answered
  BY ZenonT(60) DEF Panic
<1>2. Lines(a, actors[a], conn)
  BY Taken, ZenonT(60) DEF Parts7, AllLines
<1>3. D = Held(conn, "sent", a) \cup Held(conn, "blocked", a)
  BY <1>2, ZenonT(60) DEF Dropped, Lines, Line
<1> HIDE DEF D
<1>4. D \in SUBSET Conns /\ \A c \in D : conn[c].pc \in {"open", "send", "blocked", "sent"}
  BY ZenonT(60), <1>3 DEF Held
<1>5. "ServerError" \in {"StorageError", "ServerError"}
  BY ZenonT(60)
<1> QED
  BY ZenonT(60), <1>1, <1>4, <1>5, FailsSeen

-----------------------------------------------------------------------------
\* Every step of the broker is a step of LogService, or is not seen.
LEMMA EveryStepServes ==
  ASSUME BrokerInv, [Next]_vars
  PROVE  [Service!Next]_(Service!vars)
<1>1. ASSUME NEW c \in Conns, Accept(c) \/ Hangup(c) PROVE UNCHANGED Service!vars
  BY ZenonT(60), <1>1, RestUnseen
<1>2. ASSUME NEW c \in Conns, Serve(c) PROVE Service!Next \/ UNCHANGED Service!vars
  BY ZenonT(60), <1>2, ReadLockSeen, WriteLockUnseen, OpenUnseen, OpenFailsSeen, SendSeen,
     UnblockUnseen, RespondReturns DEF Serve
<1>3. ASSUME NEW c \in Conns, NEW r \in Requests, Take(c, r) PROVE Service!Next
  BY ZenonT(60), <1>3, TakeInvokes
<1>4. ASSUME NEW a \in DOMAIN actors, Handle(a) \/ Panic(a) PROVE Service!Next
  BY ZenonT(60), <1>4, HandleSeen, PanicSeen
<1>5. CASE Shutdown \/ UNCHANGED vars
  <2>1. conn' = conn /\ store' = store /\ answered' = answered
    BY ZenonT(60), <1>5 DEF Shutdown, vars
  <2> QED
    BY ZenonT(60), <2>1 DEF Service!vars, Calls, CallOf, Told
<1> QED
  BY ZenonT(60), <1>1, <1>2, <1>3, <1>4, <1>5 DEF Next

\* A broker that starts is a service that starts.
LEMMA StartsEmpty ==
  ASSUME Init
  PROVE  Service!Init
<1>1. /\ conn = [c \in Conns |-> [pc |-> "new", count |-> 0]]
      /\ store = [p \in Parts |-> <<>>] /\ answered = {}
  BY ZenonT(60) DEF Init
<1>2. \A c \in Conns : CallOf(conn[c]) = [at |-> "idle", n |-> 0]
  <2> SUFFICES ASSUME NEW c \in Conns PROVE CallOf(conn[c]) = [at |-> "idle", n |-> 0]
    OBVIOUS
  <2> DEFINE x == [pc |-> "new", count |-> 0]
  <2>1. x.pc = "new" /\ x.count = 0
    BY ZenonT(60)
  <2>2. conn[c] = x
    BY ZenonT(60), <1>1
  <2> HIDE DEF x
  <2> QED
    BY ZenonT(60), <2>1, <2>2, CallAt
<1>3. Calls = [c \in Conns |-> Service!Idle(0)]
  BY ZenonT(60), <1>2 DEF Calls, Service!Idle
<1>4. Told = {}
  BY ZenonT(60), <1>1 DEF Told
<1> QED
  BY ZenonT(60), <1>1, <1>3, <1>4 DEF Service!Init

\* The broker (connection.rs, handler.rs, topic.rs) implements one atomic log per
\* partition, for any number of connections, partitions and requests, whatever
\* the capacity of the channels and however many actors panic: every request
\* takes effect at one moment between its arrival and its response.
THEOREM ImplementsLogService == Spec => ServesAtomically
<1>1. Init => Service!Init
  BY ZenonT(60), StartsEmpty
<1>2. BrokerInv /\ [Next]_vars => [Service!Next]_(Service!vars)
  BY ZenonT(60), EveryStepServes
<1> QED
  BY <1>1, <1>2, BrokerInvariance, PTL DEF Spec, ServesAtomically, Service!Spec
=============================================================================
