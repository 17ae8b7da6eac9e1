----------------------------- MODULE BrokerProofs -----------------------------
(***************************************************************************)
(* The safety properties of Broker, for any number of connections and       *)
(* partitions, any capacity of the channels and any requests.               *)
(***************************************************************************)
EXTENDS Broker, SequenceTheorems, WellFoundedInduction, TLAPS

-----------------------------------------------------------------------------
\* Lines of waiting tasks.

\* Members of a line stand at its positions.
LEMMA RangeOf ==
  ASSUME NEW s \in Seq(Conns)
  PROVE  /\ Len(s) \in Nat /\ DOMAIN s = 1 .. Len(s)
         /\ Range(s) = {s[i] : i \in 1 .. Len(s)}
  BY Zenon, LenProperties DEF Range

\* A task that was not in a line joins it at the end.
LEMMA LineAppend ==
  ASSUME NEW s \in Seq(Conns), NEW cs, Line(s, cs), NEW c \in Conns, c \notin cs
  PROVE  Append(s, c) \in Seq(Conns) /\ Line(Append(s, c), cs \cup {c})
<1> DEFINE t == Append(s, c)
<1>1. /\ t \in Seq(Conns) /\ Len(t) = Len(s) + 1 /\ t[Len(s) + 1] = c
      /\ \A i \in 1 .. Len(s) : t[i] = s[i]
  BY AppendProperties
<1>2. /\ Len(s) \in Nat /\ DOMAIN s = 1 .. Len(s) /\ DOMAIN t = 1 .. Len(s) + 1
      /\ Range(s) = {s[i] : i \in 1 .. Len(s)}
      /\ Range(t) = {t[i] : i \in 1 .. Len(s) + 1}
  BY Zenon, <1>1, RangeOf
<1> HIDE DEF t
<1>3. Range(s) = cs /\ IsInjective(s)
  BY Zenon DEF Line
<1>4. Range(t) = cs \cup {c}
  BY <1>1, <1>2, <1>3
<1>5. IsInjective(t)
  <2> SUFFICES ASSUME NEW i \in 1 .. Len(s) + 1, NEW j \in 1 .. Len(s) + 1, t[i] = t[j]
               PROVE  i = j
    BY Zenon, <1>2 DEF IsInjective
  <2>1. \A k \in 1 .. Len(s) : t[k] = s[k] /\ s[k] # c
    BY Zenon, <1>1, <1>2, <1>3
  <2>2. CASE i \in 1 .. Len(s) /\ j \in 1 .. Len(s)
    BY Zenon, <2>1, <2>2, <1>2, <1>3 DEF IsInjective
  <2>3. CASE i = Len(s) + 1 \/ j = Len(s) + 1
    BY <2>1, <2>3, <1>1, <1>2
  <2> QED
    BY <2>2, <2>3, <1>2
<1> QED
  BY Zenon, <1>1, <1>4, <1>5 DEF Line, t

\* The first in a line leaves it.
LEMMA LineTail ==
  ASSUME NEW s \in Seq(Conns), NEW cs, Line(s, cs), s # <<>>
  PROVE  /\ Head(s) \in cs /\ Head(s) \in Conns
         /\ Tail(s) \in Seq(Conns) /\ Line(Tail(s), cs \ {Head(s)})
         /\ Len(Tail(s)) = Len(s) - 1
<1> DEFINE t == Tail(s)
<1>1. /\ t \in Seq(Conns) /\ Len(t) = Len(s) - 1 /\ Head(s) = s[1] /\ Len(s) \in Nat \ {0}
      /\ \A i \in 1 .. Len(t) : t[i] = s[i + 1]
  BY HeadTailProperties, EmptySeq
<1>2. /\ DOMAIN s = 1 .. Len(s) /\ DOMAIN t = 1 .. Len(s) - 1
      /\ Range(s) = {s[i] : i \in 1 .. Len(s)}
      /\ Range(t) = {t[i] : i \in 1 .. Len(s) - 1}
  BY Zenon, <1>1, RangeOf
<1> HIDE DEF t
<1>3. Range(s) = cs /\ IsInjective(s)
  BY Zenon DEF Line
<1>4. \A i, j \in 1 .. Len(s) : s[i] = s[j] => i = j
  BY Zenon, <1>2, <1>3 DEF IsInjective
<1>5. Range(t) = cs \ {s[1]}
  <2>1. ASSUME NEW x \in Range(t) PROVE x \in cs /\ x # s[1]
    <3>1. PICK i \in 1 .. Len(s) - 1 : x = s[i + 1]
      BY ZenonT(60), <1>1, <1>2, <2>1
    <3>2. i + 1 \in 1 .. Len(s) /\ 1 \in 1 .. Len(s) /\ i + 1 # 1
      BY <1>1
    <3> QED
      BY Zenon, <3>1, <3>2, <1>2, <1>3, <1>4
  <2>2. ASSUME NEW x \in cs, x # s[1] PROVE x \in Range(t)
    <3>1. PICK i \in 1 .. Len(s) : x = s[i]
      BY Zenon, <1>2, <1>3
    <3>2. i - 1 \in 1 .. Len(s) - 1 /\ (i - 1) + 1 = i
      BY <1>1, <2>2, <3>1
    <3>3. t[i - 1] = s[i]
      BY Zenon, <1>1, <3>2
    <3> QED
      BY Zenon, <1>2, <3>1, <3>2, <3>3
  <2> QED
    BY Zenon, <2>1, <2>2
<1>6. IsInjective(t)
  <2> SUFFICES ASSUME NEW i \in 1 .. Len(s) - 1, NEW j \in 1 .. Len(s) - 1, t[i] = t[j]
               PROVE  i = j
    BY Zenon, <1>2 DEF IsInjective
  <2>1. i + 1 \in 1 .. Len(s) /\ j + 1 \in 1 .. Len(s) /\ s[i + 1] = s[j + 1]
    BY <1>1
  <2>2. i + 1 = j + 1
    BY Zenon, <1>4, <2>1
  <2> QED
    BY <1>1, <2>2
<1>7. s[1] \in cs /\ s[1] \in Conns
  BY <1>1, <1>2, <1>3, ElementOfSeq
<1> QED
  BY Zenon, <1>1, <1>5, <1>6, <1>7 DEF Line, t

\* An empty line.
LEMMA LineEmpty == <<>> \in Seq(Conns) /\ Line(<<>>, {}) /\ Len(<<>>) = 0
  BY DEF Line, IsInjective, Range

\* A line with somebody in it is not empty.
LEMMA LineSomebody ==
  ASSUME NEW s \in Seq(Conns), NEW cs, Line(s, cs), NEW c \in cs
  PROVE  s # <<>>
  BY RangeOf DEF Line

\* Two lines without a common member, one behind the other.
LEMMA LineConcat ==
  ASSUME NEW s \in Seq(Conns), NEW t \in Seq(Conns), NEW cs, NEW ct,
         Line(s, cs), Line(t, ct), cs \cap ct = {}
  PROVE  IsInjective(s \o t)
<1> DEFINE u == s \o t
<1>1. /\ Len(s) \in Nat /\ Len(t) \in Nat /\ DOMAIN s = 1 .. Len(s) /\ DOMAIN t = 1 .. Len(t)
      /\ cs = {s[i] : i \in 1 .. Len(s)} /\ ct = {t[i] : i \in 1 .. Len(t)}
  BY Zenon, RangeOf DEF Line
<1>2. /\ u \in Seq(Conns) /\ Len(u) = Len(s) + Len(t)
      /\ \A i \in 1 .. Len(s) + Len(t) : u[i] = IF i <= Len(s) THEN s[i] ELSE t[i - Len(s)]
  BY ZenonT(60), ConcatProperties
<1>3. DOMAIN u = 1 .. Len(s) + Len(t)
  BY Zenon, <1>2, RangeOf
<1>4. /\ \A i, j \in 1 .. Len(s) : s[i] = s[j] => i = j
      /\ \A i, j \in 1 .. Len(t) : t[i] = t[j] => i = j
      /\ \A i \in 1 .. Len(s), j \in 1 .. Len(t) : s[i] # t[j]
  <2>1. /\ \A i, j \in 1 .. Len(s) : s[i] = s[j] => i = j
        /\ \A i, j \in 1 .. Len(t) : t[i] = t[j] => i = j
    BY <1>1, Zenon DEF Line, IsInjective
  <2>2. ASSUME NEW i \in 1 .. Len(s), NEW j \in 1 .. Len(t), s[i] = t[j] PROVE FALSE
    <3>1. s[i] \in cs /\ t[j] \in ct
      BY <1>1, <2>2, Zenon
    <3> QED
      BY <3>1, <2>2, Zenon
  <2> QED
    BY <2>1, <2>2, Zenon
<1> HIDE DEF u
<1> SUFFICES ASSUME NEW i \in DOMAIN u, NEW j \in DOMAIN u, u[i] = u[j] PROVE i = j
  BY Zenon DEF IsInjective, u
<1>5. i \in 1 .. Len(s) + Len(t) /\ j \in 1 .. Len(s) + Len(t)
  BY Zenon, <1>3
<1>6. CASE i <= Len(s) /\ j <= Len(s)
  BY <1>1, <1>2, <1>4, <1>5, <1>6
<1>7. CASE i <= Len(s) /\ ~(j <= Len(s))
  <2>1. i \in 1 .. Len(s) /\ j - Len(s) \in 1 .. Len(t) /\ u[i] = s[i] /\ u[j] = t[j - Len(s)]
    BY <1>1, <1>2, <1>5, <1>7
  <2> QED
    BY Zenon, <1>4, <2>1
<1>8. CASE ~(i <= Len(s)) /\ j <= Len(s)
  <2>1. j \in 1 .. Len(s) /\ i - Len(s) \in 1 .. Len(t) /\ u[j] = s[j] /\ u[i] = t[i - Len(s)]
    BY <1>1, <1>2, <1>5, <1>8
  <2> QED
    BY Zenon, <1>4, <2>1
<1>9. CASE ~(i <= Len(s)) /\ ~(j <= Len(s))
  <2>1. /\ i - Len(s) \in 1 .. Len(t) /\ j - Len(s) \in 1 .. Len(t)
        /\ u[i] = t[i - Len(s)] /\ u[j] = t[j - Len(s)]
    BY <1>1, <1>2, <1>5, <1>9
  <2>2. i - Len(s) = j - Len(s)
    BY Zenon, <1>4, <2>1
  <2> QED
    BY <1>1, <1>5, <2>2
<1> QED
  BY Zenon, <1>6, <1>7, <1>8, <1>9

\* The lines of a channel have no member twice, and nobody is in both.
LEMMA LineSplit ==
  ASSUME NEW s \in Seq(Conns), NEW t \in Seq(Conns), IsInjective(s \o t)
  PROVE  IsInjective(s) /\ IsInjective(t)
<1> DEFINE u == s \o t
<1>1. /\ Len(s) \in Nat /\ Len(t) \in Nat /\ DOMAIN s = 1 .. Len(s) /\ DOMAIN t = 1 .. Len(t)
  BY Zenon, RangeOf
<1>2. /\ u \in Seq(Conns) /\ Len(u) = Len(s) + Len(t)
      /\ \A i \in 1 .. Len(s) + Len(t) : u[i] = IF i <= Len(s) THEN s[i] ELSE t[i - Len(s)]
  BY Zenon, ConcatProperties
<1>3. DOMAIN u = 1 .. Len(s) + Len(t)
  BY Zenon, <1>2, RangeOf
<1>4. \A i, j \in 1 .. Len(s) + Len(t) : u[i] = u[j] => i = j
  BY Zenon, <1>3 DEF IsInjective
<1> HIDE DEF u
<1>5. ASSUME NEW i \in 1 .. Len(s), NEW j \in 1 .. Len(s), s[i] = s[j] PROVE i = j
  BY SMTT(60), <1>1, <1>2, <1>4, <1>5
<1>6. ASSUME NEW i \in 1 .. Len(t), NEW j \in 1 .. Len(t), t[i] = t[j] PROVE i = j
  <2>1. /\ Len(s) + i \in 1 .. Len(s) + Len(t) /\ Len(s) + j \in 1 .. Len(s) + Len(t)
        /\ u[Len(s) + i] = t[i] /\ u[Len(s) + j] = t[j]
    <3>1. /\ Len(s) + i \in 1 .. Len(s) + Len(t) /\ Len(s) + j \in 1 .. Len(s) + Len(t)
          /\ ~(Len(s) + i <= Len(s)) /\ ~(Len(s) + j <= Len(s))
          /\ (Len(s) + i) - Len(s) = i /\ (Len(s) + j) - Len(s) = j
      BY <1>1
    <3> QED
      BY Zenon, <1>2, <3>1
  <2>2. Len(s) + i = Len(s) + j
    BY Zenon, <1>4, <1>6, <2>1
  <2> QED
    BY <1>1, <2>2
<1> QED
  BY Zenon, <1>1, <1>5, <1>6 DEF IsInjective
-----------------------------------------------------------------------------
\* Maxima of sets of naturals.

\* A set of naturals that is not empty has a least member.
LEMMA LeastNat ==
  ASSUME NEW T, T \subseteq Nat, T # {}
  PROVE  \E x \in T : \A y \in T : x <= y
<1> DEFINE R == OpToRel(<, Nat)
<1>1. IsWellFoundedOn(R, Nat)
  BY Zenon, NatLessThanWellFounded
<1> HIDE DEF R
<1>2. PICK x \in T : \A y \in T : ~ (<<y, x>> \in R)
  BY <1>1, WFMin, Zenon
<1>3. \A y \in T : ~(y < x)
  BY Zenon, <1>2 DEF R, OpToRel
<1> QED
  BY <1>2, <1>3

\* A bounded set of naturals that is not empty has a maximum.
LEMMA MaxBounded ==
  ASSUME NEW n \in Nat, NEW T, T \subseteq 0 .. n, T # {}
  PROVE  Max(T) \in T /\ Max(T) \in Nat /\ Max(T) <= n
<1> DEFINE U == {n - y : y \in T}
<1>1. U \subseteq Nat /\ U # {}
  OBVIOUS
<1>2. PICK u \in U : \A y \in U : u <= y
  BY Zenon, <1>1, LeastNat
<1>3. PICK x \in T : u = n - x
  BY Zenon, <1>2
<1>4. ASSUME NEW y \in T PROVE x >= y
  <2>1. n - x <= n - y
    BY Zenon, <1>2, <1>3
  <2> QED
    BY <2>1
<1>5. Max(T) \in T
  BY <1>3, <1>4, Zenon DEF Max
<1>6. Max(T) \in 0 .. n
  BY <1>5, Zenon
<1> QED
  BY <1>5, <1>6

\* The log of p reaches as far as any client was told.
LEMMA AckedEndBounded ==
  ASSUME TypeOK, AckedAtOffset, BrokerAssumption, NEW p \in Parts
  PROVE  AckedEnd(p) \in Nat /\ AckedEnd(p) <= Len(store[p])
<1> DEFINE X == {x \in answered : x.req.part = p /\ x.result.is = "wrote"}
           T == {0} \cup {a.result.offset + Size(a.req) : a \in X}
<1>1. Len(store[p]) \in Nat
  BY Zenon, LenProperties DEF TypeOK
<1>2. ASSUME NEW a \in X PROVE a.result.offset + Size(a.req) \in 0 .. Len(store[p])
  <2>1. a \in answered /\ a.req.part = p /\ a.result.is = "wrote" /\ a.result.offset \in Nat
    BY Zenon DEF TypeOK, Result
  <2>2. Size(a.req) \in Nat \ {0}
    BY DEF Size, BrokerAssumption
  <2>3. a.result.offset + Size(a.req) <= Len(store[p])
    <3>1. AckedAt(a.id, a.req, a.result)
      BY <2>1, Zenon DEF AckedAtOffset
    <3>2. \A i \in 1 .. Size(a.req) : a.result.offset + i <= Len(store[p])
      BY <2>1, <3>1, Zenon DEF AckedAt
    <3>3. Size(a.req) \in 1 .. Size(a.req)
      BY <2>2
    <3> QED
      BY <3>2, <3>3, Zenon
  <2> QED
    BY <1>1, <2>1, <2>2, <2>3
<1>3. T \subseteq 0 .. Len(store[p]) /\ T # {}
  <2>1. 0 \in 0 .. Len(store[p])
    BY <1>1
  <2> HIDE DEF X
  <2> QED
    BY <1>2, <2>1, Zenon
<1>4. AckedEnd(p) = Max(T)
  BY Zenon DEF AckedEnd
<1> HIDE DEF T
<1> QED
  BY ZenonT(60), <1>1, <1>3, <1>4, MaxBounded

-----------------------------------------------------------------------------
\* The invariant, said connection by connection and channel by channel.

\* The records of a request are in the partitions `st' where `result' says.
AckedIn(id, req, result, st) ==
  result.is = "wrote" =>
    \A i \in 1 .. Size(req) :
      /\ result.offset + i <= Len(st[req.part])
      /\ st[req.part][result.offset + i] = id \o <<i>>

\* What connection c may be, beside channels `acts' and partitions `st'.
Fits(c, x, acts, st) ==
  /\ x \in Resting \cup Looking \cup Replying \cup
         [pc : {"send", "blocked", "sent"}, count : Nat, req : Requests, floor : Nat,
          tx : DOMAIN acts]
  /\ x.pc \in {"send", "blocked", "sent"} => acts[x.tx].part = x.req.part
  /\ x.pc \notin {"new", "idle", "closed"} => x.floor <= Len(st[x.req.part])
  /\ x.pc = "reply" => /\ AckedIn(<<c, x.count>>, x.req, x.result, st)
                       /\ InRealTime(x.req, x.floor, x.result)

AllFit == conn = [c \in Conns |-> conn[c]] /\ \A c \in Conns : Fits(c, conn[c], actors, store)

Channel == [part : Parts, alive : BOOLEAN, queue : Seq(Conns), waiting : Seq(Conns)]
Record == Conns \X Nat \X Nat
Answer == [id : Conns \X Nat, req : Requests, floor : Nat, result : Result]

Plain ==
  /\ phase \in {"up", "exited"} /\ actors \in Seq(Channel)
  /\ topics \in [Parts -> DOMAIN actors \cup {None}]
  /\ lockq \in Seq(Conns) /\ writer \in Conns \cup {None}
  /\ store \in [Parts -> Seq(Record)] /\ answered \subseteq Answer

\* The tasks in the channel a, or in line for it.
Held(cn, pc, a) == {c \in Conns : cn[c].pc = pc /\ cn[c].tx = a}

Lines(a, ac, cn) ==
  /\ Len(ac.queue) <= Capacity
  /\ Line(ac.queue, Held(cn, "sent", a)) /\ Line(ac.waiting, Held(cn, "blocked", a))

AllLines == \A a \in DOMAIN actors : Lines(a, actors[a], conn)

\* A member of Seq(Channel) at a position.
LEMMA ChannelAt ==
  ASSUME NEW acts \in Seq(Channel), NEW a \in DOMAIN acts
  PROVE  /\ acts[a] \in Channel
         /\ acts[a].part \in Parts /\ acts[a].alive \in BOOLEAN
         /\ acts[a].queue \in Seq(Conns) /\ acts[a].waiting \in Seq(Conns)
<1>1. acts[a] \in Channel
  BY Zenon, ElementOfSeq, LenProperties
<1> QED
  BY Zenon, <1>1 DEF Channel

\* The properties of the channels in terms of their two lines.
LEMMA LinesAreBounded ==
  ASSUME NEW acts \in Seq(Channel), NEW a \in DOMAIN acts, NEW cn
  PROVE  (/\ Len(acts[a].queue) <= Capacity
          /\ IsInjective(acts[a].queue \o acts[a].waiting)
          /\ Range(acts[a].queue) = {c \in Conns : cn[c].pc = "sent" /\ cn[c].tx = a}
          /\ Range(acts[a].waiting) = {c \in Conns : cn[c].pc = "blocked" /\ cn[c].tx = a})
         <=> Lines(a, acts[a], cn)
<1>1. acts[a].queue \in Seq(Conns) /\ acts[a].waiting \in Seq(Conns)
  BY ChannelAt, Zenon
<1>2. Held(cn, "sent", a) \cap Held(cn, "blocked", a) = {}
  BY Zenon DEF Held
<1>3. /\ Held(cn, "sent", a) = {c \in Conns : cn[c].pc = "sent" /\ cn[c].tx = a}
      /\ Held(cn, "blocked", a) = {c \in Conns : cn[c].pc = "blocked" /\ cn[c].tx = a}
  BY Zenon DEF Held
<1>4. ASSUME IsInjective(acts[a].queue \o acts[a].waiting)
      PROVE  IsInjective(acts[a].queue) /\ IsInjective(acts[a].waiting)
  BY <1>1, <1>4, LineSplit, Zenon
<1>5. ASSUME Line(acts[a].queue, Held(cn, "sent", a)),
             Line(acts[a].waiting, Held(cn, "blocked", a))
      PROVE  IsInjective(acts[a].queue \o acts[a].waiting)
  BY <1>1, <1>2, <1>5, LineConcat, ZenonT(60)
<1> QED
  BY <1>3, <1>4, <1>5, ZenonT(60) DEF Lines, Line

\* BrokerInv, taken apart.
LEMMA InvSplit ==
  BrokerInv <=> /\ Plain /\ AllFit /\ AllLines /\ LockHeld /\ RegistryExact
                /\ AckedAtOffset /\ RealTimeOrder
<1>1. TypeOK /\ UnderWay <=> Plain /\ AllFit
  <2>1. TypeOK <=> /\ Plain
                   /\ conn \in [Conns -> Resting \cup Looking \cup Sending \cup Replying]
                   /\ \A c \in Conns : conn[c].pc \in {"send", "blocked", "sent"} =>
                                         actors[conn[c].tx].part = conn[c].req.part
    BY Zenon DEF TypeOK, Plain, Channel, Record, Answer
  <2>2. conn \in [Conns -> Resting \cup Looking \cup Sending \cup Replying] <=>
          /\ conn = [c \in Conns |-> conn[c]]
          /\ \A c \in Conns : conn[c] \in Resting \cup Looking \cup Sending \cup Replying
    OBVIOUS
  <2>3. ASSUME NEW c \in Conns
        PROVE  AckedAt(<<c, conn[c].count>>, conn[c].req, conn[c].result) <=>
               AckedIn(<<c, conn[c].count>>, conn[c].req, conn[c].result, store)
    BY Zenon DEF AckedAt, AckedIn
  <2>4. ASSUME NEW c \in Conns
        PROVE  conn[c] \in Resting \cup Looking \cup Sending \cup Replying <=>
               conn[c] \in Resting \cup Looking \cup Replying \cup
                 [pc : {"send", "blocked", "sent"}, count : Nat, req : Requests, floor : Nat,
                  tx : DOMAIN actors]
    BY Zenon DEF Sending
  <2> QED
    BY <2>1, <2>2, <2>3, <2>4, ZenonT(60) DEF UnderWay, AllFit, Fits, Busy
<1>2. ASSUME Plain PROVE ChannelBounded <=> AllLines
  <2>1. actors \in Seq(Channel)
    BY Zenon, <1>2 DEF Plain
  <2>2. ASSUME NEW a \in DOMAIN actors
        PROVE  (/\ Len(actors[a].queue) <= Capacity
                /\ IsInjective(actors[a].queue \o actors[a].waiting)
                /\ Range(actors[a].queue) = {c \in Conns : conn[c].pc = "sent" /\ conn[c].tx = a}
                /\ Range(actors[a].waiting) =
                     {c \in Conns : conn[c].pc = "blocked" /\ conn[c].tx = a})
               <=> Lines(a, actors[a], conn)
    BY Zenon, <2>1, LinesAreBounded
  <2> QED
    BY <2>2, Zenon DEF ChannelBounded, AllLines
<1> QED
  BY <1>1, <1>2, Zenon DEF BrokerInv

-----------------------------------------------------------------------------
\* Steps that change the channels and the partitions leave the others as they fit.

\* The fields of a connection, by the place where its task stands.
LEMMA FitsKind ==
  ASSUME BrokerAssumption, NEW c, NEW x, NEW acts, NEW st, Fits(c, x, acts, st)
  PROVE  /\ x.pc \in {"new", "idle", "closed", "read", "write", "open", "send", "blocked",
                      "sent", "reply"}
         /\ x.count \in Nat
         /\ x.pc \in {"new", "idle", "closed"} => x \in Resting
         /\ x.pc \in {"read", "write", "open"} => x \in Looking
         /\ x.pc = "reply" => x \in Replying /\ x.result \in Result
         /\ x.pc \in {"send", "blocked", "sent"} =>
              /\ x.tx \in DOMAIN acts
              /\ x = [pc |-> x.pc, count |-> x.count, req |-> x.req, floor |-> x.floor, tx |-> x.tx]
         /\ x.pc \notin {"new", "idle", "closed"} =>
              x.req \in Requests /\ x.req.part \in Parts /\ x.floor \in Nat
<1>1. \A r \in Requests : r.part \in Parts
  BY Zenon DEF BrokerAssumption
<1>2. x \in Resting \cup Looking \cup Replying \cup
         [pc : {"send", "blocked", "sent"}, count : Nat, req : Requests, floor : Nat,
          tx : DOMAIN acts]
  BY Zenon DEF Fits
<1>3. CASE x \in Resting
  BY Zenon, <1>3 DEF Resting
<1>4. CASE x \in Looking
  BY Zenon, <1>1, <1>4 DEF Looking
<1>5. CASE x \in Replying
  BY Zenon, <1>1, <1>5 DEF Replying
<1>6. CASE x \in [pc : {"send", "blocked", "sent"}, count : Nat, req : Requests, floor : Nat,
                  tx : DOMAIN acts]
  BY Zenon, <1>1, <1>6
<1> QED
  BY <1>2, <1>3, <1>4, <1>5, <1>6, ZenonT(60)

\* The partitions st2 have at least the records of st, at their offsets.
Grows(st, st2) ==
  \A p \in Parts : /\ Len(st[p]) \in Nat /\ Len(st2[p]) \in Nat /\ Len(st[p]) <= Len(st2[p])
                   /\ \A i \in 1 .. Len(st[p]) : st2[p][i] = st[p][i]

\* The channels acts2 have at least those of acts, of the same partitions.
Keeps(acts, acts2) ==
  /\ DOMAIN acts \subseteq DOMAIN acts2
  /\ \A a \in DOMAIN acts : acts2[a].part = acts[a].part

\* A record that was acknowledged stays where it is.
LEMMA AckedGrows ==
  ASSUME BrokerAssumption, NEW id, NEW r \in Requests, NEW result \in Result, NEW st, NEW st2,
         Grows(st, st2), AckedIn(id, r, result, st)
  PROVE  AckedIn(id, r, result, st2)
<1> SUFFICES ASSUME result.is = "wrote", NEW i \in 1 .. Size(r)
             PROVE  /\ result.offset + i <= Len(st2[r.part])
                    /\ st2[r.part][result.offset + i] = id \o <<i>>
  BY Zenon DEF AckedIn
<1>1. r.part \in Parts
  BY Zenon DEF BrokerAssumption
<1>2. Size(r) \in Nat /\ result.offset \in Nat
  BY Zenon DEF Size, BrokerAssumption, Result
<1>3. result.offset + i <= Len(st[r.part]) /\ st[r.part][result.offset + i] = id \o <<i>>
  BY Zenon DEF AckedIn
<1>4. /\ Len(st[r.part]) \in Nat /\ Len(st2[r.part]) \in Nat /\ Len(st[r.part]) <= Len(st2[r.part])
      /\ \A j \in 1 .. Len(st[r.part]) : st2[r.part][j] = st[r.part][j]
  BY <1>1, ZenonT(60) DEF Grows
<1>5. result.offset + i \in 1 .. Len(st[r.part])
  BY SMTT(60), <1>2, <1>3, <1>4
<1>6. st2[r.part][result.offset + i] = st[r.part][result.offset + i]
  BY <1>4, <1>5, Zenon
<1>7. result.offset + i <= Len(st2[r.part])
  <2> DEFINE x == result.offset + i
             y == Len(st[r.part])
             z == Len(st2[r.part])
  <2>1. x \in Nat
    BY SMT, <1>2
  <2>2. x <= y /\ y <= z /\ y \in Nat /\ z \in Nat
    BY Zenon, <1>3, <1>4
  <2> HIDE DEF x, y, z
  <2>3. x <= z
    BY SMT, <2>1, <2>2
  <2> QED
    BY Zenon, <2>3 DEF x, z
<1> QED
  BY Zenon, <1>3, <1>6, <1>7

\* What fits a connection still fits it when channels keep their partitions and logs grow.
LEMMA FitsGrow ==
  ASSUME BrokerAssumption, NEW c, NEW x, NEW acts, NEW acts2, NEW st, NEW st2,
         Keeps(acts, acts2), Grows(st, st2), Fits(c, x, acts, st)
  PROVE  Fits(c, x, acts2, st2)
<1>1. x \in Resting \cup Looking \cup Replying \cup
         [pc : {"send", "blocked", "sent"}, count : Nat, req : Requests, floor : Nat,
          tx : DOMAIN acts2]
  <2>1. x \in Resting \cup Looking \cup Replying \cup
           [pc : {"send", "blocked", "sent"}, count : Nat, req : Requests, floor : Nat,
            tx : DOMAIN acts]
    BY Zenon DEF Fits
  <2>2. DOMAIN acts \subseteq DOMAIN acts2
    BY Zenon DEF Keeps
  <2>3. CASE x \in Resting \cup Looking \cup Replying
    BY <2>3, Zenon
  <2>4. CASE x \in [pc : {"send", "blocked", "sent"}, count : Nat, req : Requests, floor : Nat,
                    tx : DOMAIN acts]
    <3>1. x \in [pc : {"send", "blocked", "sent"}, count : Nat, req : Requests, floor : Nat,
                 tx : DOMAIN acts2]
      BY Zenon, <2>2, <2>4
    <3> QED
      BY <3>1, Zenon
  <2> QED
    BY <2>1, <2>3, <2>4, ZenonT(60)
<1>2. ASSUME x.pc \in {"send", "blocked", "sent"} PROVE acts2[x.tx].part = x.req.part
  <2>1. x.tx \in DOMAIN acts
    BY <1>2, FitsKind, ZenonT(60)
  <2>2. acts[x.tx].part = x.req.part
    BY <1>2, ZenonT(60) DEF Fits
  <2> QED
    BY <2>1, <2>2, Zenon DEF Keeps
<1>3. ASSUME x.pc \notin {"new", "idle", "closed"} PROVE x.floor <= Len(st2[x.req.part])
  <2>1. x.req.part \in Parts /\ x.floor \in Nat
    BY <1>3, FitsKind, Zenon
  <2>2. x.floor <= Len(st[x.req.part])
    BY <1>3, Zenon DEF Fits
  <2>3. /\ Len(st[x.req.part]) \in Nat /\ Len(st2[x.req.part]) \in Nat
        /\ Len(st[x.req.part]) <= Len(st2[x.req.part])
    BY <2>1, Zenon DEF Grows
  <2> QED
    BY SMTT(60), <2>1, <2>2, <2>3
<1>4. ASSUME x.pc = "reply"
      PROVE  /\ AckedIn(<<c, x.count>>, x.req, x.result, st2)
             /\ InRealTime(x.req, x.floor, x.result)
  <2>1. x.req \in Requests /\ x.result \in Result
    BY <1>4, FitsKind, Zenon
  <2>2. /\ AckedIn(<<c, x.count>>, x.req, x.result, st)
        /\ InRealTime(x.req, x.floor, x.result)
    BY <1>4, Zenon DEF Fits
  <2> QED
    BY <2>1, <2>2, AckedGrows, ZenonT(60)
<1> QED
  BY <1>1, <1>2, <1>3, <1>4, ZenonT(60) DEF Fits

-----------------------------------------------------------------------------
\* One task takes a step.

\* No connection but c changes.
Only(c, cn, cn2) == \A d \in Conns \ {c} : cn2[d] = cn[d]

\* The lines of waiting tasks when c was not, and is not, in the place pc.
LEMMA HeldSame ==
  ASSUME NEW cn, NEW cn2, NEW c, Only(c, cn, cn2),
         NEW pc, cn[c].pc # pc, cn2[c].pc # pc, NEW a
  PROVE  Held(cn2, pc, a) = Held(cn, pc, a)
  BY Zenon DEF Held, Only

\* c is at no channel, before and after.
Apart(c, cn, cn2) ==
  /\ Only(c, cn, cn2)
  /\ cn[c].pc \notin {"blocked", "sent"} /\ cn2[c].pc \notin {"blocked", "sent"}

\* A step that leaves the holders of a channel and the channel alone keeps its line.
LEMMA ApartLines ==
  ASSUME NEW c, NEW cn, NEW cn2, Apart(c, cn, cn2), NEW a, NEW ac, Lines(a, ac, cn)
  PROVE  Lines(a, ac, cn2)
<1>1. Held(cn2, "sent", a) = Held(cn, "sent", a) /\ Held(cn2, "blocked", a) = Held(cn, "blocked", a)
  BY HeldSame DEF Apart
<1> QED
  BY <1>1, ZenonT(60) DEF Lines

\* Connection c becomes x; the others still fit.
LEMMA OneMoves ==
  ASSUME BrokerAssumption, AllFit, NEW c \in Conns, NEW x, conn' = [conn EXCEPT ![c] = x],
         Keeps(actors, actors'), Grows(store, store'), Fits(c, x, actors', store')
  PROVE  AllFit' /\ conn'[c] = x /\ Only(c, conn, conn')
<1>1. /\ conn' = [d \in Conns |-> conn'[d]]
      /\ conn'[c] = x /\ Only(c, conn, conn')
  BY Zenon DEF AllFit, Only
<1>2. ASSUME NEW d \in Conns \ {c} PROVE Fits(d, conn'[d], actors', store')
  <2>1. Fits(d, conn[d], actors, store)
    BY Zenon DEF AllFit
  <2>2. Fits(d, conn[d], actors', store')
    BY <2>1, FitsGrow, ZenonT(60)
  <2> QED
    BY <1>1, <2>2, ZenonT(60) DEF Only
<1>3. \A d \in Conns : Fits(d, conn'[d], actors', store')
  BY <1>1, <1>2, ZenonT(60)
<1> QED
  BY <1>1, <1>3, ZenonT(60) DEF AllFit

\* Nothing has changed for those who do not move.
LEMMA SameGrows ==
  ASSUME Plain
  PROVE  Grows(store, store) /\ Keeps(actors, actors)
<1>1. \A p \in Parts : Len(store[p]) \in Nat
  BY Zenon, LenProperties DEF Plain
<1> QED
  BY <1>1 DEF Grows, Keeps

\* c takes a step that touches no channel and no partition.
LEMMA Quiet ==
  ASSUME BrokerAssumption, Plain, AllFit, AllLines, RegistryExact,
         NEW c \in Conns, NEW x, conn' = [conn EXCEPT ![c] = x],
         UNCHANGED <<topics, actors, store>>, Fits(c, x, actors, store),
         conn[c].pc \notin {"blocked", "sent"}, x.pc \notin {"blocked", "sent"},
         x.pc = "open" => topics[x.req.part] = None
  PROVE  /\ AllFit' /\ AllLines' /\ RegistryExact'
         /\ conn'[c] = x /\ Only(c, conn, conn')
<1>1. actors' = actors /\ store' = store /\ topics' = topics
  OBVIOUS
<1>2. AllFit' /\ conn'[c] = x /\ Only(c, conn, conn')
  <2>1. Grows(store, store') /\ Keeps(actors, actors') /\ Fits(c, x, actors', store')
    BY <1>1, SameGrows, ZenonT(60)
  <2> QED
    BY ZenonT(60), <2>1, OneMoves
<1>3. AllLines'
  <2>1. Apart(c, conn, conn')
    BY Zenon, <1>2 DEF Apart
  <2>2. ASSUME NEW a \in DOMAIN actors PROVE Lines(a, actors[a], conn')
    <3>1. Lines(a, actors[a], conn)
      BY Zenon DEF AllLines
    <3> QED
      BY <2>1, <3>1, ApartLines, ZenonT(60)
  <2> QED
    BY <1>1, <2>2, ZenonT(60) DEF AllLines
<1>4. RegistryExact'
  <2>1. \A d \in Conns : conn'[d].pc = "open" => topics[conn'[d].req.part] = None
    BY <1>2, ZenonT(60) DEF RegistryExact, Only
  <2> QED
    BY <1>1, <2>1, ZenonT(60) DEF RegistryExact
<1> QED
  BY <1>2, <1>3, <1>4, ZenonT(60)

\* What the clients were told stays true as the partitions grow.
LEMMA AnswersKept ==
  ASSUME BrokerAssumption, Plain, AckedAtOffset, RealTimeOrder, Grows(store, store'),
         UNCHANGED answered
  PROVE  AckedAtOffset' /\ RealTimeOrder'
<1>1. ASSUME NEW a \in answered
      PROVE  AckedIn(a.id, a.req, a.result, store')
  <2>1. a.req \in Requests /\ a.result \in Result
    BY Zenon DEF Plain, Answer
  <2>2. AckedIn(a.id, a.req, a.result, store)
    BY Zenon DEF AckedAtOffset, AckedAt, AckedIn
  <2> QED
    BY <2>1, <2>2, AckedGrows, Zenon
<1>2. answered' = answered
  OBVIOUS
<1>3. AckedAtOffset'
  BY <1>1, <1>2, ZenonT(60) DEF AckedAtOffset, AckedAt, AckedIn
<1> QED
  BY <1>2, <1>3, Zenon DEF RealTimeOrder

-----------------------------------------------------------------------------
\* The registry's lock.

\* The tasks at read() or write().
AtLock(cn) == {c \in Conns : cn[c].pc \in {"read", "write"}}

\* LockHeld of given values.
Locks(q, w, cn) == Line(q, AtLock(cn)) /\ \A c \in Conns : cn[c].pc = "open" <=> w = c

\* LockHeld, with the variables it speaks of made parameters.
LEMMA LockHeldIs == LockHeld <=> Locks(lockq, writer, conn)
  BY Zenon DEF LockHeld, Locks, AtLock

\* c is at the lock neither before nor after.
LEMMA LockSame ==
  ASSUME NEW c \in Conns, NEW cn, NEW cn2, Only(c, cn, cn2), NEW q, NEW w, Locks(q, w, cn),
         cn[c].pc \notin {"read", "write", "open"}, cn2[c].pc \notin {"read", "write", "open"}
  PROVE  Locks(q, w, cn2)
<1>1. AtLock(cn2) = AtLock(cn)
  BY Zenon DEF AtLock, Only
<1>2. \A d \in Conns : cn2[d].pc = "open" <=> w = d
  BY Zenon DEF Locks, Only
<1> QED
  BY <1>1, <1>2, ZenonT(60) DEF Locks

\* c joins the line.
LEMMA LockJoin ==
  ASSUME NEW c \in Conns, NEW cn, NEW cn2, Only(c, cn, cn2), NEW q \in Seq(Conns), NEW w,
         Locks(q, w, cn),
         cn[c].pc \notin {"read", "write", "open"}, cn2[c].pc \in {"read", "write"}
  PROVE  Append(q, c) \in Seq(Conns) /\ Locks(Append(q, c), w, cn2)
<1>1. AtLock(cn2) = AtLock(cn) \cup {c} /\ c \notin AtLock(cn)
  BY Zenon DEF AtLock, Only
<1>2. \A d \in Conns : cn2[d].pc = "open" <=> w = d
  BY Zenon DEF Locks, Only
<1>3. Append(q, c) \in Seq(Conns) /\ Line(Append(q, c), AtLock(cn) \cup {c})
  <2>1. Line(q, AtLock(cn))
    BY Zenon DEF Locks
  <2> QED
    BY ZenonT(60), <1>1, <2>1, LineAppend
<1> QED
  BY <1>1, <1>2, <1>3, ZenonT(60) DEF Locks

\* c is the first in line.
LEMMA LockFirst ==
  ASSUME NEW c \in Conns, NEW cn, NEW q \in Seq(Conns), NEW w, Locks(q, w, cn),
         cn[c].pc \in {"read", "write"}, Head(q) = c
  PROVE  Tail(q) \in Seq(Conns) /\ Line(Tail(q), AtLock(cn) \ {c})
<1>1. Line(q, AtLock(cn)) /\ c \in AtLock(cn)
  BY Zenon DEF Locks, AtLock
<1>2. q # <<>>
  BY <1>1, LineSomebody, ZenonT(60)
<1> QED
  BY <1>1, <1>2, LineTail, ZenonT(60)

\* c is served and leaves the line; it may go on as the writer.
LEMMA LockLeave ==
  ASSUME NEW c \in Conns, NEW cn, NEW cn2, Only(c, cn, cn2), NEW q \in Seq(Conns),
         BrokerAssumption, Locks(q, None, cn), Head(q) = c, cn[c].pc \in {"read", "write"},
         cn2[c].pc \notin {"read", "write"}, NEW w, w = IF cn2[c].pc = "open" THEN c ELSE None
  PROVE  Tail(q) \in Seq(Conns) /\ Locks(Tail(q), w, cn2)
<1>1. AtLock(cn2) = AtLock(cn) \ {c}
  BY Zenon DEF AtLock, Only
<1>2. \A d \in Conns : cn2[d].pc = "open" <=> w = d
  <2>1. None \notin Conns
    BY ZenonT(60) DEF BrokerAssumption
  <2> QED
    BY <2>1, ZenonT(60) DEF Locks, Only
<1>3. Tail(q) \in Seq(Conns) /\ Line(Tail(q), AtLock(cn2))
  <2>1. Tail(q) \in Seq(Conns) /\ Line(Tail(q), AtLock(cn) \ {c})
    BY ZenonT(60), LockFirst
  <2> QED
    BY ZenonT(60), <1>1, <2>1
<1> QED
  BY <1>2, <1>3, ZenonT(60) DEF Locks

\* c is served and joins the line again.
LEMMA LockAgain ==
  ASSUME NEW c \in Conns, NEW cn, NEW cn2, Only(c, cn, cn2), NEW q \in Seq(Conns), NEW w,
         Locks(q, w, cn), Head(q) = c,
         cn[c].pc \in {"read", "write"}, cn2[c].pc \in {"read", "write"}
  PROVE  Append(Tail(q), c) \in Seq(Conns) /\ Locks(Append(Tail(q), c), w, cn2)
<1>1. AtLock(cn2) = (AtLock(cn) \ {c}) \cup {c}
  BY Zenon DEF AtLock, Only
<1>2. \A d \in Conns : cn2[d].pc = "open" <=> w = d
  BY Zenon DEF Locks, Only
<1>3. Tail(q) \in Seq(Conns) /\ Line(Tail(q), AtLock(cn) \ {c})
  BY ZenonT(60), LockFirst
<1>4. Append(Tail(q), c) \in Seq(Conns) /\ Line(Append(Tail(q), c), (AtLock(cn) \ {c}) \cup {c})
  <2>1. c \notin AtLock(cn) \ {c}
    OBVIOUS
  <2> QED
    BY ZenonT(60), <1>3, <2>1, LineAppend
<1> QED
  BY <1>1, <1>2, <1>4, ZenonT(60) DEF Locks

\* The writer lets go of the lock.
LEMMA LockRelease ==
  ASSUME NEW c \in Conns, NEW cn, NEW cn2, Only(c, cn, cn2), NEW q, NEW w,
         BrokerAssumption, Locks(q, w, cn), cn[c].pc = "open",
         cn2[c].pc \notin {"read", "write", "open"}
  PROVE  Locks(q, None, cn2)
<1>1. AtLock(cn2) = AtLock(cn)
  BY Zenon DEF AtLock, Only
<1>2. \A d \in Conns : cn2[d].pc # "open" /\ None # d
  <2>1. None \notin Conns /\ w = c
    BY Zenon DEF BrokerAssumption, Locks
  <2> QED
    BY Zenon, <2>1 DEF Locks, Only
<1> QED
  BY <1>1, <1>2, ZenonT(60) DEF Locks

-----------------------------------------------------------------------------
\* The steps of a connection's task outside the channels.

\* The invariant's parts, to start an action's proof from.
Parts7 ==
  /\ Plain /\ AllFit /\ AllLines /\ Locks(lockq, writer, conn) /\ RegistryExact
  /\ AckedAtOffset /\ RealTimeOrder

\* BrokerInv is the conjunction of the seven parts the step lemmas keep.
LEMMA Taken == BrokerInv <=> Parts7
  BY InvSplit, LockHeldIs, ZenonT(60) DEF Parts7

\* The same of the next state.
LEMMA TakenNext == Parts7' => BrokerInv'
  BY Taken, PTL

\* c becomes x and nothing else changes, except the lock and what was answered.
Steps(c, x) ==
  /\ conn' = [conn EXCEPT ![c] = x]
  /\ UNCHANGED <<phase, topics, actors, store>>

\* A step of one connection that touches neither the lock nor a channel keeps BrokerInv.
LEMMA QuietStep ==
  ASSUME BrokerAssumption, Parts7, NEW c \in Conns, NEW x, Steps(c, x), UNCHANGED answered,
         Fits(c, x, actors, store),
         conn[c].pc \notin {"blocked", "sent"}, x.pc \notin {"blocked", "sent"},
         x.pc = "open" => topics[x.req.part] = None,
         lockq' \in Seq(Conns), writer' \in Conns \cup {None},
         Only(c, conn, conn') /\ conn'[c] = x => Locks(lockq', writer', conn')
  PROVE  BrokerInv'
<1>1. /\ AllFit' /\ AllLines' /\ RegistryExact'
      /\ conn'[c] = x /\ Only(c, conn, conn')
  <2>1. conn' = [conn EXCEPT ![c] = x] /\ UNCHANGED <<topics, actors, store>>
    BY Zenon DEF Steps
  <2> QED
    BY ZenonT(60), <2>1, Quiet DEF Parts7
<1>2. AckedAtOffset' /\ RealTimeOrder'
  <2>1. Grows(store, store')
    BY Zenon, SameGrows DEF Steps, Parts7
  <2> QED
    BY <2>1, AnswersKept, ZenonT(60) DEF Parts7
<1>3. Plain'
  BY Zenon DEF Plain, Parts7, Steps
<1> QED
  BY <1>1, <1>2, <1>3, TakenNext, ZenonT(60) DEF Parts7

\* The accept loop starts a connection task.
LEMMA AcceptKeeps ==
  ASSUME BrokerAssumption, BrokerInv, NEW c \in Conns, Accept(c)
  PROVE  BrokerInv'
<1>1. Parts7
  BY Taken, ZenonT(60)
<1>2. Fits(c, conn[c], actors, store) /\ conn[c].pc = "new"
  BY <1>1, ZenonT(60) DEF Parts7, AllFit, Accept
<1> DEFINE x == [conn[c] EXCEPT !.pc = "idle"]
<1>3. x = [pc |-> "idle", count |-> conn[c].count] /\ x.pc = "idle" /\ conn[c].count \in Nat
  BY SMTT(60), <1>2, FitsKind DEF Resting
<1>4. Fits(c, x, actors, store)
  BY Zenon, <1>3 DEF Fits, Resting
<1>5. Steps(c, x) /\ UNCHANGED <<lockq, writer, answered>>
  BY Zenon DEF Steps, Accept
<1> HIDE DEF x
<1>6. Only(c, conn, conn') /\ conn'[c] = x => Locks(lockq', writer', conn')
  BY Zenon, <1>1, <1>2, <1>3, <1>5, LockSame DEF Parts7
<1> QED
  BY ZenonT(60), <1>1, <1>2, <1>3, <1>4, <1>5, <1>6, QuietStep DEF Parts7, Plain

\* A client closes its connection.
LEMMA HangupKeeps ==
  ASSUME BrokerAssumption, BrokerInv, NEW c \in Conns, Hangup(c)
  PROVE  BrokerInv'
<1>1. Parts7
  BY Taken, Zenon
<1>2. Fits(c, conn[c], actors, store) /\ conn[c].pc = "idle"
  BY <1>1, ZenonT(60) DEF Parts7, AllFit, Hangup, At
<1> DEFINE x == [pc |-> "closed", count |-> conn[c].count]
<1>3. x.pc = "closed" /\ conn[c].count \in Nat
  BY Zenon, <1>2, FitsKind
<1>4. Fits(c, x, actors, store)
  BY Zenon, <1>3 DEF Fits, Resting
<1>5. Steps(c, x) /\ UNCHANGED <<lockq, writer, answered>>
  BY Zenon DEF Steps, Hangup
<1> HIDE DEF x
<1>6. Only(c, conn, conn') /\ conn'[c] = x => Locks(lockq', writer', conn')
  BY ZenonT(60), <1>1, <1>2, <1>3, <1>5, LockSame DEF Parts7
<1> QED
  BY ZenonT(60), <1>1, <1>2, <1>3, <1>4, <1>5, <1>6, QuietStep DEF Parts7, Plain

\* The response cannot be written: the connection task ends.
LEMMA RespondFailsKeeps ==
  ASSUME BrokerAssumption, BrokerInv, NEW c \in Conns, RespondFails(c)
  PROVE  BrokerInv'
<1>1. Parts7
  BY Taken, Zenon
<1>2. Fits(c, conn[c], actors, store) /\ conn[c].pc = "reply"
  BY <1>1, ZenonT(60) DEF Parts7, AllFit, RespondFails, At
<1> DEFINE x == [pc |-> "closed", count |-> conn[c].count]
<1>3. x.pc = "closed" /\ conn[c].count \in Nat
  BY ZenonT(60), <1>2, FitsKind
<1>4. Fits(c, x, actors, store)
  BY Zenon, <1>3 DEF Fits, Resting
<1>5. Steps(c, x) /\ UNCHANGED <<lockq, writer, answered>>
  BY Zenon DEF Steps, RespondFails
<1> HIDE DEF x
<1>6. Only(c, conn, conn') /\ conn'[c] = x => Locks(lockq', writer', conn')
  BY ZenonT(60), <1>1, <1>2, <1>3, <1>5, LockSame DEF Parts7
<1> QED
  BY ZenonT(60), <1>1, <1>2, <1>3, <1>4, <1>5, <1>6, QuietStep DEF Parts7, Plain

\* The connection task reads a request and queues for the registry's lock.
LEMMA TakeKeeps ==
  ASSUME BrokerAssumption, BrokerInv, NEW c \in Conns, NEW r \in Requests, Take(c, r)
  PROVE  BrokerInv'
<1>1. Parts7
  BY Taken, Zenon
<1>2. Fits(c, conn[c], actors, store) /\ conn[c].pc = "idle"
  BY <1>1, ZenonT(60) DEF Parts7, AllFit, Take, At
<1>3. conn[c].count \in Nat /\ r.part \in Parts
  <2>1. r.part \in Parts
    BY Zenon DEF BrokerAssumption
  <2> QED
    BY ZenonT(60), <1>2, <2>1, FitsKind
<1>4. AckedEnd(r.part) \in Nat /\ AckedEnd(r.part) <= Len(store[r.part])
  BY <1>3, AckedEndBounded, ZenonT(60) DEF BrokerInv
<1> DEFINE x == [pc |-> "read", count |-> conn[c].count + 1, req |-> r, floor |-> AckedEnd(r.part)]
<1>5. x.pc = "read"
  BY Zenon
<1>6. Fits(c, x, actors, store)
  <2>1. x \in Looking
    BY SMTT(60), <1>3, <1>4 DEF Looking
  <2> QED
    BY ZenonT(60), <1>4, <2>1 DEF Fits
<1>7. Steps(c, x) /\ UNCHANGED <<writer, answered>> /\ lockq' = Append(lockq, c)
  BY Zenon DEF Steps, Take
<1> HIDE DEF x
<1>8. lockq \in Seq(Conns) /\ writer \in Conns \cup {None}
  BY Zenon, <1>1 DEF Parts7, Plain
<1>9. lockq' \in Seq(Conns)
  BY Zenon, <1>7, <1>8, AppendProperties
<1>10. Only(c, conn, conn') /\ conn'[c] = x => Locks(lockq', writer', conn')
  BY Zenon, <1>1, <1>2, <1>5, <1>7, <1>8, LockJoin DEF Parts7
<1> QED
  BY ZenonT(60), <1>1, <1>2, <1>5, <1>6, <1>7, <1>8, <1>9, <1>10, QuietStep

\* A result fits a connection that had a request.
LEMMA ResolvedFits ==
  ASSUME BrokerAssumption, NEW c, NEW y, NEW acts, NEW st, Fits(c, y, acts, st),
         y.pc \notin {"new", "idle", "closed"}, NEW result \in Result, NEW acts2, NEW st2,
         y.floor <= Len(st2[y.req.part]), AckedIn(<<c, y.count>>, y.req, result, st2),
         InRealTime(y.req, y.floor, result)
  PROVE  Fits(c, Resolved(y, result), acts2, st2) /\ Resolved(y, result).pc = "reply"
<1>1. y.count \in Nat /\ y.req \in Requests /\ y.floor \in Nat
  BY Zenon, FitsKind
<1>2. Resolved(y, result) \in Replying
  BY Zenon, <1>1 DEF Resolved, Replying
<1>3. /\ Resolved(y, result).pc = "reply" /\ Resolved(y, result).count = y.count
      /\ Resolved(y, result).req = y.req /\ Resolved(y, result).floor = y.floor
      /\ Resolved(y, result).result = result
  BY Zenon DEF Resolved
<1> QED
  BY Zenon, <1>2, <1>3 DEF Fits

\* An error, but for a fetch that must succeed, can always be the result.
LEMMA ErrorFits ==
  ASSUME BrokerAssumption, NEW c, NEW y, NEW acts, NEW st, Fits(c, y, acts, st),
         y.pc \notin {"new", "idle", "closed"},
         NEW code \in {"PartitionNotFound", "OffsetNotFound", "MessageTooLarge",
                       "StorageError", "ServerError"},
         y.req.kind = "fetch" /\ y.req.max > 0 /\ y.req.offset < y.floor =>
           code \notin {"OffsetNotFound", "PartitionNotFound"},
         NEW acts2, NEW st2, y.floor <= Len(st2[y.req.part])
  PROVE  Fits(c, Resolved(y, Error(code)), acts2, st2) /\ Resolved(y, Error(code)).pc = "reply"
<1>1. Error(code) \in Result /\ Error(code).is # "wrote"
  BY Zenon DEF Error, Result
<1>2. AckedIn(<<c, y.count>>, y.req, Error(code), st2)
  BY <1>1, ZenonT(60) DEF AckedIn
<1>3. InRealTime(y.req, y.floor, Error(code))
  <2>1. \A k : Error(code) = Error(k) => code = k
    BY ZenonT(60) DEF Error
  <2> QED
    BY ZenonT(60), <1>1, <2>1 DEF InRealTime
<1> QED
  BY ZenonT(60), <1>1, <1>2, <1>3, ResolvedFits

\* A clone of the sender fits a connection that had a request.
LEMMA SenderFits ==
  ASSUME BrokerAssumption, NEW c, NEW y, NEW acts, NEW st, Fits(c, y, acts, st),
         y.pc \notin {"new", "idle", "closed"}, NEW acts2, NEW tx \in DOMAIN acts2,
         acts2[tx].part = y.req.part
  PROVE  Fits(c, HasSender(y, tx), acts2, st) /\ HasSender(y, tx).pc = "send"
<1>1. y.count \in Nat /\ y.req \in Requests /\ y.floor \in Nat
  BY ZenonT(60), FitsKind
<1>2. y.floor <= Len(st[y.req.part])
  BY Zenon DEF Fits
<1>3. HasSender(y, tx) \in [pc : {"send", "blocked", "sent"}, count : Nat, req : Requests,
                            floor : Nat, tx : DOMAIN acts2]
  BY ZenonT(60), <1>1 DEF HasSender
<1>4. /\ HasSender(y, tx).pc = "send" /\ HasSender(y, tx).count = y.count
      /\ HasSender(y, tx).req = y.req /\ HasSender(y, tx).floor = y.floor
      /\ HasSender(y, tx).tx = tx
  BY ZenonT(60) DEF HasSender
<1> QED
  BY ZenonT(60), <1>2, <1>3, <1>4 DEF Fits

\* The read lock is granted: the channel is found, or the write lock is asked for.
LEMMA ReadLockKeeps ==
  ASSUME BrokerAssumption, BrokerInv, NEW c \in Conns, ReadLock(c)
  PROVE  BrokerInv'
<1>1. Parts7
  BY Taken, Zenon
<1>2. Fits(c, conn[c], actors, store) /\ conn[c].pc = "read"
  BY <1>1, ZenonT(60) DEF Parts7, AllFit, ReadLock, At
<1>3. /\ conn[c] \in Looking /\ conn[c].req.part \in Parts /\ conn[c].floor \in Nat
      /\ conn[c].floor <= Len(store[conn[c].req.part])
  BY ZenonT(60), <1>2, FitsKind DEF Fits
<1>4. /\ Head(lockq) = c /\ writer = None /\ lockq \in Seq(Conns) /\ Locks(lockq, None, conn)
      /\ UNCHANGED <<phase, topics, writer, actors, store, answered>>
  BY ZenonT(60), <1>1 DEF Parts7, Plain, ReadLock, LockFree
<1> DEFINE tx == topics[conn[c].req.part]
<1>5. CASE /\ tx # None
           /\ conn' = [conn EXCEPT ![c] = HasSender(conn[c], tx)] /\ lockq' = Tail(lockq)
  <2> DEFINE x == HasSender(conn[c], tx)
  <2>1. tx \in DOMAIN actors /\ actors[tx].part = conn[c].req.part
    BY SMTT(60), <1>1, <1>3, <1>5 DEF Parts7, Plain, RegistryExact
  <2>2. Fits(c, x, actors, store) /\ x.pc = "send"
    BY SMTT(60), <1>2, <2>1, SenderFits
  <2>3. Steps(c, x)
    BY ZenonT(60), <1>4, <1>5 DEF Steps
  <2> HIDE DEF x, tx
  <2>4. Only(c, conn, conn') /\ conn'[c] = x => Locks(lockq', writer', conn')
    BY ZenonT(60), <1>2, <1>4, <1>5, <2>2, LockLeave
  <2>5. lockq' \in Seq(Conns) /\ writer' \in Conns \cup {None}
    BY ZenonT(60), <1>2, <1>4, <1>5, LockFirst
  <2> QED
    BY ZenonT(60), <1>1, <1>2, <1>4, <2>2, <2>3, <2>4, <2>5, QuietStep
<1>6. CASE /\ tx = None
           /\ conn' = [conn EXCEPT ![c] = Resolved(conn[c], Error("PartitionNotFound"))]
           /\ lockq' = Tail(lockq)
  <2> DEFINE x == Resolved(conn[c], Error("PartitionNotFound"))
  <2>1. store[conn[c].req.part] = <<>>
    BY ZenonT(60), <1>1, <1>3, <1>6 DEF Parts7, RegistryExact
  <2>2. ~(conn[c].req.kind = "fetch" /\ conn[c].req.offset < conn[c].floor)
    <3>1. conn[c].floor = 0
      BY SMTT(60), <1>3, <2>1
    <3>2. conn[c].req \in Requests
      BY ZenonT(60), <1>2, FitsKind
    <3> QED
      BY SMTT(60), <3>1, <3>2 DEF BrokerAssumption
  <2>3. Fits(c, x, actors, store) /\ x.pc = "reply"
    BY ZenonT(60), <1>2, <1>3, <2>2, ErrorFits
  <2>4. Steps(c, x)
    BY ZenonT(60), <1>4, <1>6 DEF Steps
  <2> HIDE DEF x, tx
  <2>5. Only(c, conn, conn') /\ conn'[c] = x => Locks(lockq', writer', conn')
    BY ZenonT(60), <1>2, <1>4, <1>6, <2>3, LockLeave
  <2>6. lockq' \in Seq(Conns) /\ writer' \in Conns \cup {None}
    BY ZenonT(60), <1>2, <1>4, <1>6, LockFirst
  <2> QED
    BY ZenonT(60), <1>1, <1>2, <1>4, <2>3, <2>4, <2>5, <2>6, QuietStep
<1>7. CASE /\ conn' = [conn EXCEPT ![c] = [conn[c] EXCEPT !.pc = "write"]]
           /\ lockq' = Append(Tail(lockq), c)
  <2> DEFINE x == [conn[c] EXCEPT !.pc = "write"]
  <2>1. /\ x.pc = "write" /\ x.count = conn[c].count /\ x.req = conn[c].req
        /\ x.floor = conn[c].floor /\ x \in Looking
    BY ZenonT(60), <1>3 DEF Looking
  <2>2. Steps(c, x)
    BY ZenonT(60), <1>4, <1>7 DEF Steps
  <2> HIDE DEF x
  <2>3. Fits(c, x, actors, store)
    BY ZenonT(60), <1>3, <2>1 DEF Fits
  <2>4. Only(c, conn, conn') /\ conn'[c] = x => Locks(lockq', writer', conn')
    BY ZenonT(60), <1>2, <1>4, <1>7, <2>1, LockAgain
  <2>5. lockq' \in Seq(Conns) /\ writer' \in Conns \cup {None}
    <3>1. Tail(lockq) \in Seq(Conns)
      BY ZenonT(60), <1>2, <1>4, LockFirst
    <3> QED
      BY ZenonT(60), <1>4, <1>7, <3>1, AppendProperties
  <2> QED
    BY ZenonT(60), <1>1, <1>2, <1>4, <2>1, <2>2, <2>3, <2>4, <2>5, QuietStep
<1> QED
  BY ZenonT(60), <1>5, <1>6, <1>7 DEF ReadLock

\* The write lock is granted: the registry is looked up a second time.
LEMMA WriteLockKeeps ==
  ASSUME BrokerAssumption, BrokerInv, NEW c \in Conns, WriteLock(c)
  PROVE  BrokerInv'
<1>1. Parts7
  BY Taken, Zenon
<1>2. Fits(c, conn[c], actors, store) /\ conn[c].pc = "write"
  BY <1>1, ZenonT(60) DEF Parts7, AllFit, WriteLock, At
<1>3. /\ conn[c] \in Looking /\ conn[c].req.part \in Parts
      /\ conn[c].floor <= Len(store[conn[c].req.part])
  BY ZenonT(60), <1>2, FitsKind DEF Fits
<1>4. /\ Head(lockq) = c /\ writer = None /\ lockq \in Seq(Conns) /\ Locks(lockq, None, conn)
      /\ lockq' = Tail(lockq) /\ UNCHANGED <<phase, topics, actors, store, answered>>
  BY ZenonT(60), <1>1 DEF Parts7, Plain, WriteLock, LockFree
<1>5. lockq' \in Seq(Conns)
  BY ZenonT(60), <1>2, <1>4, LockFirst
<1> DEFINE tx == topics[conn[c].req.part]
<1>6. CASE /\ tx # None
           /\ conn' = [conn EXCEPT ![c] = HasSender(conn[c], tx)] /\ writer' = writer
  <2> DEFINE x == HasSender(conn[c], tx)
  <2>1. tx \in DOMAIN actors /\ actors[tx].part = conn[c].req.part
    BY SMTT(60), <1>1, <1>3, <1>6 DEF Parts7, Plain, RegistryExact
  <2>2. Fits(c, x, actors, store) /\ x.pc = "send"
    BY SMTT(60), <1>2, <2>1, SenderFits
  <2>3. Steps(c, x)
    BY Zenon, <1>4, <1>6 DEF Steps
  <2> HIDE DEF x, tx
  <2>4. Only(c, conn, conn') /\ conn'[c] = x => Locks(lockq', writer', conn')
    BY ZenonT(60), <1>2, <1>4, <1>6, <2>2, LockLeave
  <2> QED
    BY ZenonT(60), <1>1, <1>2, <1>4, <1>5, <1>6, <2>2, <2>3, <2>4, QuietStep
<1>7. CASE /\ tx = None
           /\ conn' = [conn EXCEPT ![c] = [conn[c] EXCEPT !.pc = "open"]] /\ writer' = c
  <2> DEFINE x == [conn[c] EXCEPT !.pc = "open"]
  <2>1. /\ x.pc = "open" /\ x.count = conn[c].count /\ x.req = conn[c].req
        /\ x.floor = conn[c].floor /\ x \in Looking
    BY ZenonT(60), <1>3 DEF Looking
  <2>2. Steps(c, x)
    BY ZenonT(60), <1>4, <1>7 DEF Steps
  <2> HIDE DEF x
  <2>3. Fits(c, x, actors, store)
    BY ZenonT(60), <1>3, <2>1 DEF Fits
  <2>4. Only(c, conn, conn') /\ conn'[c] = x => Locks(lockq', writer', conn')
    BY ZenonT(60), <1>2, <1>4, <1>7, <2>1, LockLeave
  <2> QED
    BY ZenonT(60), <1>1, <1>2, <1>4, <1>5, <1>7, <2>1, <2>2, <2>3, <2>4, QuietStep
<1> QED
  BY ZenonT(60), <1>6, <1>7 DEF WriteLock, Recheck

\* Opening the partition fails under the write lock, which is released.
LEMMA OpenFailsKeeps ==
  ASSUME BrokerAssumption, BrokerInv, NEW c \in Conns, OpenFails(c)
  PROVE  BrokerInv'
<1>1. Parts7
  BY Taken, Zenon
<1>2. Fits(c, conn[c], actors, store) /\ conn[c].pc = "open"
  BY <1>1, ZenonT(60) DEF Parts7, AllFit, OpenFails, At
<1>3. conn[c].floor <= Len(store[conn[c].req.part])
  BY ZenonT(60), <1>2 DEF Fits
<1> DEFINE x == Resolved(conn[c], Error("StorageError"))
<1>4. Fits(c, x, actors, store) /\ x.pc = "reply"
  BY ZenonT(60), <1>2, <1>3, ErrorFits
<1>5. Steps(c, x) /\ UNCHANGED <<lockq, answered>> /\ writer' = None
  BY Zenon DEF Steps, OpenFails
<1> HIDE DEF x
<1>6. Only(c, conn, conn') /\ conn'[c] = x => Locks(lockq', writer', conn')
  BY ZenonT(60), <1>1, <1>2, <1>4, <1>5, LockRelease DEF Parts7
<1> QED
  BY ZenonT(60), <1>1, <1>2, <1>4, <1>5, <1>6, QuietStep DEF Parts7, Plain

\* The response is written and recorded as acknowledged.
LEMMA RespondKeeps ==
  ASSUME BrokerAssumption, BrokerInv, NEW c \in Conns, Respond(c)
  PROVE  BrokerInv'
<1>1. Parts7
  BY Taken, Zenon
<1>2. Fits(c, conn[c], actors, store) /\ conn[c].pc = "reply"
  BY <1>1, ZenonT(60) DEF Parts7, AllFit, Respond, At
<1> DEFINE x == [pc |-> "idle", count |-> conn[c].count]
           b == [id |-> <<c, conn[c].count>>, req |-> conn[c].req,
                 floor |-> conn[c].floor, result |-> conn[c].result]
<1>3. /\ x.pc = "idle" /\ conn[c].count \in Nat /\ conn[c].req \in Requests
      /\ conn[c].floor \in Nat /\ conn[c].result \in Result
  BY ZenonT(60), <1>2, FitsKind
<1>4. Fits(c, x, actors, store)
  BY ZenonT(60), <1>3 DEF Fits, Resting
<1>5. /\ conn' = [conn EXCEPT ![c] = x] /\ answered' = answered \cup {b}
      /\ UNCHANGED <<phase, topics, lockq, writer, actors, store>>
  BY Zenon DEF Respond
<1>6. b \in Answer
  BY ZenonT(60), <1>3 DEF Answer
<1>7. AckedIn(b.id, b.req, b.result, store) /\ InRealTime(b.req, b.floor, b.result)
  BY ZenonT(60), <1>2 DEF Fits
<1> HIDE DEF x, b
<1>8. /\ AllFit' /\ AllLines' /\ RegistryExact'
      /\ conn'[c] = x /\ Only(c, conn, conn')
  BY ZenonT(60), <1>1, <1>2, <1>3, <1>4, <1>5, Quiet DEF Parts7
<1>9. Locks(lockq', writer', conn')
  BY ZenonT(60), <1>1, <1>2, <1>3, <1>5, <1>8, LockSame DEF Parts7
<1>10. Plain'
  BY ZenonT(60), <1>1, <1>5, <1>6 DEF Parts7, Plain
<1>11. AckedAtOffset' /\ RealTimeOrder'
  <2>1. \A a \in answered : AckedIn(a.id, a.req, a.result, store) /\ InRealTime(a.req, a.floor, a.result)
    BY <1>1, ZenonT(60) DEF Parts7, AckedAtOffset, AckedAt, AckedIn, RealTimeOrder
  <2>2. \A a \in answered' : AckedIn(a.id, a.req, a.result, store') /\ InRealTime(a.req, a.floor, a.result)
    BY <1>5, <1>7, <2>1, ZenonT(60)
  <2> QED
    BY <2>2, ZenonT(60) DEF AckedAtOffset, AckedAt, AckedIn, RealTimeOrder
<1> QED
  BY <1>8, <1>9, <1>10, <1>11, TakenNext, ZenonT(60) DEF Parts7

\* The broker is asked to stop.
LEMMA ShutdownKeeps ==
  ASSUME BrokerAssumption, BrokerInv, Shutdown
  PROVE  BrokerInv'
<1>1. Parts7
  BY Taken, ZenonT(60)
<1>2. /\ phase' = "exited" /\ conn' = conn /\ topics' = topics /\ lockq' = lockq
      /\ writer' = writer /\ actors' = actors /\ store' = store /\ answered' = answered
  BY Zenon DEF Shutdown
<1>3. Plain'
  BY ZenonT(60), <1>1, <1>2 DEF Parts7, Plain
<1>4. (AllFit /\ AllLines)'
  BY <1>1, <1>2, ZenonT(60) DEF Parts7, AllFit, AllLines
<1>5. Locks(lockq, writer, conn)' /\ RegistryExact'
  BY <1>1, <1>2, ZenonT(60) DEF Parts7, RegistryExact
<1>6. AckedAtOffset' /\ RealTimeOrder'
  BY <1>1, <1>2, ZenonT(60) DEF Parts7, AckedAtOffset, AckedAt, RealTimeOrder
<1> QED
  BY <1>3, <1>4, <1>5, <1>6, TakenNext, ZenonT(60) DEF Parts7

-----------------------------------------------------------------------------
\* A partition is opened.

\* A partition is opened under the write lock: a new actor, entered in the registry.
LEMMA OpenKeeps ==
  ASSUME BrokerAssumption, BrokerInv, NEW c \in Conns, Open(c)
  PROVE  BrokerInv'
<1>1. Parts7
  BY Taken, Zenon
<1>2. Fits(c, conn[c], actors, store) /\ conn[c].pc = "open"
  BY <1>1, ZenonT(60) DEF Parts7, AllFit, Open, At
<1> DEFINE p == conn[c].req.part
           n == Len(actors)
           x == HasSender(conn[c], n + 1)
<1>3. p \in Parts
  BY ZenonT(60), <1>2, FitsKind
<1>4. /\ conn' = [conn EXCEPT ![c] = x] /\ actors' = Append(actors, NewActor(p))
      /\ topics' = [topics EXCEPT ![p] = n + 1] /\ writer' = None
      /\ phase' = phase /\ lockq' = lockq /\ store' = store /\ answered' = answered
  BY Zenon DEF Open, NewChannel
<1>5. NewActor(p) \in Channel /\ NewActor(p).part = p
  BY SMTT(60), <1>3 DEF NewActor, Channel
<1>6. actors \in Seq(Channel) /\ topics \in [Parts -> DOMAIN actors \cup {None}]
  BY Zenon, <1>1 DEF Parts7, Plain
<1>7. /\ actors' \in Seq(Channel) /\ n \in Nat /\ Len(actors') = n + 1
      /\ DOMAIN actors = 1 .. n /\ DOMAIN actors' = 1 .. n + 1
      /\ actors'[n + 1] = NewActor(p) /\ \A a \in 1 .. n : actors'[a] = actors[a]
  <2> DEFINE v == NewActor(p)
  <2> HIDE DEF p, v
  <2>1. v \in Channel /\ actors' = Append(actors, v)
    BY Zenon, <1>4, <1>5 DEF v
  <2>2. /\ actors' \in Seq(Channel) /\ Len(actors') = n + 1 /\ actors'[n + 1] = v
        /\ \A a \in 1 .. n : actors'[a] = actors[a]
    BY SMTT(60), <1>6, <2>1, AppendProperties
  <2>3. n \in Nat /\ DOMAIN actors = 1 .. n /\ DOMAIN actors' = 1 .. n + 1
    BY Zenon, <1>6, <2>2, LenProperties
  <2> QED
    BY Zenon, <2>2, <2>3 DEF v
<1> HIDE DEF x, p, n
<1>8. Keeps(actors, actors') /\ Grows(store, store')
  BY SMTT(60), <1>1, <1>4, <1>7, SameGrows DEF Keeps, Parts7
<1>9. Fits(c, x, actors', store') /\ x.pc = "send"
  <2> DEFINE t == n + 1
  <2>1. t \in DOMAIN actors' /\ actors'[t].part = conn[c].req.part
    BY SMTT(60), <1>5, <1>7 DEF p
  <2>2. x = HasSender(conn[c], t)
    BY Zenon DEF x
  <2> HIDE DEF t
  <2>3. Fits(c, x, actors', store) /\ x.pc = "send"
    BY SMTT(60), <1>2, <2>1, <2>2, SenderFits
  <2> QED
    BY Zenon, <1>4, <2>3
<1>10. AllFit' /\ conn'[c] = x /\ Only(c, conn, conn')
  BY ZenonT(60), <1>1, <1>4, <1>8, <1>9, OneMoves DEF Parts7
<1>11. Plain'
  <2>1. topics' \in [Parts -> DOMAIN actors' \cup {None}]
    BY SMTT(60), <1>3, <1>4, <1>6, <1>7
  <2> QED
    BY Zenon, <1>1, <1>4, <1>7, <2>1 DEF Parts7, Plain
<1>12. AllLines'
  <2>1. Apart(c, conn, conn')
    BY Zenon, <1>2, <1>9, <1>10 DEF Apart
  <2>2. ASSUME NEW a \in 1 .. n PROVE Lines(a, actors'[a], conn')
    <3>1. Lines(a, actors[a], conn)
      BY <1>1, <1>7, ZenonT(60) DEF Parts7, AllLines
    <3>2. Lines(a, actors[a], conn')
      BY <2>1, <3>1, ApartLines, ZenonT(60)
    <3> QED
      BY <1>7, <3>2, ZenonT(60)
  <2>3. Lines(n + 1, actors'[n + 1], conn')
    <3>1. \A d \in Conns : conn[d].pc \in {"blocked", "sent"} => conn[d].tx \in 1 .. n
      <4>1. ASSUME NEW d \in Conns, conn[d].pc \in {"blocked", "sent"} PROVE conn[d].tx \in 1 .. n
        <5>1. Fits(d, conn[d], actors, store)
          BY <1>1, ZenonT(60) DEF Parts7, AllFit
        <5> QED
          BY ZenonT(60), <1>7, <4>1, <5>1, FitsKind
      <4> QED
        BY <4>1, ZenonT(60)
    <3>2. n + 1 \notin 1 .. n
      BY SMTT(60), <1>7
    <3>3. Held(conn', "sent", n + 1) = {} /\ Held(conn', "blocked", n + 1) = {}
      BY SMTT(60), <1>9, <1>10, <3>1, <3>2 DEF Held, Only
    <3>4. NewActor(p).queue = <<>> /\ NewActor(p).waiting = <<>>
      BY Zenon DEF NewActor
    <3>5. 0 <= Capacity
      BY SMTT(60) DEF BrokerAssumption
    <3> QED
      BY <1>7, <3>3, <3>4, <3>5, LineEmpty, ZenonT(60) DEF Lines
  <2>4. \A a \in 1 .. n + 1 : a \in 1 .. n \/ a = n + 1
    BY SMTT(60), <1>7
  <2> QED
    BY <1>7, <2>2, <2>3, <2>4, ZenonT(60) DEF AllLines
<1>13. Locks(lockq', writer', conn')
  BY ZenonT(60), <1>1, <1>2, <1>4, <1>9, <1>10, LockRelease DEF Parts7
<1>14. RegistryExact'
  <2>1. \A a \in 1 .. n : a # None
    BY SMTT(60), <1>7 DEF BrokerAssumption
  <2>2. /\ \A q \in Parts : topics[q] # None => actors[topics[q]].part = q
        /\ \A a \in 1 .. n : topics[actors[a].part] = a
        /\ topics[p] = None
        /\ \A q \in Parts : topics[q] = None => store[q] = <<>>
    BY <1>1, <1>2, <1>7, ZenonT(60) DEF Parts7, RegistryExact, p
  <2>3. \A q \in Parts : q # p => topics'[q] = topics[q]
    BY Zenon, <1>3, <1>4, <1>6
  <2>4. topics'[p] = n + 1
    BY Zenon, <1>3, <1>4, <1>6
  <2>5. ASSUME NEW q \in Parts, topics'[q] # None PROVE actors'[topics'[q]].part = q
    <3>1. CASE q = p
      BY <1>5, <1>7, <2>4, <3>1, ZenonT(60)
    <3>2. CASE q # p
      <4>1. topics[q] \in 1 .. n
        BY Zenon, <1>6, <1>7, <2>3, <2>5, <3>2
      <4> QED
        BY ZenonT(60), <1>7, <2>2, <2>3, <2>5, <3>2, <4>1
    <3> QED
      BY <3>1, <3>2, ZenonT(60)
  <2>6. ASSUME NEW a \in 1 .. n + 1 PROVE topics'[actors'[a].part] = a
    <3>1. CASE a \in 1 .. n
      <4>1. actors[a].part \in Parts
        BY ZenonT(60), <1>6, <1>7, <3>1, ChannelAt
      <4> QED
        BY <1>7, <2>1, <2>2, <2>3, <3>1, <4>1, ZenonT(60)
    <3>2. CASE a = n + 1
      BY <1>5, <1>7, <2>4, <3>2, ZenonT(60)
    <3> QED
      BY <1>7, <3>1, <3>2
  <2>7. \A d \in Conns : conn'[d].pc # "open"
    <3>1. None \notin Conns /\ writer' = None
      BY <1>4, ZenonT(60) DEF BrokerAssumption
    <3> QED
      BY <1>13, <3>1, ZenonT(60) DEF Locks
  <2>8. \A q \in Parts : topics'[q] = None => store'[q] = <<>>
    <3>1. n + 1 # None
      BY SMTT(60), <1>7 DEF BrokerAssumption
    <3> QED
      BY <1>4, <2>2, <2>3, <2>4, <3>1, ZenonT(60)
  <2> QED
    BY <1>7, <2>5, <2>6, <2>7, <2>8, ZenonT(60) DEF RegistryExact
<1>15. AckedAtOffset' /\ RealTimeOrder'
  BY Zenon, <1>1, <1>4, <1>8, AnswersKept DEF Parts7
<1> QED
  BY <1>10, <1>11, <1>12, <1>13, <1>14, <1>15, TakenNext, ZenonT(60) DEF Parts7

-----------------------------------------------------------------------------
\* Steps at a channel.

\* Channel a becomes v, of the same partition.
LEMMA ChannelMoves ==
  ASSUME actors \in Seq(Channel), NEW a \in DOMAIN actors, NEW v \in Channel,
         v.part = actors[a].part, actors' = [actors EXCEPT ![a] = v]
  PROVE  /\ actors' \in Seq(Channel) /\ DOMAIN actors' = DOMAIN actors
         /\ Keeps(actors, actors') /\ actors'[a] = v
         /\ \A b \in DOMAIN actors : b # a => actors'[b] = actors[b]
<1>1. Len(actors) \in Nat /\ DOMAIN actors = 1 .. Len(actors)
  BY Zenon, LenProperties
<1>2. /\ DOMAIN actors' = DOMAIN actors /\ actors'[a] = v
      /\ \A b \in DOMAIN actors : b # a => actors'[b] = actors[b]
  OBVIOUS
<1>3. actors' \in Seq(Channel)
  BY Zenon, ExceptSeq, <1>1
<1> QED
  BY Zenon, <1>2, <1>3 DEF Keeps

\* c, which is at channel a, becomes x; the channel becomes v.
LEMMA ChannelStep ==
  ASSUME BrokerAssumption, Parts7, NEW c \in Conns, NEW x, conn' = [conn EXCEPT ![c] = x],
         NEW a \in DOMAIN actors, NEW v \in Channel, v.part = actors[a].part,
         actors' = [actors EXCEPT ![a] = v],
         UNCHANGED <<phase, topics, lockq, writer, answered>>,
         store' \in [Parts -> Seq(Record)], Grows(store, store'),
         \A p \in Parts : topics[p] = None => store'[p] = <<>>,
         conn[c].pc \in {"send", "blocked", "sent"}, conn[c].tx = a,
         (x.pc \in {"blocked", "sent"} /\ x.tx = a) \/ x.pc = "reply",
         Fits(c, x, actors', store'),
         Only(c, conn, conn') /\ conn'[c] = x => Lines(a, v, conn')
  PROVE  BrokerInv'
<1>1. /\ Plain /\ AllFit /\ AllLines /\ Locks(lockq, writer, conn) /\ RegistryExact
      /\ AckedAtOffset /\ RealTimeOrder /\ actors \in Seq(Channel)
  BY Zenon DEF Parts7, Plain
<1>2. /\ actors' \in Seq(Channel) /\ DOMAIN actors' = DOMAIN actors
      /\ Keeps(actors, actors') /\ actors'[a] = v
      /\ \A b \in DOMAIN actors : b # a => actors'[b] = actors[b]
  BY ZenonT(60), <1>1, ChannelMoves
<1>3. AllFit' /\ conn'[c] = x /\ Only(c, conn, conn')
  BY ZenonT(60), <1>1, <1>2, OneMoves
<1>4. Plain'
  BY ZenonT(60), <1>1, <1>2 DEF Plain
<1>5. AllLines'
  <2>1. ASSUME NEW b \in DOMAIN actors, b # a PROVE Lines(b, actors'[b], conn')
    <3>1. Held(conn', "sent", b) = Held(conn, "sent", b)
      BY ZenonT(60), <1>3, <2>1 DEF Held, Only
    <3>2. Held(conn', "blocked", b) = Held(conn, "blocked", b)
      BY ZenonT(60), <1>3, <2>1 DEF Held, Only
    <3>3. Lines(b, actors[b], conn) /\ actors'[b] = actors[b]
      BY <1>1, <1>2, <2>1, ZenonT(60) DEF AllLines
    <3> QED
      BY <3>1, <3>2, <3>3, ZenonT(60) DEF Lines
  <2>2. Lines(a, actors'[a], conn')
    BY <1>2, <1>3, ZenonT(60)
  <2> QED
    BY <1>2, <2>1, <2>2, ZenonT(60) DEF AllLines
<1>6. Locks(lockq', writer', conn')
  <2>1. lockq' = lockq /\ writer' = writer
    OBVIOUS
  <2>2. conn[c].pc \notin {"read", "write", "open"} /\ conn'[c].pc \notin {"read", "write", "open"}
    BY Zenon, <1>3
  <2> QED
    BY ZenonT(60), <1>1, <1>3, <2>1, <2>2, LockSame
<1>7. RegistryExact'
  <2>1. topics' = topics
    BY Zenon
  <2>2. \A p \in Parts : topics[p] # None => topics[p] \in DOMAIN actors
    BY Zenon, <1>1 DEF Plain
  <2>3. \A b \in DOMAIN actors : actors'[b].part = actors[b].part
    BY <1>2, ZenonT(60) DEF Keeps
  <2>4. \A p \in Parts : topics[p] # None => actors'[topics[p]].part = p
    BY <1>1, <2>2, <2>3, ZenonT(60) DEF RegistryExact
  <2>5. \A b \in DOMAIN actors : topics[actors'[b].part] = b
    BY <1>1, <2>3, ZenonT(60) DEF RegistryExact
  <2>6. \A d \in Conns : conn'[d].pc = "open" => topics[conn'[d].req.part] = None
    BY SMTT(60), <1>1, <1>3 DEF RegistryExact, Only
  <2>7. \A p \in Parts : topics[p] = None => store'[p] = <<>>
    BY Zenon
  <2>8. \A p \in Parts : topics'[p] # None => actors'[topics'[p]].part = p
    BY Zenon, <2>1, <2>4
  <2>9. \A b \in DOMAIN actors' : topics'[actors'[b].part] = b
    BY Zenon, <1>2, <2>1, <2>5
  <2> QED
    BY <2>1, <2>6, <2>7, <2>8, <2>9, SMTT(60) DEF RegistryExact
<1>8. AckedAtOffset' /\ RealTimeOrder'
  BY Zenon, <1>1, AnswersKept
<1> QED
  BY <1>3, <1>4, <1>5, <1>6, <1>7, <1>8, TakenNext, ZenonT(60) DEF Parts7

\* The task at a channel moves from one place there to another.
LEMMA AtChannel ==
  ASSUME BrokerAssumption, Parts7, NEW c \in Conns, conn[c].pc \in {"send", "blocked", "sent"}
  PROVE  LET a == conn[c].tx IN
         /\ a \in DOMAIN actors /\ actors[a] \in Channel /\ actors[a].part = conn[c].req.part
         /\ actors[a].queue \in Seq(Conns) /\ actors[a].waiting \in Seq(Conns)
         /\ Lines(a, actors[a], conn) /\ Fits(c, conn[c], actors, store)
         /\ conn[c].req.part \in Parts /\ topics[conn[c].req.part] = a /\ a # None
         /\ Len(actors[a].queue) \in Nat
         /\ conn[c].floor <= Len(store[conn[c].req.part])
<1> DEFINE a == conn[c].tx
<1>1. Fits(c, conn[c], actors, store)
  BY ZenonT(60) DEF Parts7, AllFit
<1>2. /\ a \in DOMAIN actors /\ actors[a].part = conn[c].req.part /\ conn[c].req.part \in Parts
      /\ conn[c].floor <= Len(store[conn[c].req.part])
  <2>1. a \in DOMAIN actors /\ conn[c].req.part \in Parts
    BY ZenonT(60), <1>1, FitsKind
  <2>2. actors[a].part = conn[c].req.part
    BY <1>1, ZenonT(60) DEF Fits
  <2> QED
    BY ZenonT(60), <1>1, <2>1, <2>2 DEF Fits
<1>3. actors \in Seq(Channel)
  BY Zenon DEF Parts7, Plain
<1>4. actors[a] \in Channel /\ actors[a].queue \in Seq(Conns) /\ actors[a].waiting \in Seq(Conns)
  BY ZenonT(60), <1>2, <1>3, ChannelAt
<1>5. Lines(a, actors[a], conn) /\ topics[conn[c].req.part] = a
  BY <1>2, ZenonT(60) DEF Parts7, AllLines, RegistryExact
<1>6. a # None
  BY SMTT(60), <1>2, <1>3, LenProperties DEF BrokerAssumption
<1>7. Len(actors[a].queue) \in Nat
  BY Zenon, <1>4, LenProperties
<1> QED
  BY <1>1, <1>2, <1>4, <1>5, <1>6, <1>7, ZenonT(60)

\* The sender goes on to another place of its channel.
LEMMA MovedFits ==
  ASSUME BrokerAssumption, NEW c, NEW y, NEW acts, NEW st, Fits(c, y, acts, st),
         y.pc \in {"send", "blocked", "sent"}, NEW pc \in {"blocked", "sent"}
  PROVE  LET x == [y EXCEPT !.pc = pc] IN
         Fits(c, x, acts, st) /\ x.pc = pc /\ x.tx = y.tx
<1> DEFINE x == [y EXCEPT !.pc = pc]
<1>1. /\ y = [pc |-> y.pc, count |-> y.count, req |-> y.req, floor |-> y.floor, tx |-> y.tx]
      /\ y.tx \in DOMAIN acts /\ y.count \in Nat /\ y.req \in Requests /\ y.floor \in Nat
  BY Zenon, FitsKind
<1>2. x = [pc |-> pc, count |-> y.count, req |-> y.req, floor |-> y.floor, tx |-> y.tx]
  BY SMTT(60), <1>1
<1>3. acts[y.tx].part = y.req.part /\ y.floor <= Len(st[y.req.part])
  BY Zenon DEF Fits
<1> HIDE DEF x
<1>4. /\ x.pc = pc /\ x.tx = y.tx /\ x.req = y.req /\ x.floor = y.floor
      /\ x \in [pc : {"send", "blocked", "sent"}, count : Nat, req : Requests, floor : Nat,
                tx : DOMAIN acts]
  BY Zenon, <1>1, <1>2
<1>5. Fits(c, x, acts, st)
  BY Zenon, <1>3, <1>4 DEF Fits
<1> QED
  BY Zenon, <1>4, <1>5 DEF x

\* A connection task puts its command into the channel, or queues for a permit.
LEMMA SendKeeps ==
  ASSUME BrokerAssumption, BrokerInv, NEW c \in Conns, Send(c)
  PROVE  BrokerInv'
<1>1. Parts7 /\ conn[c].pc = "send"
  BY Taken, ZenonT(60) DEF Send, At
<1> DEFINE a == conn[c].tx
           q == actors[a].queue
           w == actors[a].waiting
<1>2. /\ a \in DOMAIN actors /\ actors[a] \in Channel /\ actors[a].part = conn[c].req.part
      /\ q \in Seq(Conns) /\ w \in Seq(Conns) /\ Len(q) \in Nat
      /\ Lines(a, actors[a], conn) /\ Fits(c, conn[c], actors, store)
      /\ conn[c].floor <= Len(store[conn[c].req.part])
  BY ZenonT(60), <1>1, AtChannel
<1>3. /\ phase' = phase /\ topics' = topics /\ lockq' = lockq /\ writer' = writer
      /\ store' = store /\ answered' = answered
  BY ZenonT(60) DEF Send
<1>4. /\ store' \in [Parts -> Seq(Record)] /\ Grows(store, store')
      /\ \A p \in Parts : topics[p] = None => store'[p] = <<>>
  BY ZenonT(60), <1>1, <1>3, SameGrows DEF Parts7, Plain, RegistryExact
<1>5. CASE /\ conn' = [conn EXCEPT ![c] = Resolved(conn[c], Error("ServerError"))]
           /\ actors' = actors
  <2> DEFINE x == Resolved(conn[c], Error("ServerError"))
  <2>1. Fits(c, x, actors, store) /\ x.pc = "reply"
    BY ZenonT(60), <1>1, <1>2, ErrorFits
  <2>2. Steps(c, x)
    BY ZenonT(60), <1>3, <1>5 DEF Steps
  <2> HIDE DEF x
  <2>3. Only(c, conn, conn') /\ conn'[c] = x => Locks(lockq', writer', conn')
    BY ZenonT(60), <1>1, <1>3, <2>1, LockSame DEF Parts7
  <2>4. lockq' \in Seq(Conns) /\ writer' \in Conns \cup {None}
    BY ZenonT(60), <1>1, <1>3 DEF Parts7, Plain
  <2> QED
    BY ZenonT(60), <1>1, <1>3, <2>1, <2>2, <2>3, <2>4, QuietStep
<1>6. CASE /\ HasRoom(a)
           /\ conn' = [conn EXCEPT ![c] = [conn[c] EXCEPT !.pc = "sent"]]
           /\ actors' = [actors EXCEPT ![a] = [actors[a] EXCEPT !.queue = Append(q, c)]]
  <2> DEFINE x == [conn[c] EXCEPT !.pc = "sent"]
             v == [actors[a] EXCEPT !.queue = Append(q, c)]
  <2>1. Fits(c, x, actors, store) /\ x.pc = "sent" /\ x.tx = a
    BY ZenonT(60), <1>1, <1>2, MovedFits
  <2>2. Append(q, c) \in Seq(Conns) /\ Len(Append(q, c)) <= Capacity
    <3>1. Len(q) < Capacity /\ Capacity \in Nat
      BY Zenon, <1>6 DEF HasRoom, BrokerAssumption
    <3> HIDE DEF q
    <3> QED
      BY SMTT(60), <1>2, <3>1, AppendProperties
  <2>3. v \in Channel /\ v.part = actors[a].part /\ v.queue = Append(q, c) /\ v.waiting = w
    <3> DEFINE z == Append(q, c)
    <3> HIDE DEF z
    <3>1. z \in Seq(Conns)
      BY Zenon, <2>2 DEF z
    <3>2. LET u == [actors[a] EXCEPT !.queue = z]
          IN  u \in Channel /\ u.part = actors[a].part /\ u.queue = z /\ u.waiting = w
      BY ZenonT(60), <1>2, <3>1 DEF Channel
    <3> QED
      BY ZenonT(60), <3>2 DEF z
  <2>4. conn' = [conn EXCEPT ![c] = x] /\ actors' = [actors EXCEPT ![a] = v]
    BY Zenon, <1>6
  <2> HIDE DEF x, v
  <2>5. Fits(c, x, actors', store')
    <3>1. actors \in Seq(Channel)
      BY ZenonT(60), <1>1 DEF Parts7, Plain
    <3>2. Keeps(actors, actors')
      BY ZenonT(60), <1>2, <2>3, <2>4, <3>1, ChannelMoves
    <3> QED
      BY ZenonT(60), <1>4, <2>1, <3>2, FitsGrow
  <2>6. ASSUME Only(c, conn, conn'), conn'[c] = x PROVE Lines(a, v, conn')
    <3>1. Held(conn', "sent", a) = Held(conn, "sent", a) \cup {c} /\ c \notin Held(conn, "sent", a)
      BY SMTT(60), <1>1, <2>1, <2>6 DEF Held, Only
    <3>2. Held(conn', "blocked", a) = Held(conn, "blocked", a)
      BY Zenon, <1>1, <2>1, <2>6 DEF Held, Only
    <3>3. Line(q, Held(conn, "sent", a)) /\ Line(w, Held(conn, "blocked", a))
      BY <1>2, ZenonT(60) DEF Lines
    <3> HIDE DEF q, w, a
    <3>4. Line(Append(q, c), Held(conn, "sent", a) \cup {c})
      BY ZenonT(60), <1>2, <3>1, <3>3, LineAppend
    <3> QED
      BY <2>2, <2>3, <3>1, <3>2, <3>3, <3>4, ZenonT(60) DEF Lines
  <2> HIDE DEF a, q, w
  <2>7. conn[c].tx = a
    BY Zenon DEF a
  <2> QED
    BY ZenonT(60), <1>1, <1>2, <1>3, <1>4, <2>1, <2>3, <2>4, <2>5, <2>6, <2>7, ChannelStep
<1>7. CASE /\ conn' = [conn EXCEPT ![c] = [conn[c] EXCEPT !.pc = "blocked"]]
           /\ actors' = [actors EXCEPT ![a] = [actors[a] EXCEPT !.waiting = Append(w, c)]]
  <2> DEFINE x == [conn[c] EXCEPT !.pc = "blocked"]
             v == [actors[a] EXCEPT !.waiting = Append(w, c)]
  <2>1. Fits(c, x, actors, store) /\ x.pc = "blocked" /\ x.tx = a
    BY ZenonT(60), <1>1, <1>2, MovedFits
  <2>2. Append(w, c) \in Seq(Conns)
    BY ZenonT(60), <1>2, AppendProperties
  <2>3. v \in Channel /\ v.part = actors[a].part /\ v.queue = q /\ v.waiting = Append(w, c)
    <3> DEFINE z == Append(w, c)
    <3> HIDE DEF z
    <3>1. z \in Seq(Conns)
      BY ZenonT(60), <2>2 DEF z
    <3>2. LET u == [actors[a] EXCEPT !.waiting = z]
          IN  u \in Channel /\ u.part = actors[a].part /\ u.queue = q /\ u.waiting = z
      BY ZenonT(60), <1>2, <3>1 DEF Channel
    <3> QED
      BY ZenonT(60), <3>2 DEF z
  <2>4. conn' = [conn EXCEPT ![c] = x] /\ actors' = [actors EXCEPT ![a] = v]
    BY ZenonT(60), <1>7
  <2> HIDE DEF x, v
  <2>5. Fits(c, x, actors', store')
    <3>1. actors \in Seq(Channel)
      BY Zenon, <1>1 DEF Parts7, Plain
    <3>2. Keeps(actors, actors')
      BY ZenonT(60), <1>2, <2>3, <2>4, <3>1, ChannelMoves
    <3> QED
      BY SMTT(60), <1>4, <2>1, <3>2, FitsGrow
  <2>6. ASSUME Only(c, conn, conn'), conn'[c] = x PROVE Lines(a, v, conn')
    <3>1. /\ Held(conn', "blocked", a) = Held(conn, "blocked", a) \cup {c}
          /\ c \notin Held(conn, "blocked", a)
      BY SMTT(60), <1>1, <2>1, <2>6 DEF Held, Only
    <3>2. Held(conn', "sent", a) = Held(conn, "sent", a)
      BY Zenon, <1>1, <2>1, <2>6 DEF Held, Only
    <3>3. /\ Line(q, Held(conn, "sent", a)) /\ Line(w, Held(conn, "blocked", a))
          /\ Len(q) <= Capacity
      BY <1>2, ZenonT(60) DEF Lines
    <3> HIDE DEF q, w, a
    <3>4. Line(Append(w, c), Held(conn, "blocked", a) \cup {c})
      BY ZenonT(60), <1>2, <3>1, <3>3, LineAppend
    <3> QED
      BY <2>2, <2>3, <3>1, <3>2, <3>3, <3>4, ZenonT(60) DEF Lines
  <2> HIDE DEF a, q, w
  <2>7. conn[c].tx = a
    BY Zenon DEF a
  <2> QED
    BY ZenonT(60), <1>1, <1>2, <1>3, <1>4, <2>1, <2>3, <2>4, <2>5, <2>6, <2>7, ChannelStep
<1> QED
  BY ZenonT(60), <1>5, <1>6, <1>7 DEF Send

\* A permit is freed and the first waiting sender takes it.
LEMMA UnblockKeeps ==
  ASSUME BrokerAssumption, BrokerInv, NEW c \in Conns, Unblock(c)
  PROVE  BrokerInv'
<1>1. Parts7 /\ conn[c].pc = "blocked"
  BY Taken, ZenonT(60) DEF Unblock, At
<1> DEFINE a == conn[c].tx
           q == actors[a].queue
           w == actors[a].waiting
<1>2. /\ a \in DOMAIN actors /\ actors[a] \in Channel /\ actors[a].part = conn[c].req.part
      /\ q \in Seq(Conns) /\ w \in Seq(Conns) /\ Len(q) \in Nat
      /\ Lines(a, actors[a], conn) /\ Fits(c, conn[c], actors, store)
  BY <1>1, AtChannel, ZenonT(60)
<1>3. /\ phase' = phase /\ topics' = topics /\ lockq' = lockq /\ writer' = writer
      /\ store' = store /\ answered' = answered
  BY ZenonT(60) DEF Unblock
<1>4. /\ store' \in [Parts -> Seq(Record)] /\ Grows(store, store')
      /\ \A p \in Parts : topics[p] = None => store'[p] = <<>>
  BY ZenonT(60), <1>1, <1>3, SameGrows DEF Parts7, Plain, RegistryExact
<1> DEFINE x == [conn[c] EXCEPT !.pc = "sent"]
           v == [actors[a] EXCEPT !.queue = Append(q, c), !.waiting = Tail(w)]
<1>5. /\ Len(q) < Capacity /\ w # <<>> /\ Head(w) = c
      /\ conn' = [conn EXCEPT ![c] = x] /\ actors' = [actors EXCEPT ![a] = v]
  <2>1. Len(q) < Capacity /\ w # <<>> /\ Head(w) = c /\ conn' = [conn EXCEPT ![c] = x]
    BY ZenonT(60) DEF Unblock, HasRoom
  <2>2. actors' = [actors EXCEPT ![a].queue = Append(@, c), ![a].waiting = Tail(@)]
    BY ZenonT(60) DEF Unblock
  <2>3. actors \in Seq(Channel)
    BY ZenonT(60), <1>1 DEF Parts7, Plain
  <2>4. actors' = [actors EXCEPT ![a] = v]
    <3> DEFINE u == [actors EXCEPT ![a].queue = Append(q, c)]
    <3>1. actors' = [u EXCEPT ![a].waiting = Tail(@)]
      BY ZenonT(60), <2>2
    <3> QED
      BY ZenonT(60), <1>2, <2>2, <2>3, <3>1
  <2> QED
    BY ZenonT(60), <2>1, <2>4
<1>6. Fits(c, x, actors, store) /\ x.pc = "sent" /\ x.tx = a
  BY ZenonT(60), <1>1, <1>2, MovedFits
<1>7. /\ Line(q, Held(conn, "sent", a)) /\ Line(w, Held(conn, "blocked", a))
  BY <1>2, ZenonT(60) DEF Lines
<1>8. /\ Append(q, c) \in Seq(Conns) /\ Len(Append(q, c)) <= Capacity
      /\ Tail(w) \in Seq(Conns) /\ Line(Tail(w), Held(conn, "blocked", a) \ {c})
  <2> HIDE DEF q, w
  <2>1. Append(q, c) \in Seq(Conns) /\ Len(Append(q, c)) <= Capacity
    BY SMTT(60), <1>2, <1>5, AppendProperties DEF BrokerAssumption
  <2>2. Tail(w) \in Seq(Conns) /\ Line(Tail(w), Held(conn, "blocked", a) \ {c})
    BY Zenon, <1>2, <1>5, <1>7, LineTail
  <2> QED
    BY ZenonT(60), <2>1, <2>2
<1>9. v \in Channel /\ v.part = actors[a].part /\ v.queue = Append(q, c) /\ v.waiting = Tail(w)
  <2> DEFINE y == Append(q, c)
             z == Tail(w)
  <2> HIDE DEF y, z
  <2>1. y \in Seq(Conns) /\ z \in Seq(Conns)
    BY Zenon, <1>8 DEF y, z
  <2>2. LET u == [actors[a] EXCEPT !.queue = y, !.waiting = z]
        IN  u \in Channel /\ u.part = actors[a].part /\ u.queue = y /\ u.waiting = z
    BY ZenonT(60), <1>2, <2>1 DEF Channel
  <2> QED
    BY ZenonT(60), <2>2 DEF y, z
<1> HIDE DEF x, v
<1>10. Fits(c, x, actors', store')
  <2>1. actors \in Seq(Channel)
    BY Zenon, <1>1 DEF Parts7, Plain
  <2>2. Keeps(actors, actors')
    BY ZenonT(60), <1>2, <1>5, <1>9, <2>1, ChannelMoves
  <2> QED
    BY Zenon, <1>4, <1>6, <2>2, FitsGrow
<1>11. ASSUME Only(c, conn, conn'), conn'[c] = x PROVE Lines(a, v, conn')
  <2>1. Held(conn', "sent", a) = Held(conn, "sent", a) \cup {c} /\ c \notin Held(conn, "sent", a)
    BY SMTT(60), <1>1, <1>6, <1>11 DEF Held, Only
  <2>2. Held(conn', "blocked", a) = Held(conn, "blocked", a) \ {c}
    BY Zenon, <1>1, <1>6, <1>11 DEF Held, Only
  <2> HIDE DEF q, w, a
  <2>3. Line(Append(q, c), Held(conn, "sent", a) \cup {c})
    BY Zenon, <1>2, <1>7, <2>1, LineAppend
  <2> QED
    BY <1>8, <1>9, <2>1, <2>2, <2>3, ZenonT(60) DEF Lines
<1>12. conn[c].tx = a
  OBVIOUS
<1> HIDE DEF a, q, w
<1> QED
  BY ZenonT(60), <1>1, <1>2, <1>3, <1>4, <1>5, <1>6, <1>9, <1>10, <1>11, <1>12, ChannelStep

\* The actor of channel a has carried out the command of c, the first in the
\* channel, with a result that may be sent.
Handled(a, c, result) ==
  /\ actors[a].queue # <<>> /\ c = Head(actors[a].queue)
  /\ conn' = [conn EXCEPT ![c] = Resolved(conn[c], result)]
  /\ actors' = [actors EXCEPT ![a].queue = Tail(actors[a].queue)]
  /\ UNCHANGED <<phase, topics, lockq, writer, answered>>
  /\ store' \in [Parts -> Seq(Record)] /\ Grows(store, store')
  /\ \A p \in Parts \ {actors[a].part} : store'[p] = store[p]
  /\ AckedIn(<<c, conn[c].count>>, conn[c].req, result, store')
  /\ InRealTime(conn[c].req, conn[c].floor, result)

\* The actor answers the command at the head of its queue: what every kind of request keeps.
LEMMA HandledStep ==
  ASSUME BrokerAssumption, Parts7, NEW a \in DOMAIN actors, NEW c, NEW result \in Result,
         Handled(a, c, result)
  PROVE  BrokerInv'
<1> DEFINE q == actors[a].queue
           w == actors[a].waiting
           x == Resolved(conn[c], result)
           v == [actors[a] EXCEPT !.queue = Tail(q)]
<1>1. actors \in Seq(Channel) /\ Lines(a, actors[a], conn)
  BY ZenonT(60) DEF Parts7, Plain, AllLines
<1>2. actors[a] \in Channel /\ q \in Seq(Conns) /\ w \in Seq(Conns)
  BY ZenonT(60), <1>1, ChannelAt
<1>3. Line(q, Held(conn, "sent", a)) /\ Line(w, Held(conn, "blocked", a)) /\ Len(q) <= Capacity
  BY <1>1, ZenonT(60) DEF Lines
<1>4. /\ c \in Conns /\ c \in Held(conn, "sent", a) /\ Tail(q) \in Seq(Conns)
      /\ Line(Tail(q), Held(conn, "sent", a) \ {c}) /\ Len(Tail(q)) = Len(q) - 1
  <2>1. q # <<>> /\ c = Head(q)
    BY ZenonT(60) DEF Handled
  <2> HIDE DEF q
  <2> QED
    BY ZenonT(60), <1>2, <1>3, <2>1, LineTail
<1>5. conn[c].pc = "sent" /\ conn[c].tx = a
  BY ZenonT(60), <1>4 DEF Held
<1>6. /\ actors[a].part = conn[c].req.part /\ topics[conn[c].req.part] = a /\ a # None
      /\ Fits(c, conn[c], actors, store) /\ conn[c].floor <= Len(store[conn[c].req.part])
      /\ conn[c].req.part \in Parts /\ conn[c].floor \in Nat
  <2>1. conn[c].pc \in {"send", "blocked", "sent"}
    BY ZenonT(60), <1>5
  <2>2. /\ actors[a].part = conn[c].req.part /\ topics[conn[c].req.part] = a /\ a # None
        /\ Fits(c, conn[c], actors, store) /\ conn[c].floor <= Len(store[conn[c].req.part])
        /\ conn[c].req.part \in Parts
    BY <1>4, <1>5, <2>1, AtChannel, ZenonT(60)
  <2> QED
    BY ZenonT(60), <1>5, <2>2, FitsKind
<1>7. Fits(c, x, actors', store') /\ x.pc = "reply"
  <2>1. conn[c].floor <= Len(store'[conn[c].req.part])
    <3>1. /\ Len(store[conn[c].req.part]) \in Nat /\ Len(store'[conn[c].req.part]) \in Nat
          /\ Len(store[conn[c].req.part]) <= Len(store'[conn[c].req.part])
      BY <1>6, ZenonT(60) DEF Grows, Handled
    <3> DEFINE low == conn[c].floor
               mid == Len(store[conn[c].req.part])
               top == Len(store'[conn[c].req.part])
    <3>2. low \in Nat /\ mid \in Nat /\ top \in Nat /\ low <= mid /\ mid <= top
      BY Zenon, <1>6, <3>1
    <3> HIDE DEF low, mid, top
    <3>3. low <= top
      BY SMT, <3>2
    <3> QED
      BY Zenon, <3>3 DEF low, top
  <2>2. /\ AckedIn(<<c, conn[c].count>>, conn[c].req, result, store')
        /\ InRealTime(conn[c].req, conn[c].floor, result)
    BY Zenon DEF Handled
  <2> QED
    <3>1. conn[c].pc \notin {"new", "idle", "closed"}
      BY ZenonT(60), <1>5
    <3>2. Fits(c, conn[c], actors, store)
      BY ZenonT(60), <1>6
    <3> QED
      BY <2>1, <2>2, <3>1, <3>2, ResolvedFits, ZenonT(60)
<1>8. v \in Channel /\ v.part = actors[a].part /\ v.queue = Tail(q) /\ v.waiting = w
  <2> DEFINE z == Tail(q)
  <2> HIDE DEF z
  <2>1. z \in Seq(Conns)
    BY Zenon, <1>4 DEF z
  <2>2. LET u == [actors[a] EXCEPT !.queue = z]
        IN  u \in Channel /\ u.part = actors[a].part /\ u.queue = z /\ u.waiting = w
    BY ZenonT(60), <1>2, <2>1 DEF Channel
  <2> QED
    BY Zenon, <2>2 DEF z
<1>9. conn' = [conn EXCEPT ![c] = x] /\ actors' = [actors EXCEPT ![a] = v]
  BY Zenon DEF Handled
<1>10. \A p \in Parts : topics[p] = None => store'[p] = <<>>
  BY ZenonT(60), <1>6 DEF Parts7, RegistryExact, Handled
<1> HIDE DEF x, v
<1>11. ASSUME Only(c, conn, conn'), conn'[c] = x PROVE Lines(a, v, conn')
  <2>1. Held(conn', "sent", a) = Held(conn, "sent", a) \ {c}
    BY ZenonT(60), <1>4, <1>5, <1>7, <1>11 DEF Held, Only
  <2>2. Held(conn', "blocked", a) = Held(conn, "blocked", a)
    BY ZenonT(60), <1>4, <1>5, <1>7, <1>11 DEF Held, Only
  <2>3. Len(Tail(q)) <= Capacity
    <3>1. Len(q) \in Nat /\ Capacity \in Nat
      BY Zenon, <1>2, LenProperties DEF BrokerAssumption
    <3> HIDE DEF q
    <3> QED
      BY SMTT(60), <1>3, <1>4, <3>1
  <2> HIDE DEF q, w
  <2> QED
    BY ZenonT(60), <1>3, <1>4, <1>8, <2>1, <2>2, <2>3 DEF Lines
<1>12. /\ UNCHANGED <<phase, topics, lockq, writer, answered>>
       /\ store' \in [Parts -> Seq(Record)] /\ Grows(store, store')
  BY Zenon DEF Handled
<1> HIDE DEF q, w
<1> QED
  BY ZenonT(60), <1>12, <1>4, <1>5, <1>7, <1>8, <1>9, <1>10, <1>11, ChannelStep

\* A connection's request, by its kind.
LEMMA RequestKind ==
  ASSUME BrokerAssumption, NEW r \in Requests
  PROVE  /\ Size(r) \in Nat \ {0} /\ r.part \in Parts
         /\ r.kind = "fetch" => r.offset \in Nat /\ r.max \in Nat
  BY SMTT(60) DEF BrokerAssumption, Size

\* The answer of read_batch is one that may be sent.
LEMMA FetchesFit ==
  ASSUME BrokerAssumption, NEW r \in Requests, r.kind = "fetch", NEW floor \in Nat,
         store \in [Parts -> Seq(Record)], floor <= Len(store[r.part]), NEW id, NEW result,
         result = IF Found(r.part, r.offset, r.max) THEN Got(store[r.part][r.offset + 1])
                  ELSE Error("OffsetNotFound")
  PROVE  result \in Result /\ AckedIn(id, r, result, store) /\ InRealTime(r, floor, result)
<1>1. r.offset \in Nat /\ r.part \in Parts
  BY Zenon, RequestKind
<1>2. store[r.part] \in Seq(Record) /\ Len(store[r.part]) \in Nat
  BY Zenon, <1>1, LenProperties
<1>3. CASE r.max > 0 /\ r.offset < Len(store[r.part])
  <2> DEFINE rec == store[r.part][r.offset + 1]
  <2>1. rec \in Record
    BY SMTT(60), <1>1, <1>2, <1>3, ElementOfSeq
  <2>2. result = Got(rec)
    BY Zenon, <1>3 DEF Found
  <2> HIDE DEF rec
  <2>3. result \in [is : {"got"}, record : Record] /\ result.is = "got"
    BY SMTT(60), <2>1, <2>2 DEF Got
  <2>4. result \in Result
    BY <2>3, ZenonT(60) DEF Result, Record
  <2>5. \A code : Error(code).is = "error"
    BY Zenon DEF Error
  <2>6. result.is # "wrote" /\ \A code : result # Error(code)
    BY ZenonT(60), <2>3, <2>5
  <2> QED
    BY <2>4, <2>6, ZenonT(60) DEF AckedIn, InRealTime
<1>4. CASE ~(r.max > 0 /\ r.offset < Len(store[r.part]))
  <2>1. result = Error("OffsetNotFound")
    BY ZenonT(60), <1>4 DEF Found
  <2>2. result \in Result /\ result.is = "error"
    BY SMTT(60), <2>1 DEF Error, Result
  <2>3. ~(r.max > 0 /\ r.offset < floor)
    <3> DEFINE o == r.offset
               n == Len(store[r.part])
    <3>1. o \in Nat /\ n \in Nat /\ floor <= n
      BY Zenon, <1>1, <1>2
    <3> HIDE DEF o, n
    <3>2. o < floor => o < n
      BY SMTT(60), <3>1
    <3> QED
      BY Zenon, <1>4, <3>2 DEF o, n
  <2> QED
    BY ZenonT(60), <2>2, <2>3 DEF AckedIn, InRealTime
<1> QED
  BY Zenon, <1>3, <1>4

\* A sequence of records behind another.
LEMMA ConcatRecords ==
  ASSUME NEW s \in Seq(Record), NEW t \in Seq(Record)
  PROVE  /\ s \o t \in Seq(Record) /\ Len(s \o t) = Len(s) + Len(t)
         /\ \A i \in 1 .. Len(s) : (s \o t)[i] = s[i]
         /\ \A i \in 1 .. Len(t) : (s \o t)[Len(s) + i] = t[i]
<1> DEFINE u == s \o t
<1>1. Len(s) \in Nat /\ Len(t) \in Nat
  BY ZenonT(60), LenProperties
<1>2. /\ u \in Seq(Record) /\ Len(u) = Len(s) + Len(t)
      /\ \A i \in 1 .. Len(s) + Len(t) : u[i] = IF i <= Len(s) THEN s[i] ELSE t[i - Len(s)]
  BY ZenonT(60), ConcatProperties
<1> HIDE DEF u
<1>3. \A i \in 1 .. Len(s) : u[i] = s[i]
  BY SMTT(60), <1>1, <1>2
<1>4. ASSUME NEW i \in 1 .. Len(t) PROVE u[Len(s) + i] = t[i]
  <2>1. Len(s) + i \in 1 .. Len(s) + Len(t) /\ ~(Len(s) + i <= Len(s)) /\ (Len(s) + i) - Len(s) = i
    BY SMTT(60), <1>1
  <2> QED
    BY ZenonT(60), <1>2, <2>1
<1> QED
  BY ZenonT(60), <1>2, <1>3, <1>4 DEF u

\* The name of a record.
LEMMA RecordName ==
  ASSUME NEW c, NEW count, NEW i
  PROVE  <<c, count>> \o <<i>> = <<c, count, i>>
<1> DEFINE s == <<c, count>> \o <<i>>
           t == <<c, count, i>>
           T == {c, count, i}
<1>1. s \in Seq(T) /\ t \in Seq(T)
  OBVIOUS
<1>2. Len(s) = 3 /\ s[1] = c /\ s[2] = count /\ s[3] = i
  OBVIOUS
<1>3. Len(t) = 3 /\ t[1] = c /\ t[2] = count /\ t[3] = i
  OBVIOUS
<1> HIDE DEF s, t
<1>4. \A j \in 1 .. Len(s) : s[j] = t[j]
  BY SMTT(60), <1>2, <1>3
<1>5. s = t
  BY SMTT(60), <1>1, <1>2, <1>3, <1>4, SeqEqual
<1> QED
  BY ZenonT(60), <1>5 DEF s, t

\* The first k records of request r of c, the count-th, have been appended to s.
Appended(c, count, r, s, k, floor, u, st, result) ==
  /\ c \in Conns /\ r \in Requests /\ count \in Nat /\ s \in Seq(Record)
  /\ k \in 0 .. Size(r) /\ floor \in Nat /\ floor <= Len(s)
  /\ u = s \o [i \in 1 .. k |-> <<c, count, i>>] /\ st[r.part] = u
  /\ result = IF k = Size(r) THEN Wrote(Len(s)) ELSE Error("MessageTooLarge")

\* Partition::append and append_batch: where the records come to be.
LEMMA AppendsFit ==
  ASSUME BrokerAssumption, NEW c, NEW count, NEW r, NEW s, NEW k, NEW floor, NEW u, NEW st,
         NEW result, Appended(c, count, r, s, k, floor, u, st, result)
  PROVE  /\ u \in Seq(Record) /\ Len(s) \in Nat /\ Len(u) \in Nat /\ Len(s) <= Len(u)
         /\ \A i \in 1 .. Len(s) : u[i] = s[i]
         /\ result \in Result /\ AckedIn(<<c, count>>, r, result, st)
         /\ InRealTime(r, floor, result)
<1> USE DEF Appended
<1> DEFINE t == [i \in 1 .. k |-> <<c, count, i>>]
           n == Len(s)
<1>1. Size(r) \in Nat /\ k \in Nat
  <2>1. Size(r) \in Nat \ {0}
    BY Zenon, RequestKind
  <2> QED
    BY SMTT(60), <2>1
<1>2. n \in Nat
  BY Zenon, LenProperties
<1>3. t \in Seq(Record) /\ Len(t) = k /\ \A i \in 1 .. k : t[i] = <<c, count, i>>
  <2>1. \A i \in 1 .. k : <<c, count, i>> \in Record
    BY SMTT(60), <1>1 DEF Record
  <2> QED
    BY SMTT(60), <1>1, <2>1
<1>4. u = s \o t
  OBVIOUS
<1> HIDE DEF t
<1>5. u \in Seq(Record) /\ Len(u) = n + k /\ \A i \in 1 .. n : u[i] = s[i]
  <2>1. /\ s \o t \in Seq(Record) /\ Len(s \o t) = n + Len(t)
        /\ \A i \in 1 .. n : (s \o t)[i] = s[i]
    BY ZenonT(60), <1>3, ConcatRecords
  <2> QED
    BY <1>3, <1>4, <2>1, ZenonT(60)
<1>6. \A i \in 1 .. k : u[n + i] = <<c, count, i>>
  <2>1. \A i \in 1 .. Len(t) : (s \o t)[n + i] = t[i]
    BY ZenonT(60), <1>3, ConcatRecords
  <2>2. \A i \in 1 .. k : u[n + i] = t[i]
    BY <1>3, <1>4, <2>1, ZenonT(60)
  <2> QED
    BY <1>3, <2>2, ZenonT(60)
<1> HIDE DEF n
<1>7. n <= Len(u) /\ Len(u) \in Nat /\ n = Len(s)
  BY SMTT(60), <1>1, <1>2, <1>5 DEF n
<1>8. CASE k = Size(r)
  <2>1. result = Wrote(n)
    BY Zenon, <1>7, <1>8
  <2>2. result \in Result /\ result.is = "wrote" /\ result.offset = n
    BY SMTT(60), <1>2, <2>1 DEF Wrote, Result
  <2>3. AckedIn(<<c, count>>, r, result, st)
    <3>1. \A i \in 1 .. k : n + i <= Len(u)
      BY SMTT(60), <1>1, <1>2, <1>5
    <3>2. ASSUME NEW i \in 1 .. Size(r)
          PROVE  /\ result.offset + i <= Len(st[r.part])
                 /\ st[r.part][result.offset + i] = <<c, count>> \o <<i>>
      <4>1. u[n + i] = <<c, count>> \o <<i>>
        BY ZenonT(60), <1>6, <1>8, RecordName
      <4> QED
        BY ZenonT(60), <1>8, <2>2, <3>1, <4>1
    <3> QED
      BY <3>2, ZenonT(60) DEF AckedIn
  <2>4. InRealTime(r, floor, result)
    BY SMTT(60), <1>2, <1>7, <2>2 DEF InRealTime, Error
  <2> QED
    BY Zenon, <1>2, <1>5, <1>7, <2>2, <2>3, <2>4
<1>9. CASE k # Size(r)
  <2>1. result \in Result /\ result.is = "error" /\ result.code = "MessageTooLarge"
    BY Zenon, <1>9 DEF Error, Result
  <2>2. \A code : Error(code).code = code
    BY ZenonT(60) DEF Error
  <2>3. result.is # "wrote" /\ result # Error("OffsetNotFound") /\ result # Error("PartitionNotFound")
    BY ZenonT(60), <2>1, <2>2
  <2>4. AckedIn(<<c, count>>, r, result, st) /\ InRealTime(r, floor, result)
    BY <2>3, ZenonT(60) DEF AckedIn, InRealTime
  <2> QED
    BY Zenon, <1>2, <1>5, <1>7, <2>1, <2>4
<1> QED
  BY ZenonT(60), <1>8, <1>9

\* The actor handles a command.
LEMMA HandleKeeps ==
  ASSUME BrokerAssumption, BrokerInv, NEW a \in DOMAIN actors, Handle(a)
  PROVE  BrokerInv'
<1>1. Parts7
  BY Taken, ZenonT(60)
<1> DEFINE c == Head(actors[a].queue)
           p == actors[a].part
<1>2. /\ actors[a].queue # <<>> /\ UNCHANGED <<phase, topics, lockq, writer, answered>>
      /\ actors' = [actors EXCEPT ![a].queue = Tail(actors[a].queue)]
  BY ZenonT(60) DEF Handle, Runs
<1>3. /\ c \in Conns /\ conn[c].pc = "sent" /\ conn[c].tx = a
  <2>1. actors \in Seq(Channel) /\ Lines(a, actors[a], conn)
    BY <1>1, ZenonT(60) DEF Parts7, Plain, AllLines
  <2>2. actors[a].queue \in Seq(Conns)
    BY SMTT(60), <2>1, ChannelAt
  <2>3. Line(actors[a].queue, Held(conn, "sent", a))
    BY <2>1, ZenonT(60) DEF Lines
  <2>4. c \in Held(conn, "sent", a)
    BY <1>2, <2>2, <2>3, LineTail, ZenonT(60)
  <2> QED
    BY ZenonT(60), <2>4 DEF Held
<1> HIDE DEF c
<1>4. /\ conn[c].req.part = p /\ p \in Parts /\ conn[c].floor <= Len(store[p])
      /\ conn[c].floor \in Nat /\ conn[c].count \in Nat /\ conn[c].req \in Requests
  <2>1. conn[c].pc \in {"send", "blocked", "sent"}
    BY ZenonT(60), <1>3
  <2>2. /\ p = conn[c].req.part /\ Fits(c, conn[c], actors, store)
        /\ conn[c].floor <= Len(store[conn[c].req.part]) /\ conn[c].req.part \in Parts
    BY <1>1, <1>3, <2>1, AtChannel, ZenonT(60)
  <2>3. conn[c].floor \in Nat /\ conn[c].count \in Nat /\ conn[c].req \in Requests
    BY SMTT(60), <1>3, <2>2, FitsKind
  <2> QED
    BY <2>2, <2>3, ZenonT(60)
<1>5. store \in [Parts -> Seq(Record)] /\ Grows(store, store)
  BY ZenonT(60), <1>1, SameGrows DEF Parts7, Plain
<1>6. ASSUME conn[c].req.kind = "fetch", Fetches(c, p) PROVE BrokerInv'
  <2> DEFINE o == conn[c].req.offset
             result == IF Found(p, o, conn[c].req.max) THEN Got(store[p][o + 1])
                       ELSE Error("OffsetNotFound")
  <2>1. conn' = [conn EXCEPT ![c] = Resolved(conn[c], result)] /\ store' = store
    BY ZenonT(60), <1>6 DEF Fetches
  <2>2. result \in Result /\ AckedIn(<<c, conn[c].count>>, conn[c].req, result, store)
        /\ InRealTime(conn[c].req, conn[c].floor, result)
    BY ZenonT(60), <1>4, <1>5, <1>6, FetchesFit
  <2> HIDE DEF result
  <2>3. Handled(a, c, result)
    BY SMTT(60), <1>2, <1>5, <2>1, <2>2 DEF Handled, c
  <2> QED
    BY ZenonT(60), <1>1, <2>2, <2>3, HandledStep
<1>7. ASSUME conn[c].req.kind # "fetch", Appends(c, p) PROVE BrokerInv'
  <2> DEFINE r == conn[c].req
  <2>1. PICK k \in 0 .. Size(r) :
          /\ store' = [store EXCEPT ![p] = store[p] \o Payloads(c, k)]
          /\ conn' = [conn EXCEPT ![c] = Resolved(conn[c],
               IF k = Size(r) THEN Wrote(FirstOffset(c, p)) ELSE Error("MessageTooLarge"))]
    BY <1>7, ZenonT(60) DEF Appends, Verdict
  <2> DEFINE result == IF k = Size(r) THEN Wrote(Len(store[p])) ELSE Error("MessageTooLarge")
             u == store[p] \o [i \in 1 .. k |-> <<c, conn[c].count, i>>]
  <2>2. /\ store' = [store EXCEPT ![p] = u]
        /\ conn' = [conn EXCEPT ![c] = Resolved(conn[c], result)]
    BY <2>1, ZenonT(60) DEF Payloads, FirstOffset
  <2>3. store[p] \in Seq(Record) /\ store'[p] = u /\ \A q \in Parts \ {p} : store'[q] = store[q]
    BY ZenonT(60), <1>4, <1>5, <2>2
  <2>4. /\ u \in Seq(Record) /\ Len(store[p]) \in Nat /\ Len(u) \in Nat /\ Len(store[p]) <= Len(u)
        /\ \A i \in 1 .. Len(store[p]) : u[i] = store[p][i]
        /\ result \in Result /\ AckedIn(<<c, conn[c].count>>, r, result, store')
        /\ InRealTime(r, conn[c].floor, result)
    <3>1. Appended(c, conn[c].count, r, store[p], k, conn[c].floor, u, store', result)
      BY <1>3, <1>4, <2>3, ZenonT(60) DEF Appended
    <3> HIDE DEF r, u, result
    <3> QED
      BY <3>1, AppendsFit, ZenonT(60)
  <2> HIDE DEF result, u
  <2>5. store' \in [Parts -> Seq(Record)] /\ Grows(store, store')
    <3>1. store' \in [Parts -> Seq(Record)]
      BY SMTT(60), <1>4, <1>5, <2>2, <2>4
    <3>2. \A q \in Parts : Len(store[q]) \in Nat
      BY ZenonT(60), <1>5, LenProperties
    <3>3. ASSUME NEW q \in Parts
          PROVE  /\ Len(store[q]) \in Nat /\ Len(store'[q]) \in Nat
                 /\ Len(store[q]) <= Len(store'[q])
                 /\ \A i \in 1 .. Len(store[q]) : store'[q][i] = store[q][i]
      <4>1. CASE q = p
        BY <2>3, <2>4, <4>1, ZenonT(60)
      <4>2. CASE q # p
        <5>1. store'[q] = store[q] /\ Len(store[q]) \in Nat
          BY ZenonT(60), <2>3, <3>2, <4>2
        <5> QED
          BY SMTT(60), <5>1
      <4> QED
        BY <4>1, <4>2, ZenonT(60)
    <3> QED
      BY ZenonT(60), <3>1, <3>3 DEF Grows
  <2>6. Handled(a, c, result)
    BY Zenon, <1>2, <2>2, <2>3, <2>4, <2>5 DEF Handled, c
  <2> QED
    BY <1>1, <2>4, <2>6, HandledStep, ZenonT(60)
<1> QED
  BY <1>6, <1>7, ZenonT(60) DEF Handle, c

\* An actor task panics: its channel closes and every sender in line gets an error.
LEMMA PanicKeeps ==
  ASSUME BrokerAssumption, BrokerInv, NEW a \in DOMAIN actors, Panic(a)
  PROVE  BrokerInv'
<1>1. Parts7 /\ actors \in Seq(Channel) /\ Lines(a, actors[a], conn)
  BY Taken, ZenonT(60) DEF Parts7, Plain, AllLines
<1> DEFINE D == Held(conn, "sent", a) \cup Held(conn, "blocked", a)
           v == [actors[a] EXCEPT !.alive = FALSE, !.queue = <<>>, !.waiting = <<>>]
<1>2. /\ conn' = [c \in Conns |-> IF c \in D THEN Resolved(conn[c], Error("ServerError"))
                                  ELSE conn[c]]
      /\ phase' = phase /\ topics' = topics /\ lockq' = lockq /\ writer' = writer
      /\ store' = store /\ answered' = answered
  <2>1. Dropped(a) = D
    BY <1>1, ZenonT(60) DEF Dropped, Lines, Line
  <2> QED
    BY ZenonT(60), <2>1 DEF Panic
<1>3. actors' = [actors EXCEPT ![a] = v]
  BY ZenonT(60) DEF Panic
<1>4. /\ v \in Channel /\ v.part = actors[a].part /\ v.queue = <<>> /\ v.waiting = <<>>
  <2>1. actors[a] \in Channel
    BY ZenonT(60), <1>1, ChannelAt
  <2> DEFINE e == <<>>
  <2>2. e \in Seq(Conns)
    OBVIOUS
  <2> HIDE DEF e
  <2>3. LET u == [actors[a] EXCEPT !.alive = FALSE, !.queue = e, !.waiting = e]
        IN  u \in Channel /\ u.part = actors[a].part /\ u.queue = e /\ u.waiting = e
    BY ZenonT(60), <2>1, <2>2 DEF Channel
  <2> QED
    BY ZenonT(60), <2>3 DEF e
<1> HIDE DEF v
<1>5. /\ actors' \in Seq(Channel) /\ DOMAIN actors' = DOMAIN actors
      /\ Keeps(actors, actors') /\ actors'[a] = v
      /\ \A b \in DOMAIN actors : b # a => actors'[b] = actors[b]
  BY ZenonT(60), <1>1, <1>3, <1>4, ChannelMoves
<1>6. \A c \in D : c \in Conns /\ conn[c].pc \in {"blocked", "sent"} /\ conn[c].tx = a
  BY ZenonT(60) DEF Held
<1>7. \A c \in Conns : conn[c].pc \in {"blocked", "sent"} /\ conn[c].tx = a => c \in D
  BY ZenonT(60) DEF Held
<1> HIDE DEF D
<1>8. ASSUME NEW c \in Conns
      PROVE  /\ c \in D => Fits(c, conn'[c], actors', store') /\ conn'[c].pc = "reply"
             /\ c \notin D => Fits(c, conn'[c], actors', store') /\ conn'[c] = conn[c]
  <2>1. Fits(c, conn[c], actors, store)
    BY <1>1, ZenonT(60) DEF Parts7, AllFit
  <2>2. CASE c \in D
    <3>1. conn[c].pc \notin {"new", "idle", "closed"}
      BY ZenonT(60), <1>6, <2>2
    <3>2. conn[c].floor <= Len(store[conn[c].req.part])
      BY ZenonT(60), <2>1, <3>1 DEF Fits
    <3> DEFINE x == Resolved(conn[c], Error("ServerError"))
    <3>3. Fits(c, x, actors', store) /\ x.pc = "reply"
      <4>1. /\ "ServerError" \in {"PartitionNotFound", "OffsetNotFound", "MessageTooLarge",
                                "StorageError", "ServerError"}
            /\ "ServerError" \notin {"OffsetNotFound", "PartitionNotFound"}
        BY Zenon
      <4> QED
        BY ZenonT(60), <2>1, <3>1, <3>2, <4>1, ErrorFits
    <3> HIDE DEF x
    <3>4. conn'[c] = x
      BY ZenonT(60), <1>2, <2>2 DEF x
    <3> QED
      BY <1>2, <2>2, <3>3, <3>4, ZenonT(60)
  <2>3. CASE c \notin D
    <3>1. conn'[c] = conn[c]
      BY ZenonT(60), <1>2, <2>3
    <3>2. Grows(store, store)
      BY ZenonT(60), <1>1, SameGrows DEF Parts7
    <3>3. Fits(c, conn[c], actors', store)
      BY <1>5, <2>1, <3>2, FitsGrow, ZenonT(60)
    <3> QED
      BY <1>2, <2>3, <3>1, <3>3, ZenonT(60)
  <2> QED
    BY <2>2, <2>3, ZenonT(60)
<1>9. AllFit'
  <2>1. conn' = [c \in Conns |-> conn'[c]]
    BY ZenonT(60), <1>2
  <2> QED
    BY <1>8, <2>1, ZenonT(60) DEF AllFit
<1>10. Plain'
  BY ZenonT(60), <1>1, <1>2, <1>5 DEF Parts7, Plain
<1>11. AllLines'
  <2>1. Lines(a, actors'[a], conn')
    <3>1. Held(conn', "sent", a) = {} /\ Held(conn', "blocked", a) = {}
      <4>1. \A c \in Conns : ~(conn'[c].pc \in {"blocked", "sent"} /\ conn'[c].tx = a)
        BY ZenonT(60), <1>7, <1>8
      <4> QED
        BY ZenonT(60), <4>1 DEF Held
    <3>2. 0 <= Capacity
      BY DEF BrokerAssumption
    <3> QED
      BY ZenonT(60), <1>4, <1>5, <3>1, <3>2, LineEmpty DEF Lines
  <2>2. ASSUME NEW b \in DOMAIN actors, b # a PROVE Lines(b, actors'[b], conn')
    <3>0. ASSUME NEW c \in Conns, NEW q \in {"sent", "blocked"}
          PROVE  (conn'[c].pc = q /\ conn'[c].tx = b) <=> (conn[c].pc = q /\ conn[c].tx = b)
      <4>1. CASE c \in D
        <5>1. conn[c].tx # b
          BY <1>6, <2>2, <4>1, ZenonT(60)
        <5>2. conn'[c].pc = "reply"
          BY <1>8, <4>1, ZenonT(60)
        <5>3. conn'[c].pc # q
          BY ZenonT(60), <5>2
        <5> QED
          BY <5>1, <5>3, ZenonT(60)
      <4>2. CASE c \notin D
        BY <1>8, <4>2, ZenonT(60)
      <4> QED
        BY <4>1, <4>2, ZenonT(60)
    <3>1. \A c \in Conns : (conn'[c].pc = "sent" /\ conn'[c].tx = b) <=>
                           (conn[c].pc = "sent" /\ conn[c].tx = b)
      BY <3>0, ZenonT(60)
    <3>2. \A c \in Conns : (conn'[c].pc = "blocked" /\ conn'[c].tx = b) <=>
                           (conn[c].pc = "blocked" /\ conn[c].tx = b)
      BY <3>0, ZenonT(60)
    <3>3. Held(conn', "sent", b) = Held(conn, "sent", b)
      BY <3>1, ZenonT(60) DEF Held
    <3>4. Held(conn', "blocked", b) = Held(conn, "blocked", b)
      BY <3>2, ZenonT(60) DEF Held
    <3>5. Lines(b, actors[b], conn) /\ actors'[b] = actors[b]
      BY <1>1, <1>5, <2>2, ZenonT(60) DEF Parts7, AllLines
    <3> QED
      BY <3>3, <3>4, <3>5, ZenonT(60) DEF Lines
  <2> QED
    BY <1>5, <2>1, <2>2, ZenonT(60) DEF AllLines
<1>12. \A c \in Conns : \A pc \in {"read", "write", "open"} : conn'[c].pc = pc <=> conn[c].pc = pc
  BY ZenonT(60), <1>6, <1>8
<1>13. Locks(lockq', writer', conn')
  <2>1. AtLock(conn') = AtLock(conn)
    BY ZenonT(60), <1>12 DEF AtLock
  <2>2. \A c \in Conns : conn'[c].pc = "open" <=> writer = c
    BY ZenonT(60), <1>1, <1>12 DEF Parts7, Locks
  <2> QED
    BY <1>1, <1>2, <2>1, <2>2, ZenonT(60) DEF Parts7, Locks
<1>14. RegistryExact'
  <2>1. \A p \in Parts : topics[p] # None => topics[p] \in DOMAIN actors
    BY ZenonT(60), <1>1 DEF Parts7, Plain
  <2>2. \A b \in DOMAIN actors : actors'[b].part = actors[b].part
    BY <1>5, ZenonT(60) DEF Keeps
  <2>3. \A p \in Parts : topics'[p] # None => actors'[topics'[p]].part = p
    BY <1>1, <1>2, <2>1, <2>2, ZenonT(60) DEF Parts7, RegistryExact
  <2>4. \A b \in DOMAIN actors' : topics'[actors'[b].part] = b
    BY <1>1, <1>2, <1>5, <2>2, ZenonT(60) DEF Parts7, RegistryExact
  <2>5. \A c \in Conns : conn'[c].pc = "open" => topics'[conn'[c].req.part] = None
    <3>1. \A c \in Conns : conn'[c].pc = "open" => conn'[c] = conn[c]
      BY ZenonT(60), <1>8
    <3> QED
      BY <1>1, <1>2, <3>1, ZenonT(60) DEF Parts7, RegistryExact
  <2>6. \A p \in Parts : topics'[p] = None => store'[p] = <<>>
    BY <1>1, <1>2, ZenonT(60) DEF Parts7, RegistryExact
  <2> QED
    BY ZenonT(60), <2>3, <2>4, <2>5, <2>6 DEF RegistryExact
<1>15. AckedAtOffset' /\ RealTimeOrder'
  <2>1. Grows(store, store')
    BY ZenonT(60), <1>1, <1>2, SameGrows DEF Parts7
  <2> QED
    BY SMTT(60), <1>1, <1>2, <2>1, AnswersKept DEF Parts7
<1> QED
  BY ZenonT(60), <1>9, <1>10, <1>11, <1>13, <1>14, <1>15, TakenNext DEF Parts7

-----------------------------------------------------------------------------
\* The theorems.

\* The registry that startup builds satisfies BrokerInv.
LEMMA BrokerInit ==
  ASSUME BrokerAssumption, Init
  PROVE  BrokerInv
<1> DEFINE N == Cardinality(Known)
<1>1. N \in Nat /\ Known \subseteq Parts
  BY ZenonT(60) DEF BrokerAssumption
<1> HIDE DEF N
<1>2. PICK listed \in Bijection(1 .. N, Known) :
        /\ actors = [i \in DOMAIN listed |-> NewActor(listed[i])]
        /\ topics = [p \in Parts |->
                       IF p \in Known THEN CHOOSE i \in DOMAIN listed : listed[i] = p ELSE None]
  BY ZenonT(60) DEF Init, N
<1>3. /\ listed \in [1 .. N -> Known] /\ \A p \in Known : \E i \in 1 .. N : listed[i] = p
      /\ \A i, j \in 1 .. N : listed[i] = listed[j] => i = j
  BY ZenonT(60) DEF Bijection, Injection, Surjection, IsInjective
<1>4. /\ DOMAIN actors = 1 .. N
      /\ \A i \in 1 .. N : actors[i] = NewActor(listed[i]) /\ listed[i] \in Parts
  BY ZenonT(60), <1>1, <1>2, <1>3
<1>5. \A p \in Parts : NewActor(p) \in Channel
  BY SMTT(60) DEF NewActor, Channel
<1>6. actors \in Seq(Channel)
  <2>1. actors = [i \in 1 .. N |-> NewActor(listed[i])]
    BY ZenonT(60), <1>2, <1>3
  <2>2. \A i \in 1 .. N : NewActor(listed[i]) \in Channel
    BY ZenonT(60), <1>4, <1>5
  <2> QED
    BY SMTT(60), <1>1, <2>1, <2>2
<1>7. /\ \A p \in Known : topics[p] \in 1 .. N /\ listed[topics[p]] = p
      /\ \A p \in Parts \ Known : topics[p] = None
  BY ZenonT(60), <1>1, <1>2, <1>3
<1>8. /\ phase = "up" /\ lockq = <<>> /\ writer = None /\ answered = {}
      /\ conn = [c \in Conns |-> [pc |-> "new", count |-> 0]]
      /\ store = [p \in Parts |-> <<>>]
  BY Zenon DEF Init
<1>9. Plain
  <2>1. topics \in [Parts -> DOMAIN actors \cup {None}]
    BY Zenon, <1>2, <1>4, <1>7
  <2> QED
    BY SMTT(60), <1>6, <1>8, <2>1 DEF Plain
<1>10. \A c \in Conns : conn[c] = [pc |-> "new", count |-> 0] /\ conn[c].pc = "new"
  BY Zenon, <1>8
<1>11. AllFit
  <2>1. conn = [c \in Conns |-> conn[c]]
    BY ZenonT(60), <1>8
  <2>2. \A c \in Conns : Fits(c, conn[c], actors, store)
    BY SMTT(60), <1>10 DEF Fits, Resting
  <2> QED
    BY <2>1, <2>2, ZenonT(60) DEF AllFit
<1>12. AllLines
  <2>1. \A a : Held(conn, "sent", a) = {} /\ Held(conn, "blocked", a) = {}
    BY Zenon, <1>10 DEF Held
  <2>2. \A p : NewActor(p).queue = <<>> /\ NewActor(p).waiting = <<>>
    BY Zenon DEF NewActor
  <2>3. 0 <= Capacity
    BY DEF BrokerAssumption
  <2>4. ASSUME NEW a \in DOMAIN actors PROVE Lines(a, actors[a], conn)
    <3>1. actors[a].queue = <<>> /\ actors[a].waiting = <<>>
      BY SMTT(60), <1>4, <2>2
    <3> QED
      BY <2>1, <2>3, <3>1, LineEmpty, ZenonT(60) DEF Lines
  <2> QED
    BY <2>4, ZenonT(40) DEF AllLines
<1>13. Locks(lockq, writer, conn)
  <2>1. AtLock(conn) = {} /\ \A c \in Conns : conn[c].pc # "open"
    BY ZenonT(60), <1>10 DEF AtLock
  <2>2. \A c \in Conns : None # c
    BY ZenonT(60) DEF BrokerAssumption
  <2> QED
    BY ZenonT(60), <1>8, <2>1, <2>2, LineEmpty DEF Locks
<1>14. RegistryExact
  <2>1. \A p : NewActor(p).part = p
    BY ZenonT(60) DEF NewActor
  <2>2. \A p \in Parts : topics[p] # None => actors[topics[p]].part = p
    BY <1>4, <1>7, <2>1, ZenonT(60)
  <2>3. ASSUME NEW a \in DOMAIN actors PROVE topics[actors[a].part] = a
    <3>1. a \in 1 .. N /\ actors[a].part = listed[a] /\ listed[a] \in Known
      BY SMTT(60), <1>3, <1>4, <2>1
    <3>2. topics[listed[a]] \in 1 .. N /\ listed[topics[listed[a]]] = listed[a]
      BY <1>7, <3>1, ZenonT(60)
    <3>3. topics[listed[a]] = a
      BY SMTT(60), <1>3, <3>1, <3>2
    <3> QED
      BY ZenonT(60), <3>1, <3>3
  <2>4. \A c \in Conns : conn[c].pc # "open"
    BY ZenonT(60), <1>10
  <2>5. \A p \in Parts : store[p] = <<>>
    BY ZenonT(60), <1>8
  <2> QED
    BY ZenonT(60), <2>2, <2>3, <2>4, <2>5 DEF RegistryExact
<1>15. AckedAtOffset /\ RealTimeOrder
  BY <1>8, ZenonT(60) DEF AckedAtOffset, RealTimeOrder
<1> QED
  BY ZenonT(60), <1>9, <1>11, <1>12, <1>13, <1>14, <1>15, Taken DEF Parts7

\* Every step of the broker keeps BrokerInv.
LEMMA BrokerStep ==
  ASSUME BrokerAssumption, BrokerInv, [Next]_vars
  PROVE  BrokerInv'
<1>1. ASSUME NEW c \in Conns, Accept(c) \/ Hangup(c) PROVE BrokerInv'
  BY <1>1, AcceptKeeps, HangupKeeps, ZenonT(60)
<1>2. ASSUME NEW c \in Conns, Serve(c) PROVE BrokerInv'
  BY ZenonT(60), <1>2, ReadLockKeeps, WriteLockKeeps, OpenKeeps, OpenFailsKeeps, SendKeeps, UnblockKeeps,
     RespondKeeps, RespondFailsKeeps DEF Serve
<1>3. ASSUME NEW c \in Conns, NEW r \in Requests, Take(c, r) PROVE BrokerInv'
  BY <1>3, TakeKeeps, ZenonT(60)
<1>4. ASSUME NEW a \in DOMAIN actors, Handle(a) \/ Panic(a) PROVE BrokerInv'
  BY <1>4, HandleKeeps, PanicKeeps, ZenonT(60)
<1>5. CASE Shutdown
  BY <1>5, ShutdownKeeps, ZenonT(60)
<1>6. CASE UNCHANGED vars
  <2>1. /\ phase' = phase /\ conn' = conn /\ topics' = topics /\ lockq' = lockq
        /\ writer' = writer /\ actors' = actors /\ store' = store /\ answered' = answered
    BY ZenonT(60), <1>6 DEF vars
  <2>2. Parts7
    BY Taken, ZenonT(60)
  <2>3. Parts7'
    BY <2>1, <2>2, ZenonT(60) DEF Parts7, Plain, AllFit, AllLines, RegistryExact, AckedAtOffset,
                             AckedAt, RealTimeOrder
  <2> QED
    BY <2>3, TakenNext, ZenonT(60)
<1> QED
  BY <1>1, <1>2, <1>3, <1>4, <1>5, <1>6, ZenonT(60) DEF Next

\* The state of handler.rs, topic.rs and the actors between two steps is as
\* BrokerInv says, however many tasks and partitions there are.
THEOREM BrokerInvariance == Spec => []BrokerInv
<1>1. Init => BrokerInv
  BY SMTT(60), BrokerInit, BrokerAssumption
<1>2. BrokerInv /\ [Next]_vars => BrokerInv'
  BY ZenonT(60), BrokerStep, BrokerAssumption
<1> QED
  BY <1>1, <1>2, PTL DEF Spec

\* Every variable keeps its type, and a connection sends to the channel of its
\* request's partition (handler.rs).
THEOREM BrokerTypes == Spec => []TypeOK
<1>1. BrokerInv => TypeOK
  BY SMTT(60) DEF BrokerInv
<1> QED
  BY <1>1, BrokerInvariance, PTL

\* get_or_create_partition spawns at most one actor for a partition.
THEOREM SingleActor == Spec => []OneActorPerPartition
<1>1. BrokerInv => OneActorPerPartition
  BY ZenonT(60) DEF BrokerInv, RegistryExact, OneActorPerPartition
<1> QED
  BY <1>1, BrokerInvariance, PTL

\* The channels keep to their capacity, and a command is in one exactly while its
\* task waits for the answer.
THEOREM BoundedChannels == Spec => []ChannelBounded
<1>1. BrokerInv => ChannelBounded
  BY ZenonT(60) DEF BrokerInv
<1> QED
  BY <1>1, BrokerInvariance, PTL

\* What a producer was told is where its records are.
THEOREM AckedWhereTold == Spec => []AckedAtOffset
<1>1. BrokerInv => AckedAtOffset
  BY ZenonT(60) DEF BrokerInv
<1> QED
  BY <1>1, BrokerInvariance, PTL

\* A request that was sent after a response was received is served after it.
THEOREM ServedInRealTime == Spec => []RealTimeOrder
<1>1. BrokerInv => RealTimeOrder
  BY Zenon DEF BrokerInv
<1> QED
  BY <1>1, BrokerInvariance, PTL
===============================================================================
