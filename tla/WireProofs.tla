----------------------------- MODULE WireProofs -----------------------------
(***************************************************************************)
(* Proofs about Wire: for every script, every frame size limit, every       *)
(* socket capacity and every way of cutting the byte stream into reads and  *)
(* writes, the frames decoded are the frames encoded, and the connection    *)
(* implements Session.                                                      *)
(***************************************************************************)
EXTENDS CodecProofs

-----------------------------------------------------------------------------
\* One direction of the connection: what sending, moving bytes and decoding do.

\* A typed direction whose bytes are its frames.
StreamOK(p, s, g) ==
  /\ p \in Pipe /\ InOrder(p)
  /\ s \in Seq(Frame) /\ g \in Seq(Frame)
  /\ FramedStream(p, s, g)

\* Bytes that move on to the socket or to the reader stay the same bytes.
LEMMA MoveKeeps ==
  ASSUME NEW p, NEW s, NEW g, StreamOK(p, s, g), NEW q \in Pipe, InOrder(q),
         q.bytes = p.bytes, q.ends = p.ends, q.consumed = p.consumed
  PROVE  StreamOK(q, s, g)
<1>1. \A i : EndOf(q, i) = EndOf(p, i)
  BY Zenon DEF EndOf
<1> QED
  BY ZenonT(60), <1>1 DEF StreamOK, FramedStream, FrameInPlace

\* The facts about lengths and ends the other two need.
LEMMA StreamFacts ==
  ASSUME NEW p, NEW s, NEW g, StreamOK(p, s, g)
  PROVE  /\ Len(s) \in Nat /\ Len(g) \in Nat /\ Len(p.bytes) \in Nat
         /\ p.bytes \in Seq(Byte) /\ p.ends \in Seq(Nat) /\ Len(p.ends) = Len(s)
         /\ p.written \in Nat /\ p.arrived \in Nat /\ p.consumed \in Nat
         /\ \A i \in 0..Len(s) : EndOf(p, i) \in Nat
<1>1. p.bytes \in Seq(Byte) /\ p.ends \in Seq(Nat)
  BY Zenon DEF StreamOK, Pipe
<1>2. Len(p.ends) = Len(s) /\ s \in Seq(Frame) /\ g \in Seq(Frame)
  BY Zenon DEF StreamOK, FramedStream
<1>3. Len(s) \in Nat /\ Len(g) \in Nat /\ Len(p.bytes) \in Nat
  BY ZenonT(60), <1>1, <1>2, LenProperties
<1>4. p.written \in Nat /\ p.arrived \in Nat /\ p.consumed \in Nat
  BY Zenon DEF StreamOK, Pipe
<1>5. ASSUME NEW i \in 0..Len(s) PROVE EndOf(p, i) \in Nat
  <2>1. CASE i = 0
    BY Zenon, <2>1 DEF EndOf
  <2>2. CASE i # 0
    <3>1. i \in 1..Len(p.ends)
      BY SMTT(60), <1>2, <1>3, <2>2
    <3>2. p.ends[i] \in Nat
      BY ZenonT(60), <1>1, <3>1, ElementOfSeq
    <3> QED
      BY ZenonT(60), <2>2, <3>2 DEF EndOf
  <2> QED
    BY Zenon, <2>1, <2>2
<1> QED
  BY Zenon, <1>1, <1>2, <1>3, <1>4, <1>5

\* The length of an encoded frame.
LEMMA EncodeLen ==
  ASSUME NEW f, Encodable(f)
  PROVE  /\ Encode(f) \in Seq(Byte) /\ Len(Encode(f)) = 4 + BodyLen(f)
         /\ BodyLen(f) \in Nat /\ BodyLen(f) >= 17
<1>1. f.topic \in Seq(Byte) /\ f.payload \in Seq(Byte)
  BY DEF Encodable, Frame
<1>2. Len(f.topic) \in Nat /\ Len(f.payload) \in Nat
  BY <1>1
<1>3. BodyLen(f) = 17 + Len(f.topic) + Len(f.payload) /\ BodyLen(f) \in Nat
  BY ZenonT(60), <1>2, BodyLenSum
<1>4. \A x, y \in Nat : 17 + x + y >= 17
  BY SMT
<1>5. BodyLen(f) >= 17
  BY ZenonT(60), <1>2, <1>3, <1>4
<1>6. Layout(Encode(f), f)
  BY Zenon, EncodeLayout
<1> QED
  BY ZenonT(60), <1>3, <1>5, <1>6 DEF Layout

\* What Append adds to a sequence, and what it leaves.
LEMMA Appended ==
  ASSUME NEW T, NEW s \in Seq(T), NEW f \in T
  PROVE  /\ Append(s, f) \in Seq(T) /\ Len(Append(s, f)) = Len(s) + 1
         /\ Append(s, f)[Len(s) + 1] = f
         /\ \A i \in 1..Len(s) : Append(s, f)[i] = s[i]
BY AppendProperties

\* A byte of a block that ends before the stream does is a byte of the stream.
LEMMA InsideBlock ==
  ASSUME NEW a \in Nat, NEW M \in Nat, NEW N \in Nat, NEW z, z = a + M, z <= N,
         NEW k \in 1..M
  PROVE  a + k \in 1..N
OBVIOUS

\* start_send puts one more frame behind the others.
LEMMA SendKeeps ==
  ASSUME NEW p, NEW s, NEW g, StreamOK(p, s, g), NEW f, Encodable(f), NEW q \in Pipe,
         q.bytes = p.bytes \o Encode(f), q.ends = Append(p.ends, Len(p.bytes \o Encode(f))),
         q.written = p.written, q.arrived = p.arrived, q.consumed = p.consumed
  PROVE  StreamOK(q, Append(s, f), g)
<1> DEFINE e == Encode(f)
           L == Len(s)
           N == Len(p.bytes)
           K == Len(e)
           t == Append(s, f)
<1>1. /\ L \in Nat /\ Len(g) \in Nat /\ N \in Nat
      /\ p.bytes \in Seq(Byte) /\ p.ends \in Seq(Nat) /\ Len(p.ends) = L
      /\ p.written \in Nat /\ p.arrived \in Nat /\ p.consumed \in Nat
      /\ \A i \in 0..L : EndOf(p, i) \in Nat
  BY ZenonT(60), StreamFacts
<1>2. e \in Seq(Byte) /\ K \in Nat
  BY EncodeLen
<1>3. f \in Frame /\ s \in Seq(Frame) /\ g \in Seq(Frame)
  BY SMT DEF Encodable, StreamOK
<1>4. /\ EndOf(p, L) = N /\ Len(g) <= L /\ p.consumed = EndOf(p, Len(g))
      /\ \A i \in 1..L : FrameInPlace(p, s[i], i)
      /\ \A i \in 1..Len(g) : g[i] = s[i]
  BY Zenon DEF StreamOK, FramedStream
<1>5. /\ t \in Seq(Frame) /\ Len(t) = L + 1 /\ t[L + 1] = f
      /\ \A i \in 1..L : t[i] = s[i]
  BY SMTT(60), <1>3
<1>6. /\ q.bytes \in Seq(Byte) /\ Len(q.bytes) = N + K
      /\ Starts(q.bytes, p.bytes) /\ At(q.bytes, N, e)
  BY Zenon, <1>1, <1>2, Join
<1>7. /\ Len(q.ends) = L + 1 /\ q.ends[L + 1] = N + K
      /\ \A i \in 1..L : q.ends[i] = p.ends[i]
  <2>1. N + K \in Nat
    BY SMT, <1>1, <1>2
  <2>2. q.ends = Append(p.ends, N + K)
    BY ZenonT(60), <1>6
  <2> HIDE DEF N, K, L
  <2>3. ASSUME NEW z \in Nat
        PROVE  /\ Len(Append(p.ends, z)) = Len(p.ends) + 1
               /\ Append(p.ends, z)[Len(p.ends) + 1] = z
               /\ \A i \in 1..Len(p.ends) : Append(p.ends, z)[i] = p.ends[i]
    <3>1. p.ends \in Seq(Nat)
      BY Zenon, <1>1
    <3> QED
      BY SMT, <3>1
  <2>4. /\ Len(q.ends) = Len(p.ends) + 1 /\ q.ends[Len(p.ends) + 1] = N + K
        /\ \A i \in 1..Len(p.ends) : q.ends[i] = p.ends[i]
    BY ZenonT(60), <2>1, <2>2, <2>3
  <2>5. Len(p.ends) = L
    BY Zenon, <1>1
  <2> QED
    BY ZenonT(60), <2>4, <2>5
<1> HIDE DEF e, L, N, K, t
<1>8. EndOf(q, L + 1) = N + K
  <2>1. L + 1 # 0
    BY SMTT(60), <1>1
  <2> QED
    BY ZenonT(60), <1>7, <2>1 DEF EndOf
<1>9. \A i \in 0..L : EndOf(q, i) = EndOf(p, i)
  <2> TAKE i \in 0..L
  <2>1. CASE i = 0
    BY Zenon, <2>1 DEF EndOf
  <2>2. CASE i # 0
    <3>1. i \in 1..L
      BY SMTT(60), <1>1, <2>2
    <3> QED
      BY ZenonT(60), <1>7, <2>2, <3>1 DEF EndOf
  <2> QED
    BY ZenonT(60), <2>1, <2>2
<1>10. InOrder(q)
  <2>1. p.consumed <= p.arrived /\ p.arrived <= p.written /\ p.written <= N
    BY ZenonT(60) DEF StreamOK, InOrder, N
  <2>2. p.written <= N + K
    BY SMTT(60), <1>1, <1>2, <2>1
  <2> QED
    BY ZenonT(60), <1>6, <2>1, <2>2 DEF InOrder
<1>11. ASSUME NEW i \in 1..L PROVE FrameInPlace(q, t[i], i)
  <2> DEFINE x == s[i]
             a == EndOf(p, i - 1)
             z == EndOf(p, i)
             M == Len(Encode(x))
  <2>1. i \in 0..L /\ i - 1 \in 0..L
    BY SMTT(60), <1>1
  <2>2. a \in Nat /\ z \in Nat /\ EndOf(q, i) = z /\ EndOf(q, i - 1) = a
    BY ZenonT(60), <1>1, <1>9, <2>1
  <2>3. /\ Encodable(x) /\ z = a + M /\ z <= N
        /\ \A k \in 1..M : p.bytes[a + k] = Encode(x)[k]
    BY ZenonT(60), <1>4 DEF FrameInPlace, N
  <2>4. M \in Nat
    BY SMTT(60), <2>3, EncodeLen
  <2> HIDE DEF x, a, z, M
  <2>5. z <= N + K
    BY SMTT(60), <1>1, <1>2, <2>2, <2>3
  <2>6. \A k \in 1..M : q.bytes[a + k] = Encode(x)[k]
    <3> TAKE k \in 1..M
    <3>1. a + k \in 1..N
      BY ZenonT(60), <1>1, <2>2, <2>3, <2>4, InsideBlock
    <3>2. q.bytes[a + k] = p.bytes[a + k]
      BY ZenonT(60), <1>6, <3>1 DEF Starts, N
    <3> QED
      BY ZenonT(60), <2>3, <3>2
  <2>7. FrameInPlace(q, x, i)
    BY ZenonT(60), <1>6, <2>2, <2>3, <2>5, <2>6 DEF FrameInPlace, M
  <2> QED
    BY ZenonT(60), <1>5, <2>7 DEF x
<1>12. FrameInPlace(q, t[L + 1], L + 1)
  <2>1. (L + 1) - 1 = L /\ L \in 0..L /\ N + K <= N + K
    BY SMTT(60), <1>1, <1>2
  <2>2. EndOf(q, (L + 1) - 1) = N
    BY ZenonT(60), <1>4, <1>9, <2>1
  <2>3. \A k \in 1..K : q.bytes[N + k] = e[k]
    BY ZenonT(60), <1>6 DEF At, K
  <2> QED
    BY ZenonT(60), <1>5, <1>6, <1>8, <2>1, <2>2, <2>3 DEF FrameInPlace, e, K
<1>13. \A i \in 1..Len(t) : FrameInPlace(q, t[i], i)
  <2> TAKE i \in 1..Len(t)
  <2>1. i \in 1..L \/ i = L + 1
    BY SMTT(60), <1>1, <1>5
  <2> QED
    BY ZenonT(60), <1>11, <1>12, <2>1
<1>14. \A i \in 1..Len(g) : g[i] = t[i]
  <2> TAKE i \in 1..Len(g)
  <2>1. i \in 1..L
    BY SMTT(60), <1>1, <1>4
  <2> QED
    BY ZenonT(60), <1>4, <1>5, <2>1
<1>15. Len(g) <= Len(t) /\ Len(g) \in 0..L
  BY SMTT(60), <1>1, <1>4, <1>5
<1>16. q.consumed = EndOf(q, Len(g))
  BY ZenonT(60), <1>4, <1>9, <1>15
<1>17. FramedStream(q, t, g)
  BY ZenonT(60), <1>5, <1>6, <1>7, <1>8, <1>13, <1>14, <1>15, <1>16 DEF FramedStream
<1> QED
  BY ZenonT(60), <1>3, <1>5, <1>10, <1>17 DEF StreamOK, t

\* A buffer Frame::decode returns a frame from is long enough for it.
LEMMA TakeNeeds ==
  ASSUME NEW b, Len(b) \in Nat, ~Incomplete(b), ~Refused(b)
  PROVE  /\ Len(b) >= 4 /\ TotalLen(b) \in Nat /\ Len(b) >= 4 + TotalLen(b)
         /\ TopicLen(Body(b)) <= MaxTopicLen
<1>1. TotalLenOK(b) /\ BodyOK(Body(b))
  BY Zenon DEF Refused
<1>2. TopicLen(Body(b)) <= MaxTopicLen
  BY ZenonT(60), <1>1 DEF BodyOK
<1>3. TotalLen(b) \in Nat
  BY SMTT(60), <1>1, SizeAssumption DEF TotalLenOK, MinHeaderSize
<1>4. ~(Len(b) < Needed(b))
  BY Zenon DEF Incomplete
<1>5. Len(b) >= 4
  <2>1. CASE Len(b) >= 4
    BY Zenon, <2>1
  <2>2. CASE ~(Len(b) >= 4)
    <3>1. Needed(b) = 4
      BY ZenonT(60), <2>2 DEF Needed
    <3> QED
      BY SMTT(60), <1>4, <2>2, <3>1
  <2> QED
    BY Zenon, <2>1, <2>2
<1>6. Needed(b) = 4 + TotalLen(b)
  BY ZenonT(60), <1>1, <1>5 DEF Needed
<1> QED
  BY SMTT(60), <1>2, <1>3, <1>4, <1>5, <1>6

\* The reader's buffer is the bytes behind what was consumed.
LEMMA BufferBytes ==
  ASSUME NEW p, NEW s, NEW g, StreamOK(p, s, g)
  PROVE  LET b == SubSeq(p.bytes, p.consumed + 1, p.arrived)
         IN  /\ b \in Seq(Byte) /\ Len(b) = p.arrived - p.consumed
             /\ \A k \in 1..Len(b) : b[k] = p.bytes[p.consumed + k]
<1> DEFINE c == p.consumed
           a == p.arrived
           m == c + 1
           b == SubSeq(p.bytes, m, a)
<1>1. /\ p.bytes \in Seq(Byte) /\ Len(p.bytes) \in Nat /\ p.written \in Nat /\ a \in Nat
      /\ c \in Nat
  BY ZenonT(60), StreamFacts
<1>2. c <= a /\ a <= p.written /\ p.written <= Len(p.bytes)
  BY Zenon DEF StreamOK, InOrder
<1> HIDE DEF c, a
<1>3. m \in Int /\ a \in Int /\ a - m + 1 = a - c /\ (m <= a \/ a - c = 0)
  BY SMTT(60), <1>1, <1>2
<1>4. \A i \in m..a : p.bytes[i] \in Byte
  <2> TAKE i \in m..a
  <2>1. i \in 1..Len(p.bytes)
    BY SMTT(60), <1>1, <1>2
  <2> QED
    BY ZenonT(60), <1>1, <2>1, ElementOfSeq
<1>5. \A k \in 1..(a - c) : m + k - 1 = c + k
  BY SMTT(60), <1>1
<1> HIDE DEF m
<1>6. /\ b \in Seq(Byte) /\ Len(b) = IF m <= a THEN a - m + 1 ELSE 0
      /\ \A i \in 1 .. a - m + 1 : b[i] = p.bytes[m + i - 1]
  BY SMTT(60), <1>3, <1>4, SubSeqProperties
<1> HIDE DEF b
<1>7. Len(b) = a - c
  <2>1. CASE m <= a
    BY ZenonT(60), <2>1, <1>3, <1>6
  <2>2. CASE ~(m <= a)
    BY ZenonT(60), <2>2, <1>3, <1>6
  <2> QED
    BY Zenon, <2>1, <2>2
<1>8. \A k \in 1..Len(b) : b[k] = p.bytes[c + k]
  BY ZenonT(60), <1>3, <1>5, <1>6, <1>7
<1> QED
  BY ZenonT(60), <1>6, <1>7, <1>8 DEF b, m, a, c

\* Decoding buffer b of direction p leaves direction q.
TakenFrom(p, q, b) ==
  /\ b = SubSeq(p.bytes, p.consumed + 1, p.arrived)
  /\ ~Incomplete(b) /\ ~Refused(b)
  /\ q \in Pipe /\ q.bytes = p.bytes /\ q.ends = p.ends /\ q.written = p.written
  /\ q.arrived = p.arrived /\ q.consumed = p.consumed + FrameLen(b)

\* Frame::decode returns the next frame sent and takes exactly its bytes.
LEMMA TakeKeeps ==
  ASSUME NEW p, NEW s, NEW g, StreamOK(p, s, g), NEW b, NEW q, TakenFrom(p, q, b)
  PROVE  /\ StreamOK(q, s, Append(g, FrameOf(b)))
         /\ Len(g) < Len(s) /\ FrameOf(b) = s[Len(g) + 1]
         /\ Len(FrameOf(b).topic) <= MaxTopicLen
<1>0. /\ b = SubSeq(p.bytes, p.consumed + 1, p.arrived)
      /\ ~Incomplete(b) /\ ~Refused(b)
      /\ q \in Pipe /\ q.bytes = p.bytes /\ q.ends = p.ends /\ q.written = p.written
      /\ q.arrived = p.arrived /\ q.consumed = p.consumed + FrameLen(b)
  BY Zenon DEF TakenFrom
<1> DEFINE G == Len(g)
           f == s[G + 1]
           e == Encode(f)
           K == Len(e)
           c == p.consumed
           t == Append(g, f)
<1>1. /\ Len(s) \in Nat /\ G \in Nat /\ Len(p.bytes) \in Nat
      /\ p.written \in Nat /\ p.arrived \in Nat /\ c \in Nat
      /\ \A i \in 0..Len(s) : EndOf(p, i) \in Nat
  BY ZenonT(60), StreamFacts
<1>2. /\ b \in Seq(Byte) /\ Len(b) = p.arrived - c
      /\ \A k \in 1..Len(b) : b[k] = p.bytes[c + k]
  BY ZenonT(60), <1>0, BufferBytes
<1>3. /\ EndOf(p, Len(s)) = Len(p.bytes) /\ G <= Len(s) /\ c = EndOf(p, G)
      /\ \A i \in 1..Len(s) : FrameInPlace(p, s[i], i)
      /\ \A i \in 1..G : g[i] = s[i]
      /\ Len(p.ends) = Len(s)
  BY Zenon DEF StreamOK, FramedStream
<1>4. c <= p.arrived /\ p.arrived <= p.written /\ p.written <= Len(p.bytes)
  BY ZenonT(60) DEF StreamOK, InOrder
<1>5. Len(b) \in Nat
  BY SMTT(60), <1>1, <1>2, <1>4
<1>6. /\ Len(b) >= 4 /\ TotalLen(b) \in Nat /\ Len(b) >= 4 + TotalLen(b)
      /\ TopicLen(Body(b)) <= MaxTopicLen
  BY ZenonT(60), <1>0, <1>5, TakeNeeds
<1>7. G < Len(s)
  <2>1. CASE G = Len(s)
    <3>1. c = Len(p.bytes)
      BY ZenonT(60), <1>3, <2>1
    <3>2. \A a, w, n \in Nat : ~(a - n >= 4 /\ a <= w /\ w <= n)
      BY SMT
    <3> HIDE DEF c
    <3> QED
      BY ZenonT(60), <1>1, <1>2, <1>4, <1>6, <3>1, <3>2
  <2> HIDE DEF G
  <2> QED
    BY SMTT(60), <1>1, <1>3, <2>1
<1> HIDE DEF c, G
<1>8. G + 1 \in 1..Len(s) /\ (G + 1) - 1 = G
  BY SMTT(60), <1>1, <1>7
<1>9. /\ Encodable(f) /\ EndOf(p, G + 1) = c + K /\ c + K <= Len(p.bytes)
      /\ \A k \in 1..K : p.bytes[c + k] = e[k]
  <2>1. FrameInPlace(p, f, G + 1)
    BY ZenonT(60), <1>3, <1>8
  <2> QED
    BY ZenonT(60), <1>3, <1>8, <2>1 DEF FrameInPlace
<1>10. e \in Seq(Byte) /\ K = 4 + BodyLen(f) /\ BodyLen(f) \in Nat /\ K \in Nat
  <2>1. e \in Seq(Byte) /\ K = 4 + BodyLen(f) /\ BodyLen(f) \in Nat
    BY ZenonT(60), <1>9, EncodeLen
  <2> QED
    BY ZenonT(60), <2>1, LenProperties
<1> HIDE DEF K
<1>11. TotalLen(b) = BodyLen(f)
  <2>1. \A k \in 1..4 : k \in 1..Len(b) /\ k \in 1..K
    <3>1. \A x, y \in Nat : x >= 4 => \A k \in 1..4 : k \in 1..x /\ k \in 1..(4 + y)
      BY SMT
    <3> QED
      BY ZenonT(60), <1>5, <1>6, <1>10, <3>1
  <2>2. \A k \in 1..4 : b[k] = e[k]
    BY ZenonT(60), <1>2, <1>9, <2>1
  <2> QED
    BY ZenonT(60), <1>9, <2>2, LengthPrefix
<1>12. K <= Len(b) /\ FrameLen(b) = K
  <2>1. FrameLen(b) = K
    BY ZenonT(60), <1>10, <1>11 DEF FrameLen
  <2>2. \A x, y \in Nat : x >= 4 + y => 4 + y <= x
    BY Zenon
  <2> QED
    BY ZenonT(60), <1>5, <1>6, <1>10, <1>11, <2>1, <2>2
<1>13. Starts(b, e)
  <2>1. \A k \in 1..K : k \in 1..Len(b)
    <3>1. \A x, y \in Nat : y <= x => \A k \in 1..y : k \in 1..x
      BY SMT
    <3> QED
      BY ZenonT(60), <1>5, <1>10, <1>12, <3>1
  <2> QED
    BY ZenonT(60), <1>2, <1>9, <1>12, <2>1 DEF Starts, K
<1>14. FrameOf(b) = f /\ Len(f.topic) <= MaxTopicLen
  <2>1. FrameOf(b) = f /\ TopicLen(Body(b)) = Len(f.topic)
    BY ZenonT(60), <1>2, <1>9, <1>13, DecodeUndoesEncode
  <2> QED
    BY ZenonT(60), <1>6, <2>1
<1>15. s \in Seq(Frame) /\ g \in Seq(Frame) /\ f \in Frame
  <2>1. s \in Seq(Frame) /\ g \in Seq(Frame)
    BY Zenon DEF StreamOK
  <2> QED
    BY ZenonT(60), <1>8, <2>1, ElementOfSeq
<1> HIDE DEF f
<1>16. /\ t \in Seq(Frame) /\ Len(t) = G + 1 /\ t[G + 1] = f
       /\ \A i \in 1..G : t[i] = g[i]
  <2>1. g \in Seq(Frame) /\ f \in Frame
    BY ZenonT(60), <1>15
  <2>2. /\ Append(g, f) \in Seq(Frame) /\ Len(Append(g, f)) = Len(g) + 1
        /\ Append(g, f)[Len(g) + 1] = f
        /\ \A i \in 1..Len(g) : Append(g, f)[i] = g[i]
    BY SMTT(60), <2>1, AppendProperties
  <2> QED
    BY ZenonT(60), <2>2 DEF G
<1> HIDE DEF t
<1>17. \A i : EndOf(q, i) = EndOf(p, i)
  BY ZenonT(60), <1>0 DEF EndOf
<1>18. q.consumed = EndOf(q, Len(t))
  BY ZenonT(60), <1>0, <1>9, <1>12, <1>16, <1>17 DEF c
<1>19. InOrder(q)
  <2>1. c + K <= p.arrived
    <3>1. c \in Nat /\ K \in Nat /\ p.arrived \in Nat /\ Len(b) = p.arrived - c /\ K <= Len(b)
      BY Zenon, <1>1, <1>2, <1>10, <1>12
    <3> QED
      BY SMT, <3>1
  <2> QED
    BY ZenonT(60), <1>0, <1>4, <1>12, <2>1 DEF InOrder, c
<1>20. \A i \in 1..Len(t) : t[i] = s[i]
  <2> TAKE i \in 1..Len(t)
  <2>1. i \in 1..G \/ i = G + 1
    BY SMTT(60), <1>1, <1>16
  <2> QED
    BY Zenon, <1>3, <1>16, <2>1 DEF f
<1>21. Len(t) <= Len(s)
  BY SMTT(60), <1>1, <1>7, <1>16
<1>22. \A i \in 1..Len(s) : FrameInPlace(q, s[i], i)
  BY ZenonT(60), <1>0, <1>3, <1>17 DEF FrameInPlace
<1>23. FramedStream(q, s, t)
  BY Zenon, <1>0, <1>3, <1>17, <1>18, <1>20, <1>21, <1>22 DEF FramedStream
<1>24. StreamOK(q, s, t)
  BY ZenonT(60), <1>0, <1>15, <1>16, <1>19, <1>23 DEF StreamOK
<1> QED
  BY ZenonT(60), <1>7, <1>14, <1>24 DEF t, f, G

-----------------------------------------------------------------------------
\* The frames that are sent can be carried.

\* The frame for a message whose header is that of a decoded request.
LEMMA FrameForEncodable ==
  ASSUME NEW key \in DOMAIN ApiKey, NEW m, NEW payload \in Seq(Byte),
         m.correlation_id \in Nat, m.correlation_id <= MaxInt,
         m.partition \in Nat, m.partition <= MaxInt,
         m.topic \in Seq(Byte), Len(m.topic) <= MaxTopicLen, Len(payload) <= MaxPayload
  PROVE  /\ Encodable(FrameFor(key, m, payload))
         /\ FrameFor(key, m, payload).correlation_id = m.correlation_id
<1> DEFINE f == FrameFor(key, m, payload)
<1>1. /\ f.magic = MagicByte /\ f.api_key = key /\ f.correlation_id = m.correlation_id
      /\ f.topic = m.topic /\ f.partition = m.partition /\ f.payload = payload
  BY Zenon DEF FrameFor
<1>2. f \in Frame
  BY Zenon DEF FrameFor, Frame
<1>3. Len(m.topic) \in Nat /\ Len(payload) \in Nat
  OBVIOUS
<1> HIDE DEF f
<1>4. BodyLen(f) = 17 + Len(m.topic) + Len(payload)
  BY ZenonT(60), <1>1, <1>3, BodyLenSum
<1>5. \A x, y \in Nat : x <= 255 /\ y <= 2147483647 - (17 + 255) =>
                          17 + x + y <= 2147483647 /\ x < 65536
  BY SMT
<1>6. BodyLen(f) <= MaxInt /\ Len(m.topic) < 65536
  BY SMTT(60), <1>3, <1>4, <1>5 DEF MaxPayload, MinHeaderSize, MaxInt, MaxTopicLen
<1> QED
  BY SMTT(60), <1>1, <1>2, <1>6 DEF Encodable, f

\* Every error has a code with a wire value.
LEMMA CodeForKnown ==
  ASSUME NEW e
  PROVE  ErrorCode[CodeFor(e)] \in Nat
<1>1. CodeFor(e) \in {"UnknownApiKey", "InvalidFrame", "OffsetNotFound", "PartitionNotFound",
                     "StorageError", "MessageTooLarge", "ServerError"}
  BY ZenonT(60) DEF CodeFor
<1>2. \A c \in {"UnknownApiKey", "InvalidFrame", "OffsetNotFound", "PartitionNotFound",
                "StorageError", "MessageTooLarge", "ServerError"} : ErrorCode[c] \in Nat
  BY SMTT(60) DEF ErrorCode
<1> QED
  BY ZenonT(60), <1>1, <1>2

\* A request as Frame::decode and Request::from_frame let it through.
Answerable(q) ==
  /\ q.type \in {"Produce", "ProduceBatch", "Fetch"}
  /\ q.correlation_id \in Nat /\ q.correlation_id <= MaxInt
  /\ q.partition \in Nat /\ q.partition <= MaxInt
  /\ q.topic \in Seq(Byte) /\ Len(q.topic) <= MaxTopicLen

\* Whatever handle_request answers to a decoded request goes into a frame that
\* can be carried, under the request's correlation id.
LEMMA ResponseEncodable ==
  ASSUME NEW q, Answerable(q), NEW r \in ResponsesTo(q)
  PROVE  /\ Encodable(ResponseFrame(r))
         /\ ResponseFrame(r).correlation_id = q.correlation_id
<1> USE DEF Answerable
<1>0. /\ "Produce" \in DOMAIN ApiKey /\ "ProduceBatch" \in DOMAIN ApiKey
      /\ "Fetch" \in DOMAIN ApiKey /\ "Error" \in DOMAIN ApiKey
  BY DEF ApiKey
<1>1. CASE r \in ErrorsTo(q)
  <2>1. PICK e \in Errors[q.type] :
          r = [type |-> "Error", correlation_id |-> q.correlation_id,
               error_code |-> CodeFor(e), error_message |-> Message]
    BY ZenonT(60), <1>1 DEF ErrorsTo
  <2> DEFINE m == [correlation_id |-> q.correlation_id, topic |-> <<>>, partition |-> 0]
             w == U16(ErrorCode[CodeFor(e)]) \o Message
  <2>2. /\ r.type = "Error" /\ r.correlation_id = q.correlation_id
        /\ r.error_code = CodeFor(e) /\ r.error_message = Message
    BY ZenonT(60), <2>1
  <2>3. ResponseFrame(r) = ErrorFrame(r)
    BY <2>2 DEF ResponseFrame
  <2>4. ErrorFrame(r) = FrameFor("Error", m, w)
    BY ZenonT(60), <2>2 DEF ErrorFrame
  <2>5. Message \in Seq(Byte) /\ 2 + Len(Message) <= MaxPayload
    BY ZenonT(60), AnswerAssumption
  <2>6. U16(ErrorCode[CodeFor(e)]) \in Seq(Byte) /\ Len(U16(ErrorCode[CodeFor(e)])) = 2
    BY ZenonT(60), CodeForKnown, U16Type
  <2>7. w \in Seq(Byte) /\ Len(w) = 2 + Len(Message)
    BY ZenonT(60), <2>5, <2>6, Join
  <2>8. Len(w) <= MaxPayload
    BY ZenonT(60), <2>5, <2>7
  <2>9. /\ m.correlation_id = q.correlation_id /\ m.topic = <<>> /\ m.partition = 0
    BY ZenonT(60)
  <2>10. <<>> \in Seq(Byte) /\ Len(<<>>) <= MaxTopicLen /\ 0 \in Nat /\ 0 <= MaxInt
    BY SMTT(60) DEF MaxTopicLen, MaxInt
  <2> HIDE DEF m, w
  <2>11. Encodable(FrameFor("Error", m, w)) /\ FrameFor("Error", m, w).correlation_id = q.correlation_id
    <3>1. /\ m.topic \in Seq(Byte) /\ Len(m.topic) <= MaxTopicLen
          /\ m.partition \in Nat /\ m.partition <= MaxInt
          /\ m.correlation_id \in Nat /\ m.correlation_id <= MaxInt
      BY ZenonT(60), <2>9, <2>10
    <3> QED
      BY ZenonT(60), <1>0, <2>7, <2>8, <2>9, <3>1, FrameForEncodable
  <2> QED
    BY ZenonT(60), <2>3, <2>4, <2>11
<1>2. CASE q.type = "Fetch" /\ r \in RecordsTo(q)
  <2>1. PICK rs \in Fetched :
          r = [type |-> "Fetch", correlation_id |-> q.correlation_id, topic |-> q.topic,
               partition |-> q.partition, records |-> rs]
    BY ZenonT(60), <1>2 DEF RecordsTo
  <2>2. /\ r.type = "Fetch" /\ r.correlation_id = q.correlation_id /\ r.topic = q.topic
        /\ r.partition = q.partition /\ r.records = rs
    BY ZenonT(60), <2>1
  <2>3. ResponseFrame(r) = FrameFor("Fetch", r, FetchBytes(rs))
    BY <2>2 DEF ResponseFrame, FetchedFrame
  <2>4. FetchBytes(rs) \in Seq(Byte) /\ Len(FetchBytes(rs)) <= MaxPayload
    BY ZenonT(60), AnswerAssumption
  <2>5. /\ Encodable(FrameFor("Fetch", r, FetchBytes(rs)))
        /\ FrameFor("Fetch", r, FetchBytes(rs)).correlation_id = q.correlation_id
    BY ZenonT(60), <1>0, <2>2, <2>4, FrameForEncodable
  <2> QED
    BY ZenonT(60), <2>3, <2>5
<1>3. CASE q.type # "Fetch" /\ r \in OffsetsTo(q)
  <2>1. PICK o \in Offsets :
          r = [type |-> q.type, correlation_id |-> q.correlation_id, topic |-> q.topic,
               partition |-> q.partition, offset |-> o]
    BY ZenonT(60), <1>3 DEF OffsetsTo
  <2>2. /\ r.type = q.type /\ r.correlation_id = q.correlation_id /\ r.topic = q.topic
        /\ r.partition = q.partition /\ r.offset = o
    BY ZenonT(60), <2>1
  <2>3. q.type \in {"Produce", "ProduceBatch"} /\ q.type \in DOMAIN ApiKey
    BY ZenonT(60), <1>0, <1>3
  <2>4. ResponseFrame(r) = FrameFor(q.type, r, U64(o))
    BY SMTT(60), <2>2, <2>3 DEF ResponseFrame, OffsetFrame
  <2>5. o \in Nat
    BY ZenonT(60), AnswerAssumption
  <2>6. U64(o) \in Seq(Byte) /\ Len(U64(o)) <= MaxPayload
    <3>1. 8 <= MaxPayload
      BY SMTT(60) DEF MaxPayload, MaxInt, MinHeaderSize, MaxTopicLen
    <3> QED
      BY ZenonT(60), <2>5, <3>1, U64Type
  <2>7. /\ Encodable(FrameFor(q.type, r, U64(o)))
        /\ FrameFor(q.type, r, U64(o)).correlation_id = q.correlation_id
    BY ZenonT(60), <2>2, <2>3, <2>6, FrameForEncodable
  <2> QED
    BY ZenonT(60), <2>4, <2>7
<1> QED
  BY ZenonT(60), <1>1, <1>2, <1>3 DEF ResponsesTo

-----------------------------------------------------------------------------
\* Framed::send and Framed::next on the state.

\* Both directions, typed and framed.
StreamsOK ==
  /\ pipe \in [Direction -> Pipe]
  /\ sent \in [Direction -> Seq(Frame)]
  /\ got \in [Direction -> Seq(Frame)]
  /\ \A d \in Direction : StreamOK(pipe[d], sent[d], got[d])

\* The part of the invariant about the two byte streams.
LEMMA InvStreams == WireInv => StreamsOK
<1> SUFFICES ASSUME WireInv PROVE StreamsOK
  OBVIOUS
<1>1. /\ pipe \in [Direction -> Pipe] /\ sent \in [Direction -> Seq(Frame)]
      /\ got \in [Direction -> Seq(Frame)]
      /\ \A d \in Direction : InOrder(pipe[d]) /\ FramedStream(pipe[d], sent[d], got[d])
  BY ZenonT(60) DEF WireInv, TypeOK
<1>2. \A d \in Direction : /\ pipe[d] \in Pipe /\ sent[d] \in Seq(Frame)
                          /\ got[d] \in Seq(Frame)
  BY <1>1
<1> QED
  BY ZenonT(60), <1>1, <1>2 DEF StreamsOK, StreamOK

\* Replacing the bytes and ends of a direction.
LEMMA PipeUpdate ==
  ASSUME NEW p \in Pipe, NEW B, NEW E
  PROVE  [p EXCEPT !.bytes = B, !.ends = E] =
           [bytes |-> B, ends |-> E, written |-> p.written, arrived |-> p.arrived,
            consumed |-> p.consumed]
<1>1. p = [bytes |-> p.bytes, ends |-> p.ends, written |-> p.written,
           arrived |-> p.arrived, consumed |-> p.consumed]
  BY SMT DEF Pipe
<1>2. ASSUME NEW q, q = [p EXCEPT !.bytes = B, !.ends = E]
      PROVE  q = [bytes |-> B, ends |-> E, written |-> p.written, arrived |-> p.arrived,
                  consumed |-> p.consumed]
  BY ZenonT(60), <1>1, <1>2
<1> QED
  BY ZenonT(60), <1>2

\* start_send on a direction; the other one is as it was.
LEMMA StartSendStep ==
  ASSUME StreamsOK, NEW d \in Direction, NEW f, Encodable(f), StartSend(d, f), got' = got
  PROVE  /\ StreamsOK' /\ sent'[d] = Append(sent[d], f)
         /\ \A o \in Direction \ {d} : sent'[o] = sent[o]
<1> DEFINE p == pipe[d]
           B == p.bytes \o Encode(f)
           E == Append(p.ends, Len(B))
           q == [p EXCEPT !.bytes = B, !.ends = E]
<1>1. /\ pipe \in [Direction -> Pipe] /\ sent \in [Direction -> Seq(Frame)]
      /\ got \in [Direction -> Seq(Frame)]
      /\ \A o \in Direction : StreamOK(pipe[o], sent[o], got[o])
  BY Zenon DEF StreamsOK
<1>2. pipe' = [pipe EXCEPT ![d] = q] /\ sent' = [sent EXCEPT ![d] = Append(sent[d], f)]
  BY ZenonT(60), <1>1 DEF StartSend
<1>3. p \in Pipe /\ sent[d] \in Seq(Frame)
  BY ZenonT(60), <1>1
<1>4. p.bytes \in Seq(Byte) /\ p.ends \in Seq(Nat) /\ Encode(f) \in Seq(Byte)
  BY SMTT(60), <1>3, EncodeLen DEF Pipe
<1>5. B \in Seq(Byte) /\ Len(B) \in Nat
  BY ZenonT(60), <1>4, Join, LenProperties
<1>6. E \in Seq(Nat)
  BY ZenonT(60), <1>4, <1>5, AppendProperties
<1>b. B = p.bytes \o Encode(f) /\ E = Append(p.ends, Len(p.bytes \o Encode(f)))
  OBVIOUS
<1> HIDE DEF B, E, p
<1>7. /\ q \in Pipe /\ q.bytes = B /\ q.ends = E
      /\ q.written = p.written /\ q.arrived = p.arrived /\ q.consumed = p.consumed
  <2>1. /\ p = [bytes |-> p.bytes, ends |-> p.ends, written |-> p.written,
                 arrived |-> p.arrived, consumed |-> p.consumed]
        /\ p.written \in Nat /\ p.arrived \in Nat /\ p.consumed \in Nat
    BY SMTT(60), <1>3 DEF Pipe
  <2>2. q = [bytes |-> B, ends |-> E, written |-> p.written, arrived |-> p.arrived,
             consumed |-> p.consumed]
    BY ZenonT(60), <1>3, PipeUpdate
  <2> HIDE DEF q
  <2>3. /\ q.bytes = B /\ q.ends = E
        /\ q.written = p.written /\ q.arrived = p.arrived /\ q.consumed = p.consumed
    BY ZenonT(60), <2>2
  <2>4. q \in Pipe
    BY SMTT(60), <1>5, <1>6, <2>1, <2>2 DEF Pipe
  <2> QED
    BY ZenonT(60), <2>3, <2>4
<1>9. f \in Frame
  BY SMT DEF Encodable
<1> HIDE DEF q
<1>10. StreamOK(q, Append(sent[d], f), got[d])
  BY ZenonT(60), <1>1, <1>7, <1>b, SendKeeps DEF p
<1>11. Append(sent[d], f) \in Seq(Frame)
  BY ZenonT(60), <1>3, <1>9, AppendProperties
<1>12. pipe'[d] = q /\ sent'[d] = Append(sent[d], f)
  BY ZenonT(60), <1>1, <1>2
<1>13. \A o \in Direction \ {d} : pipe'[o] = pipe[o] /\ sent'[o] = sent[o]
  BY ZenonT(60), <1>1, <1>2
<1>14. pipe' \in [Direction -> Pipe] /\ sent' \in [Direction -> Seq(Frame)]
  BY SMTT(60), <1>1, <1>2, <1>7, <1>11
<1>15. \A o \in Direction : StreamOK(pipe'[o], sent'[o], got'[o])
  BY ZenonT(60), <1>1, <1>10, <1>12, <1>13
<1> QED
  BY ZenonT(60), <1>1, <1>12, <1>13, <1>14, <1>15 DEF StreamsOK

\* flush or read moves bytes of a direction.
LEMMA MoveStep ==
  ASSUME StreamsOK, NEW d \in Direction, NEW q \in Pipe, InOrder(q),
         q.bytes = pipe[d].bytes, q.ends = pipe[d].ends, q.consumed = pipe[d].consumed,
         pipe' = [pipe EXCEPT ![d] = q], sent' = sent, got' = got
  PROVE  StreamsOK'
<1>1. /\ pipe \in [Direction -> Pipe] /\ sent \in [Direction -> Seq(Frame)]
      /\ got \in [Direction -> Seq(Frame)]
      /\ \A o \in Direction : StreamOK(pipe[o], sent[o], got[o])
  BY Zenon DEF StreamsOK
<1>2. StreamOK(q, sent[d], got[d])
  BY ZenonT(60), <1>1, MoveKeeps
<1>3. pipe'[d] = q /\ \A o \in Direction \ {d} : pipe'[o] = pipe[o]
  BY ZenonT(60), <1>1
<1>4. pipe' \in [Direction -> Pipe]
  BY SMTT(60), <1>1
<1>5. \A o \in Direction : StreamOK(pipe'[o], sent'[o], got'[o])
  BY ZenonT(60), <1>1, <1>2, <1>3
<1> QED
  BY ZenonT(60), <1>1, <1>4, <1>5 DEF StreamsOK

\* Moving one of the positions of a direction.
LEMMA WrittenUpdate ==
  ASSUME NEW p \in Pipe, NEW x
  PROVE  [p EXCEPT !.written = x] =
           [bytes |-> p.bytes, ends |-> p.ends, written |-> x,
            arrived |-> p.arrived, consumed |-> p.consumed]
<1>1. p = [bytes |-> p.bytes, ends |-> p.ends, written |-> p.written,
           arrived |-> p.arrived, consumed |-> p.consumed]
  BY SMT DEF Pipe
<1>2. ASSUME NEW q, q = [p EXCEPT !.written = x]
      PROVE  q = [bytes |-> p.bytes, ends |-> p.ends, written |-> x,
                  arrived |-> p.arrived, consumed |-> p.consumed]
  BY ZenonT(60), <1>1, <1>2
<1> QED
  BY ZenonT(60), <1>2

\* A read of n bytes moves only the reader's buffer end of that direction.
LEMMA ArrivedUpdate ==
  ASSUME NEW p \in Pipe, NEW x
  PROVE  [p EXCEPT !.arrived = x] =
           [bytes |-> p.bytes, ends |-> p.ends, written |-> p.written,
            arrived |-> x, consumed |-> p.consumed]
<1>1. p = [bytes |-> p.bytes, ends |-> p.ends, written |-> p.written,
           arrived |-> p.arrived, consumed |-> p.consumed]
  BY SMT DEF Pipe
<1>2. ASSUME NEW q, q = [p EXCEPT !.arrived = x]
      PROVE  q = [bytes |-> p.bytes, ends |-> p.ends, written |-> p.written,
                  arrived |-> x, consumed |-> p.consumed]
  BY ZenonT(60), <1>1, <1>2
<1> QED
  BY ZenonT(60), <1>2

\* Decoding a frame of n bytes moves only the decoder's position of that direction.
LEMMA ConsumedUpdate ==
  ASSUME NEW p \in Pipe, NEW x
  PROVE  [p EXCEPT !.consumed = x] =
           [bytes |-> p.bytes, ends |-> p.ends, written |-> p.written,
            arrived |-> p.arrived, consumed |-> x]
<1>1. p = [bytes |-> p.bytes, ends |-> p.ends, written |-> p.written,
           arrived |-> p.arrived, consumed |-> p.consumed]
  BY SMT DEF Pipe
<1>2. ASSUME NEW q, q = [p EXCEPT !.consumed = x]
      PROVE  q = [bytes |-> p.bytes, ends |-> p.ends, written |-> p.written,
                  arrived |-> p.arrived, consumed |-> x]
  BY ZenonT(60), <1>1, <1>2
<1> QED
  BY ZenonT(60), <1>2

\* flush hands bytes to the socket, next reads them: no byte changes.
LEMMA WriteStep ==
  ASSUME StreamsOK, NEW d \in Direction, NEW n \in Nat, Write(d, n), sent' = sent, got' = got
  PROVE  StreamsOK'
<1> DEFINE p == pipe[d]
           x == p.written + n
           q == [p EXCEPT !.written = x]
<1>1. pipe \in [Direction -> Pipe] /\ StreamOK(p, sent[d], got[d])
  BY Zenon DEF StreamsOK
<1>2. pipe' = [pipe EXCEPT ![d] = q]
  BY ZenonT(60), <1>1 DEF Write
<1>3. p \in Pipe /\ p.bytes \in Seq(Byte) /\ p.ends \in Seq(Nat) /\ Len(p.bytes) \in Nat
      /\ p.written \in Nat /\ p.arrived \in Nat /\ p.consumed \in Nat
  <2>1. p \in Pipe
    BY ZenonT(60), <1>1
  <2> QED
    BY ZenonT(60), <1>1, <2>1, StreamFacts
<1>4. p.consumed <= p.arrived /\ p.arrived <= p.written /\ p.written <= Len(p.bytes)
  BY ZenonT(60), <1>1 DEF StreamOK, InOrder
<1>5. n <= Len(p.bytes) - p.written
  BY Zenon DEF Write, InSocket
<1> HIDE DEF p
<1>6. x \in Nat /\ p.arrived <= x /\ x <= Len(p.bytes)
  BY SMTT(60), <1>3, <1>4, <1>5
<1> HIDE DEF x
<1>7. q = [bytes |-> p.bytes, ends |-> p.ends, written |-> x, arrived |-> p.arrived,
           consumed |-> p.consumed]
  BY ZenonT(60), <1>3, WrittenUpdate
<1> HIDE DEF q
<1>8. /\ q.bytes = p.bytes /\ q.ends = p.ends /\ q.written = x
      /\ q.arrived = p.arrived /\ q.consumed = p.consumed
  BY ZenonT(60), <1>7
<1>9. q \in Pipe
  BY SMTT(60), <1>3, <1>6, <1>7 DEF Pipe
<1>10. InOrder(q)
  BY ZenonT(60), <1>4, <1>6, <1>8 DEF InOrder
<1> QED
  BY ZenonT(60), <1>2, <1>8, <1>9, <1>10, MoveStep DEF p

\* A read from the socket keeps both streams.
LEMMA ReadStep ==
  ASSUME StreamsOK, NEW d \in Direction, NEW n \in Nat, Read(d, n), sent' = sent, got' = got
  PROVE  StreamsOK'
<1> DEFINE p == pipe[d]
           x == p.arrived + n
           q == [p EXCEPT !.arrived = x]
<1>1. pipe \in [Direction -> Pipe] /\ StreamOK(p, sent[d], got[d])
  BY Zenon DEF StreamsOK
<1>2. pipe' = [pipe EXCEPT ![d] = q]
  BY ZenonT(60), <1>1 DEF Read
<1>3. p \in Pipe /\ p.bytes \in Seq(Byte) /\ p.ends \in Seq(Nat) /\ Len(p.bytes) \in Nat
      /\ p.written \in Nat /\ p.arrived \in Nat /\ p.consumed \in Nat
  <2>1. p \in Pipe
    BY Zenon, <1>1
  <2> QED
    BY Zenon, <1>1, <2>1, StreamFacts
<1>4. p.consumed <= p.arrived /\ p.arrived <= p.written /\ p.written <= Len(p.bytes)
  BY Zenon, <1>1 DEF StreamOK, InOrder
<1>5. n <= p.written - p.arrived
  BY ZenonT(60) DEF Read, InSocket
<1> HIDE DEF p
<1>6. x \in Nat /\ p.consumed <= x /\ x <= p.written
  BY SMTT(60), <1>3, <1>4, <1>5
<1> HIDE DEF x
<1>7. q = [bytes |-> p.bytes, ends |-> p.ends, written |-> p.written, arrived |-> x,
           consumed |-> p.consumed]
  BY ZenonT(60), <1>3, ArrivedUpdate
<1> HIDE DEF q
<1>8. /\ q.bytes = p.bytes /\ q.ends = p.ends /\ q.written = p.written
      /\ q.arrived = x /\ q.consumed = p.consumed
  BY ZenonT(60), <1>7
<1>9. q \in Pipe
  BY SMTT(60), <1>3, <1>6, <1>7 DEF Pipe
<1>10. InOrder(q)
  BY ZenonT(60), <1>4, <1>6, <1>8 DEF InOrder
<1> QED
  BY ZenonT(60), <1>2, <1>8, <1>9, <1>10, MoveStep DEF p

\* The decoder returns the next frame of its direction and no other.
LEMMA TakeStep ==
  ASSUME StreamsOK, NEW d \in Direction, Take(d), sent' = sent
  PROVE  /\ StreamsOK' /\ Len(got[d]) < Len(sent[d])
         /\ got'[d] = Append(got[d], sent[d][Len(got[d]) + 1])
         /\ Len(sent[d][Len(got[d]) + 1].topic) <= MaxTopicLen
         /\ \A o \in Direction \ {d} : got'[o] = got[o]
<1> DEFINE p == pipe[d]
           b == Buffer(d)
           f == sent[d][Len(got[d]) + 1]
           x == p.consumed + FrameLen(b)
           q == [p EXCEPT !.consumed = x]
<1>1. /\ pipe \in [Direction -> Pipe] /\ sent \in [Direction -> Seq(Frame)]
      /\ got \in [Direction -> Seq(Frame)]
      /\ \A o \in Direction : StreamOK(pipe[o], sent[o], got[o])
  BY Zenon DEF StreamsOK
<1>2. /\ ~Incomplete(b) /\ ~Refused(b)
      /\ got' = [got EXCEPT ![d] = Append(got[d], FrameOf(b))]
      /\ pipe' = [pipe EXCEPT ![d] = q]
  BY ZenonT(60), <1>1 DEF Take
<1>3. b = SubSeq(p.bytes, p.consumed + 1, p.arrived)
  BY Zenon DEF Buffer
<1>4. p \in Pipe /\ StreamOK(p, sent[d], got[d])
  BY ZenonT(60), <1>1
<1> HIDE DEF p, b
<1>5. x \in Nat
  <2>1. /\ b \in Seq(Byte) /\ Len(b) \in Nat
    BY ZenonT(60), <1>3, <1>4, BufferBytes, LenProperties
  <2>2. TotalLen(b) \in Nat /\ p.consumed \in Nat
    BY ZenonT(60), <1>2, <1>4, <2>1, TakeNeeds, StreamFacts
  <2> QED
    BY SMTT(60), <2>2 DEF FrameLen
<1>6. x = p.consumed + FrameLen(b)
  OBVIOUS
<1> HIDE DEF x
<1>7. q = [bytes |-> p.bytes, ends |-> p.ends, written |-> p.written, arrived |-> p.arrived,
           consumed |-> x]
  BY ZenonT(60), <1>4, ConsumedUpdate
<1> HIDE DEF q
<1>8. /\ q.bytes = p.bytes /\ q.ends = p.ends /\ q.written = p.written
      /\ q.arrived = p.arrived /\ q.consumed = p.consumed + FrameLen(b)
  BY ZenonT(60), <1>6, <1>7
<1>9. q \in Pipe
  BY SMTT(60), <1>4, <1>5, <1>7 DEF Pipe
<1>10. /\ StreamOK(q, sent[d], Append(got[d], FrameOf(b)))
       /\ Len(got[d]) < Len(sent[d]) /\ FrameOf(b) = f
       /\ Len(FrameOf(b).topic) <= MaxTopicLen
  <2>1. ~Incomplete(b) /\ ~Refused(b)
    BY ZenonT(60), <1>2
  <2> DEFINE s == sent[d]
             g == got[d]
  <2>2. StreamOK(p, s, g)
    BY ZenonT(60), <1>4
  <2> HIDE DEF s, g
  <2>3. /\ StreamOK(q, s, Append(g, FrameOf(b)))
        /\ Len(g) < Len(s) /\ FrameOf(b) = s[Len(g) + 1]
        /\ Len(FrameOf(b).topic) <= MaxTopicLen
    <3>1. TakenFrom(p, q, b)
      BY ZenonT(60), <1>3, <1>8, <1>9, <2>1 DEF TakenFrom
    <3> QED
      BY ZenonT(60), <2>2, <3>1, TakeKeeps
  <2> QED
    BY ZenonT(60), <2>3 DEF s, g
<1>11. /\ pipe'[d] = q /\ got'[d] = Append(got[d], FrameOf(b))
       /\ \A o \in Direction \ {d} : pipe'[o] = pipe[o] /\ got'[o] = got[o]
  BY ZenonT(60), <1>1, <1>2
<1>12. Append(got[d], FrameOf(b)) \in Seq(Frame)
  BY ZenonT(60), <1>10 DEF StreamOK
<1>13. pipe' \in [Direction -> Pipe] /\ got' \in [Direction -> Seq(Frame)]
  BY SMTT(60), <1>1, <1>2, <1>9, <1>12
<1>14. \A o \in Direction : StreamOK(pipe'[o], sent'[o], got'[o])
  BY ZenonT(60), <1>1, <1>10, <1>11
<1>15. StreamsOK'
  BY ZenonT(60), <1>1, <1>13, <1>14 DEF StreamsOK
<1> QED
  BY ZenonT(60), <1>10, <1>11, <1>15 DEF f

-----------------------------------------------------------------------------
\* The inductive invariant.

Clients == {"ready", "flushing"} \cup Gone

Brokers == {"reading", "parsing", "handling", "flushing", "refused", "closed"}

\* The parts WireInv is put together from after a step.
LEMMA FromStreams ==
  ASSUME StreamsOK', script' \in Scripts, client' \in Clients, broker' \in Brokers, OneAtATime'
  PROVE  WireInv'
<1>1. /\ pipe' \in [Direction -> Pipe] /\ sent' \in [Direction -> Seq(Frame)]
      /\ got' \in [Direction -> Seq(Frame)]
      /\ \A d \in Direction : StreamOK(pipe'[d], sent'[d], got'[d])
  BY Zenon DEF StreamsOK
<1>2. \A d \in Direction : InOrder(pipe'[d]) /\ FramedStream(pipe'[d], sent'[d], got'[d])
  BY ZenonT(60), <1>1 DEF StreamOK
<1> QED
  BY ZenonT(60), <1>1, <1>2 DEF WireInv, TypeOK, Clients, Brokers

\* Before the first request the streams are empty and the broker reads.
LEMMA InitWireInv == Init => WireInv
<1> SUFFICES ASSUME Init PROVE WireInv
  OBVIOUS
<1> DEFINE p == [bytes |-> <<>>, ends |-> <<>>, written |-> 0, arrived |-> 0, consumed |-> 0]
<1>1. /\ script \in Scripts /\ pipe = [d \in Direction |-> p]
      /\ sent = [d \in Direction |-> <<>>] /\ got = [d \in Direction |-> <<>>]
      /\ requests = <<>> /\ client = "ready" /\ broker = "reading"
  BY ZenonT(60) DEF Init
<1>2. /\ p.bytes = <<>> /\ p.ends = <<>> /\ p.written = 0 /\ p.arrived = 0 /\ p.consumed = 0
  BY ZenonT(60)
<1>3. p \in Pipe
  BY SMTT(60) DEF Pipe
<1> HIDE DEF p
<1>4. Len(<<>>) = 0 /\ 0 <= 0 /\ \A i : i \notin 1..0
  BY SMTT(60)
<1>5. InOrder(p)
  BY ZenonT(60), <1>2, <1>4 DEF InOrder
<1>6. FramedStream(p, <<>>, <<>>)
  BY ZenonT(60), <1>2, <1>4 DEF FramedStream, EndOf
<1>7. "req" \in Direction /\ "rep" \in Direction
  BY Zenon DEF Direction
<1>8. \A d \in Direction : pipe[d] = p /\ sent[d] = <<>> /\ got[d] = <<>>
  BY ZenonT(60), <1>1
<1>9. /\ pipe \in [Direction -> Pipe] /\ sent \in [Direction -> Seq(Frame)]
      /\ got \in [Direction -> Seq(Frame)]
  BY SMTT(60), <1>1, <1>3
<1>10. OneAtATime
  <2>1. requests \in Seq(Range(requests))
    BY SMTT(60), <1>1
  <2>2. Len(got["req"]) = Len(sent["rep"])
    BY ZenonT(60), <1>7, <1>8
  <2> QED
    BY ZenonT(60), <1>1, <2>1, <2>2 DEF OneAtATime
<1>11. TypeOK
  BY ZenonT(60), <1>1, <1>5, <1>8, <1>9 DEF TypeOK
<1> QED
  BY ZenonT(60), <1>6, <1>8, <1>10, <1>11 DEF WireInv

\* What a step that leaves the broker's side alone preserves.
LEMMA SameTurn ==
  ASSUME OneAtATime, Len(got'["req"]) = Len(got["req"]), got'["req"] = got["req"],
         Len(sent'["rep"]) = Len(sent["rep"]), requests' = requests, broker' = broker
  PROVE  OneAtATime'
  BY ZenonT(60) DEF OneAtATime, Last

\* The parts of the invariant a step starts from.
LEMMA InvParts ==
  ASSUME WireInv
  PROVE  /\ StreamsOK /\ script \in Scripts /\ client \in Clients /\ broker \in Brokers
         /\ OneAtATime
         /\ "req" \in Direction /\ "rep" \in Direction /\ Direction = {"req", "rep"}
<1>1. StreamsOK
  BY ZenonT(60), InvStreams
<1> QED
  BY ZenonT(60), <1>1 DEF WireInv, TypeOK, Clients, Brokers, Direction

\* Appending to a history keeps it a sequence and makes the new entry its last.
LEMMA AppendRange ==
  ASSUME NEW s, s \in Seq(Range(s)), NEW e
  PROVE  Append(s, e) \in Seq(Range(Append(s, e))) /\ Last(Append(s, e)) = e
<1> DEFINE T == Range(s) \cup {e}
           t == Append(s, e)
<1>1. s \in Seq(T) /\ e \in T
  BY SMTT(60)
<1> HIDE DEF T
<1>2. t \in Seq(T) /\ Len(t) = Len(s) + 1 /\ t[Len(s) + 1] = e
  BY SMTT(60), <1>1, AppendProperties
<1>3. Last(t) = e
  BY ZenonT(60), <1>2 DEF Last
<1> HIDE DEF t
<1>4. Len(t) \in Nat /\ DOMAIN t = 1..Len(t) /\ t \in [1..Len(t) -> T]
  BY ZenonT(60), <1>2, LenProperties
<1>5. \A i \in 1..Len(t) : t[i] \in Range(t)
  BY ZenonT(60), <1>4 DEF Range
<1>6. t \in [1..Len(t) -> Range(t)]
  BY ZenonT(60), <1>4, <1>5
<1>7. t \in Seq(Range(t))
  BY SMTT(60), <1>4, <1>6
<1> QED
  BY ZenonT(60), <1>3, <1>7 DEF t

\* The header of the typed request Request::from_frame makes of a frame.
LEMMA RequestHeader ==
  ASSUME NEW f \in Frame, ~BadRequest(f)
  PROVE  /\ RequestOf(f).type \in {"Produce", "ProduceBatch", "Fetch"}
         /\ RequestOf(f).correlation_id = f.correlation_id
         /\ RequestOf(f).topic = f.topic /\ RequestOf(f).partition = f.partition
<1>1. f.api_key \in {"Produce", "Fetch", "ProduceBatch"}
  <2>1. f.api_key \in DOMAIN ApiKey /\ DOMAIN ApiKey = {"Produce", "Fetch", "ProduceBatch", "Error"}
    BY DEF Frame, ApiKey
  <2>2. f.api_key # "Error"
    BY Zenon DEF BadRequest
  <2> QED
    BY ZenonT(60), <2>1, <2>2
<1> DEFINE a == [type |-> "Produce", correlation_id |-> f.correlation_id, topic |-> f.topic,
                partition |-> f.partition, payload |-> f.payload]
           b == [type |-> "ProduceBatch", correlation_id |-> f.correlation_id, topic |-> f.topic,
                partition |-> f.partition, payloads |-> BatchEnd(f.payload).payloads]
           c == [type |-> "Fetch", correlation_id |-> f.correlation_id, topic |-> f.topic,
                partition |-> f.partition, offset |-> Get64(f.payload, 1),
                max_bytes |-> Get32(f.payload, 9)]
<1>2. RequestOf(f) = CASE f.api_key = "Produce" -> a [] f.api_key = "ProduceBatch" -> b
                       [] f.api_key = "Fetch" -> c
  BY ZenonT(60) DEF RequestOf
<1> DEFINE Header(r) == /\ r.type \in {"Produce", "ProduceBatch", "Fetch"}
                      /\ r.correlation_id = f.correlation_id
                      /\ r.topic = f.topic /\ r.partition = f.partition
<1>3. Header(a) /\ Header(b) /\ Header(c)
  <2>1. Header(a)
    BY ZenonT(60)
  <2>2. Header(b)
    BY ZenonT(60)
  <2>3. Header(c)
    BY ZenonT(60)
  <2> QED
    BY ZenonT(60), <2>1, <2>2, <2>3
<1> HIDE DEF a, b, c
<1>4. CASE f.api_key = "Produce"
  <2>1. RequestOf(f) = a
    BY SMTT(60), <1>2, <1>4
  <2> QED
    BY ZenonT(60), <1>3, <2>1
<1>5. CASE f.api_key = "ProduceBatch"
  <2>1. RequestOf(f) = b
    BY SMTT(60), <1>2, <1>5
  <2> QED
    BY ZenonT(60), <1>3, <2>1
<1>6. CASE f.api_key = "Fetch"
  <2>1. RequestOf(f) = c
    BY SMTT(60), <1>2, <1>6
  <2> QED
    BY ZenonT(60), <1>3, <2>1
<1> QED
  BY ZenonT(60), <1>1, <1>4, <1>5, <1>6

\* The frame a client sends is one of its script's.
LEMMA ScriptFrames ==
  ASSUME script \in Scripts, Len(sent["req"]) \in Nat, Len(sent["req"]) < Len(script)
  PROVE  LET i == Len(sent["req"]) + 1
         IN  /\ i \in DOMAIN script /\ Encodable(ScriptFrame(script[i]))
             /\ ScriptFrame(script[i]).correlation_id = script[i].correlation_id
<1>1. script \in Seq(Range(script))
  BY ZenonT(60), ScriptAssumption
<1>2. Len(script) \in Nat /\ DOMAIN script = 1..Len(script)
  BY ZenonT(60), <1>1, LenProperties
<1>3. Len(sent["req"]) + 1 \in 1..Len(script)
  BY SMTT(60), <1>2
<1> QED
  BY ZenonT(60), <1>2, <1>3, ScriptAssumption

\* Lengths of the two histories.
LEMMA Lengths ==
  ASSUME StreamsOK
  PROVE  \A d \in Direction :
           /\ sent[d] \in Seq(Frame) /\ got[d] \in Seq(Frame)
           /\ Len(sent[d]) \in Nat /\ Len(got[d]) \in Nat /\ Len(got[d]) <= Len(sent[d])
           /\ \A i \in 1..Len(got[d]) : got[d][i] = sent[d][i]
           /\ \A i \in 1..Len(sent[d]) : Encodable(sent[d][i])
<1> TAKE d \in Direction
<1>1. StreamOK(pipe[d], sent[d], got[d])
  BY Zenon DEF StreamsOK
<1>2. Len(sent[d]) \in Nat /\ Len(got[d]) \in Nat
  BY ZenonT(60), <1>1, StreamFacts
<1>3. \A i \in 1..Len(sent[d]) : FrameInPlace(pipe[d], sent[d][i], i)
  BY ZenonT(60), <1>1 DEF StreamOK, FramedStream
<1> QED
  BY ZenonT(60), <1>1, <1>2, <1>3 DEF StreamOK, FramedStream, FrameInPlace

\* The client's steps.
LEMMA ClientSendInv ==
  ASSUME WireInv, ClientSend
  PROVE  /\ WireInv'
         /\ sent'["req"] = Append(sent["req"], ScriptFrame(script[Len(sent["req"]) + 1]))
         /\ sent'["rep"] = sent["rep"]
<1> DEFINE f == ScriptFrame(script[Len(sent["req"]) + 1])
<1>1. /\ StreamsOK /\ script \in Scripts /\ client \in Clients /\ broker \in Brokers
      /\ OneAtATime
      /\ "req" \in Direction /\ "rep" \in Direction /\ Direction = {"req", "rep"}
  BY ZenonT(60), InvParts
<1>2. /\ MaySend /\ StartSend("req", f) /\ client' = "flushing" /\ script' = script
      /\ got' = got /\ requests' = requests /\ broker' = broker
  BY Zenon DEF ClientSend
<1>3. Len(sent["req"]) \in Nat /\ Len(sent["req"]) < Len(script)
  BY ZenonT(60), <1>1, <1>2, Lengths DEF MaySend
<1>4. Encodable(f)
  BY ZenonT(60), <1>1, <1>3, ScriptFrames
<1> HIDE DEF f
<1>5. /\ StreamsOK' /\ sent'["req"] = Append(sent["req"], f)
      /\ \A o \in Direction \ {"req"} : sent'[o] = sent[o]
  BY ZenonT(60), <1>1, <1>2, <1>4, StartSendStep
<1>6. sent'["rep"] = sent["rep"]
  BY ZenonT(60), <1>1, <1>5
<1>7. OneAtATime'
  BY ZenonT(60), <1>1, <1>2, <1>6, SameTurn
<1>8. client' \in Clients
  BY ZenonT(60), <1>2 DEF Clients
<1>9. WireInv'
  BY ZenonT(60), <1>1, <1>2, <1>5, <1>7, <1>8, FromStreams
<1> QED
  BY ZenonT(60), <1>5, <1>6, <1>9 DEF f

\* ClientWrite: flushing a request moves bytes and ends no frame.
LEMMA ClientWriteInv ==
  ASSUME WireInv, ClientWrite
  PROVE  WireInv'
<1>1. StreamsOK /\ script \in Scripts /\ broker \in Brokers /\ OneAtATime /\ "req" \in Direction
  BY ZenonT(60), InvParts
<1>2. PICK n \in Chunks : Write("req", n) /\ client' = AfterWrite("req", n, "ready")
  BY Zenon DEF ClientWrite
<1>3. n \in Nat
  BY ZenonT(60), SizeAssumption
<1>4. UNCHANGED <<script, sent, got, requests, broker>>
  BY ZenonT(60) DEF ClientWrite
<1>5. StreamsOK'
  BY ZenonT(60), <1>1, <1>2, <1>3, <1>4, WriteStep
<1>6. client' \in Clients
  BY ZenonT(60), <1>2 DEF AfterWrite, Clients
<1>7. OneAtATime'
  BY ZenonT(60), <1>1, <1>4, SameTurn
<1> QED
  BY ZenonT(60), <1>1, <1>4, <1>5, <1>6, <1>7, FromStreams

\* ClientRead: bytes arrive, no frame is taken.
LEMMA ClientReadInv ==
  ASSUME WireInv, ClientRead
  PROVE  WireInv'
<1>1. /\ StreamsOK /\ script \in Scripts /\ client \in Clients /\ broker \in Brokers
      /\ OneAtATime /\ "rep" \in Direction
  BY ZenonT(60), InvParts
<1>2. PICK n \in Chunks : Read("rep", n)
  BY ZenonT(60) DEF ClientRead
<1>3. n \in Nat
  BY Zenon, SizeAssumption
<1>4. UNCHANGED <<script, sent, got, requests, client, broker>>
  BY ZenonT(60) DEF ClientRead
<1>5. StreamsOK'
  BY ZenonT(60), <1>1, <1>2, <1>3, <1>4, ReadStep
<1>6. OneAtATime'
  BY ZenonT(60), <1>1, <1>4, SameTurn
<1> QED
  BY ZenonT(60), <1>1, <1>4, <1>5, <1>6, FromStreams

\* ClientReply: the frame taken is the next one the broker sent.
LEMMA ClientReplyInv ==
  ASSUME WireInv, ClientReply
  PROVE  /\ WireInv' /\ Len(got["rep"]) < Len(sent["rep"])
         /\ got'["rep"] = Append(got["rep"], sent["rep"][Len(got["rep"]) + 1])
<1>1. /\ StreamsOK /\ script \in Scripts /\ client \in Clients /\ broker \in Brokers
      /\ OneAtATime
      /\ "req" \in Direction /\ "rep" \in Direction /\ Direction = {"req", "rep"}
  BY Zenon, InvParts
<1>2. Take("rep") /\ UNCHANGED <<script, sent, requests, client, broker>>
  BY ZenonT(60) DEF ClientReply
<1>3. /\ StreamsOK' /\ Len(got["rep"]) < Len(sent["rep"])
      /\ got'["rep"] = Append(got["rep"], sent["rep"][Len(got["rep"]) + 1])
      /\ \A o \in Direction \ {"rep"} : got'[o] = got[o]
  BY ZenonT(60), <1>1, <1>2, TakeStep
<1>4. got'["req"] = got["req"]
  BY ZenonT(60), <1>1, <1>3
<1>5. OneAtATime'
  BY ZenonT(60), <1>1, <1>2, <1>4, SameTurn
<1> QED
  BY ZenonT(60), <1>1, <1>2, <1>3, <1>5, FromStreams

\* Steps that only end one side.
LEMMA EndInv ==
  ASSUME WireInv, UNCHANGED <<script, pipe, sent, got, requests>>,
         client' \in Clients,
         \/ broker' = broker
         \/ broker' \in {"refused", "closed"}
  PROVE  WireInv'
<1>1. StreamsOK /\ script \in Scripts /\ broker \in Brokers /\ OneAtATime
  BY ZenonT(60), InvParts
<1>2. StreamsOK'
  BY ZenonT(60), <1>1 DEF StreamsOK
<1>3. OneAtATime'
  <2>1. CASE broker' = broker
    BY ZenonT(60), <1>1, <2>1, SameTurn
  <2>2. CASE broker' \in {"refused", "closed"}
    BY ZenonT(60), <1>1, <2>2 DEF OneAtATime
  <2> QED
    BY ZenonT(60), <2>1, <2>2
<1>4. broker' \in Brokers
  BY ZenonT(60), <1>1 DEF Brokers
<1> QED
  BY ZenonT(60), <1>1, <1>2, <1>3, <1>4, FromStreams

\* The broker's steps.
LEMMA BrokerReadInv ==
  ASSUME WireInv, BrokerRead
  PROVE  WireInv'
<1>1. /\ StreamsOK /\ script \in Scripts /\ client \in Clients /\ broker \in Brokers
      /\ OneAtATime /\ "req" \in Direction
  BY ZenonT(60), InvParts
<1>2. PICK n \in Chunks : Read("req", n)
  BY ZenonT(60) DEF BrokerRead
<1>3. n \in Nat
  BY Zenon, SizeAssumption
<1>4. UNCHANGED <<script, sent, got, requests, client, broker>>
  BY Zenon DEF BrokerRead
<1>5. StreamsOK'
  BY ZenonT(60), <1>1, <1>2, <1>3, <1>4, ReadStep
<1>6. OneAtATime'
  BY ZenonT(60), <1>1, <1>4, SameTurn
<1> QED
  BY ZenonT(60), <1>1, <1>4, <1>5, <1>6, FromStreams

\* BrokerTake: the frame taken is the next request, now the only one unanswered.
LEMMA BrokerTakeInv ==
  ASSUME WireInv, BrokerTake
  PROVE  WireInv' /\ got'["rep"] = got["rep"]
<1> DEFINE f == sent["req"][Len(got["req"]) + 1]
<1>1. /\ StreamsOK /\ script \in Scripts /\ client \in Clients /\ broker \in Brokers
      /\ OneAtATime
      /\ "req" \in Direction /\ "rep" \in Direction /\ Direction = {"req", "rep"}
  BY Zenon, InvParts
<1>2. /\ Take("req") /\ UNCHANGED <<script, sent, requests, client>>
      /\ broker = "reading" /\ broker' = "parsing"
  BY ZenonT(60) DEF BrokerTake
<1>3. /\ StreamsOK' /\ Len(got["req"]) < Len(sent["req"])
      /\ got'["req"] = Append(got["req"], f) /\ Len(f.topic) <= MaxTopicLen
      /\ \A o \in Direction \ {"req"} : got'[o] = got[o]
  BY ZenonT(60), <1>1, <1>2, TakeStep
<1>4. got["req"] \in Seq(Frame) /\ sent["req"] \in Seq(Frame)
      /\ Len(got["req"]) \in Nat /\ Len(sent["req"]) \in Nat
  BY ZenonT(60), <1>1, Lengths
<1>5. f \in Frame
  <2>1. Len(got["req"]) + 1 \in 1..Len(sent["req"])
    BY SMTT(60), <1>3, <1>4
  <2> QED
    BY ZenonT(60), <1>4, <2>1, ElementOfSeq
<1> HIDE DEF f
<1>6. Len(got'["req"]) = Len(got["req"]) + 1 /\ got'["req"][Len(got["req"]) + 1] = f
  <2>1. /\ Len(Append(got["req"], f)) = Len(got["req"]) + 1
        /\ Append(got["req"], f)[Len(got["req"]) + 1] = f
    BY SMTT(60), <1>4, <1>5, AppendProperties
  <2> QED
    BY ZenonT(60), <1>3, <2>1
<1>7. Last(got'["req"]) = f
  BY ZenonT(60), <1>6 DEF Last
<1>8. Len(got["req"]) = Len(sent["rep"]) /\ requests \in Seq(Range(requests))
  BY ZenonT(60), <1>1, <1>2 DEF OneAtATime
<1>9. OneAtATime'
  <2>1. Len(got'["req"]) = Len(sent'["rep"]) + 1
    BY ZenonT(60), <1>2, <1>6, <1>8
  <2>2. Len(Last(got'["req"]).topic) <= MaxTopicLen
    BY ZenonT(60), <1>3, <1>7
  <2>3. requests' \in Seq(Range(requests'))
    BY ZenonT(60), <1>2, <1>8
  <2> QED
    BY ZenonT(60), <1>2, <2>1, <2>2, <2>3 DEF OneAtATime
<1>10. broker' \in Brokers
  BY ZenonT(60), <1>2 DEF Brokers
<1>11. WireInv'
  BY ZenonT(60), <1>1, <1>2, <1>3, <1>9, <1>10, FromStreams
<1> QED
  BY ZenonT(60), <1>1, <1>3, <1>11

\* BrokerWrite: flushing a response moves bytes and ends no frame.
LEMMA BrokerWriteInv ==
  ASSUME WireInv, BrokerWrite
  PROVE  WireInv'
<1>1. /\ StreamsOK /\ script \in Scripts /\ client \in Clients /\ OneAtATime
      /\ "rep" \in Direction
  BY ZenonT(60), InvParts
<1>2. PICK n \in Chunks : Write("rep", n) /\ broker' = AfterWrite("rep", n, "reading")
  BY ZenonT(60) DEF BrokerWrite
<1>3. n \in Nat
  BY Zenon, SizeAssumption
<1>4. broker = "flushing" /\ UNCHANGED <<script, sent, got, requests, client>>
  BY ZenonT(60) DEF BrokerWrite
<1>5. StreamsOK'
  BY ZenonT(60), <1>1, <1>2, <1>3, <1>4, WriteStep
<1>6. broker' \in {"reading", "flushing"}
  BY ZenonT(60), <1>2 DEF AfterWrite
<1>7. Len(got["req"]) = Len(sent["rep"]) /\ requests \in Seq(Range(requests))
  BY ZenonT(60), <1>1, <1>4 DEF OneAtATime
<1>8. OneAtATime'
  BY ZenonT(60), <1>4, <1>6, <1>7 DEF OneAtATime
<1>9. broker' \in Brokers
  BY ZenonT(60), <1>6 DEF Brokers
<1> QED
  BY ZenonT(60), <1>1, <1>4, <1>5, <1>8, <1>9, FromStreams

\* BrokerParse: the typed request carries the header of the frame taken last.
LEMMA BrokerParseInv ==
  ASSUME WireInv, BrokerParse
  PROVE  WireInv'
<1> DEFINE f == Last(got["req"])
           r == RequestOf(f)
<1>1. /\ StreamsOK /\ script \in Scripts /\ client \in Clients /\ broker \in Brokers
      /\ OneAtATime /\ "req" \in Direction /\ "rep" \in Direction
  BY ZenonT(60), InvParts
<1>2. /\ UNCHANGED <<script, pipe, sent, got, client>> /\ broker = "parsing"
      /\ IF BadRequest(f) THEN broker' = "refused" /\ requests' = requests
         ELSE broker' = "handling" /\ requests' = Append(requests, r)
  BY ZenonT(60) DEF BrokerParse
<1>3. CASE BadRequest(f)
  BY ZenonT(60), <1>1, <1>2, <1>3, EndInv
<1>4. CASE ~BadRequest(f)
  <2>1. broker' = "handling" /\ requests' = Append(requests, r)
    BY ZenonT(60), <1>2, <1>4
  <2>2. /\ Len(got["req"]) = Len(sent["rep"]) + 1 /\ Len(f.topic) <= MaxTopicLen
        /\ requests \in Seq(Range(requests))
    BY ZenonT(60), <1>1, <1>2 DEF OneAtATime
  <2>3. f \in Frame
    <3>1. got["req"] \in Seq(Frame) /\ Len(got["req"]) \in Nat /\ Len(sent["rep"]) \in Nat
      BY ZenonT(60), <1>1, Lengths
    <3>2. Len(got["req"]) \in 1..Len(got["req"])
      BY SMTT(60), <2>2, <3>1
    <3> QED
      BY ZenonT(60), <3>1, <3>2, ElementOfSeq DEF Last
  <2>4. /\ r.type \in {"Produce", "ProduceBatch", "Fetch"}
        /\ r.correlation_id = f.correlation_id /\ r.topic = f.topic /\ r.partition = f.partition
    BY ZenonT(60), <1>4, <2>3, RequestHeader
  <2> HIDE DEF r
  <2>5. requests' \in Seq(Range(requests')) /\ Last(requests') = r
    BY ZenonT(60), <2>1, <2>2, AppendRange
  <2>6. OneAtATime'
    BY ZenonT(60), <1>2, <2>1, <2>2, <2>4, <2>5 DEF OneAtATime
  <2>7. StreamsOK'
    BY ZenonT(60), <1>1, <1>2 DEF StreamsOK
  <2>8. broker' \in Brokers
    BY ZenonT(60), <2>1 DEF Brokers
  <2> QED
    BY ZenonT(60), <1>1, <1>2, <2>6, <2>7, <2>8, FromStreams
<1> QED
  BY ZenonT(60), <1>3, <1>4

\* The broker answers the request it took last, under that request's id.
LEMMA BrokerRespondInv ==
  ASSUME WireInv, BrokerRespond
  PROVE  /\ WireInv' /\ sent'["req"] = sent["req"]
         /\ Len(sent["rep"]) < Len(sent["req"])
         /\ \E g : /\ sent'["rep"] = Append(sent["rep"], g) /\ Encodable(g)
                   /\ g.correlation_id = sent["req"][Len(sent["rep"]) + 1].correlation_id
<1> DEFINE q == Last(requests)
           f == Last(got["req"])
<1>1. /\ StreamsOK /\ script \in Scripts /\ client \in Clients /\ broker \in Brokers
      /\ OneAtATime
      /\ "req" \in Direction /\ "rep" \in Direction /\ Direction = {"req", "rep"}
  BY Zenon, InvParts
<1>2. /\ broker = "handling" /\ broker' = "flushing"
      /\ UNCHANGED <<script, got, requests, client>>
  BY ZenonT(60) DEF BrokerRespond
<1>3. PICK r \in ResponsesTo(q) : StartSend("rep", ResponseFrame(r))
  BY ZenonT(60) DEF BrokerRespond
<1>4. /\ Len(got["req"]) = Len(sent["rep"]) + 1 /\ Len(f.topic) <= MaxTopicLen
      /\ requests \in Seq(Range(requests))
      /\ q.type \in {"Produce", "ProduceBatch", "Fetch"}
      /\ q.correlation_id = f.correlation_id /\ q.topic = f.topic /\ q.partition = f.partition
  BY ZenonT(60), <1>1, <1>2 DEF OneAtATime
<1>5. /\ Len(got["req"]) \in Nat /\ Len(sent["req"]) \in Nat /\ Len(sent["rep"]) \in Nat
      /\ Len(got["req"]) <= Len(sent["req"])
      /\ \A i \in 1..Len(got["req"]) : got["req"][i] = sent["req"][i]
      /\ \A i \in 1..Len(sent["req"]) : Encodable(sent["req"][i])
      /\ sent["rep"] \in Seq(Frame)
  BY ZenonT(60), <1>1, Lengths
<1>6. /\ Len(got["req"]) \in 1..Len(got["req"]) /\ Len(got["req"]) \in 1..Len(sent["req"])
      /\ Len(sent["rep"]) < Len(sent["req"])
  BY SMTT(60), <1>4, <1>5
<1>7. f = sent["req"][Len(sent["rep"]) + 1] /\ Encodable(f)
  BY ZenonT(60), <1>4, <1>5, <1>6 DEF Last
<1> HIDE DEF q, f
<1>8. /\ f.correlation_id \in Nat /\ f.correlation_id <= MaxInt /\ f.topic \in Seq(Byte)
      /\ f.partition \in Nat /\ f.partition <= MaxInt
  BY SMTT(60), <1>7 DEF Encodable, Frame
<1> DEFINE g == ResponseFrame(r)
<1>9. Encodable(g) /\ g.correlation_id = q.correlation_id
  <2>1. Answerable(q)
    BY ZenonT(60), <1>4, <1>8 DEF Answerable
  <2>2. r \in ResponsesTo(q)
    BY ZenonT(60), <1>3 DEF q
  <2> QED
    BY ZenonT(60), <2>1, <2>2, ResponseEncodable
<1>10. StartSend("rep", g)
  BY ZenonT(60), <1>3
<1> HIDE DEF g
<1>11. /\ StreamsOK' /\ sent'["rep"] = Append(sent["rep"], g)
       /\ \A o \in Direction \ {"rep"} : sent'[o] = sent[o]
  BY ZenonT(60), <1>1, <1>2, <1>9, <1>10, StartSendStep
<1>12. sent'["req"] = sent["req"]
  BY ZenonT(60), <1>1, <1>11
<1>13. Len(sent'["rep"]) = Len(sent["rep"]) + 1
  <2>1. g \in Frame
    BY SMTT(60), <1>9 DEF Encodable
  <2>2. Len(Append(sent["rep"], g)) = Len(sent["rep"]) + 1
    BY SMTT(60), <1>5, <2>1, AppendProperties
  <2> QED
    BY ZenonT(60), <1>11, <2>2
<1>14. OneAtATime'
  BY ZenonT(60), <1>2, <1>4, <1>13 DEF OneAtATime
<1>15. broker' \in Brokers
  BY ZenonT(60), <1>2 DEF Brokers
<1>16. WireInv'
  BY ZenonT(60), <1>1, <1>2, <1>11, <1>14, <1>15, FromStreams
<1>17. g.correlation_id = sent["req"][Len(sent["rep"]) + 1].correlation_id
  BY ZenonT(60), <1>4, <1>7, <1>9
<1> QED
  BY ZenonT(60), <1>6, <1>9, <1>11, <1>12, <1>16, <1>17

\* Every step preserves the invariant: one case per action of Wire.
LEMMA NextWireInv == WireInv /\ [Next]_vars => WireInv'
<1> SUFFICES ASSUME WireInv, [Next]_vars PROVE WireInv'
  OBVIOUS
<1>0. client \in Clients /\ broker \in Brokers
  BY ZenonT(60), InvParts
<1>1. CASE ClientSend
  BY ZenonT(60), <1>1, ClientSendInv
<1>2. CASE ClientWrite
  BY ZenonT(60), <1>2, ClientWriteInv
<1>3. CASE ClientRead
  BY ZenonT(60), <1>3, ClientReadInv
<1>4. CASE ClientReply
  BY ZenonT(60), <1>4, ClientReplyInv
<1>5. CASE ClientRefuse
  <2>1. UNCHANGED <<script, pipe, sent, got, requests>> /\ broker' = broker /\ client' \in Clients
    BY ZenonT(60), <1>5 DEF ClientRefuse, Clients, Gone
  <2> QED
    BY ZenonT(60), <2>1, EndInv
<1>6. CASE ClientLost
  <2>1. UNCHANGED <<script, pipe, sent, got, requests>> /\ broker' = broker /\ client' \in Clients
    BY ZenonT(60), <1>6 DEF ClientLost, Clients, Gone
  <2> QED
    BY Zenon, <2>1, EndInv
<1>7. CASE ClientDone
  <2>1. UNCHANGED <<script, pipe, sent, got, requests>> /\ broker' = broker /\ client' \in Clients
    BY ZenonT(60), <1>7 DEF ClientDone, Clients, Gone
  <2> QED
    BY Zenon, <2>1, EndInv
<1>8. CASE ClientQuit
  <2>1. UNCHANGED <<script, pipe, sent, got, requests>> /\ broker' = broker /\ client' \in Clients
    BY ZenonT(60), <1>8 DEF ClientQuit, Clients, Gone
  <2> QED
    BY Zenon, <2>1, EndInv
<1>9. CASE BrokerRead
  BY Zenon, <1>9, BrokerReadInv
<1>10. CASE BrokerTake
  BY ZenonT(60), <1>10, BrokerTakeInv
<1>11. CASE BrokerRefuse
  <2>1. UNCHANGED <<script, pipe, sent, got, requests>> /\ broker' = "refused" /\ client' \in Clients
    BY ZenonT(60), <1>0, <1>11 DEF BrokerRefuse
  <2> QED
    BY ZenonT(60), <2>1, EndInv
<1>12. CASE BrokerParse
  BY Zenon, <1>12, BrokerParseInv
<1>13. CASE BrokerRespond
  BY ZenonT(60), <1>13, BrokerRespondInv
<1>14. CASE BrokerWrite
  BY Zenon, <1>14, BrokerWriteInv
<1>15. CASE BrokerHangup
  <2>1. UNCHANGED <<script, pipe, sent, got, requests>> /\ broker' = "closed" /\ client' \in Clients
    BY ZenonT(60), <1>0, <1>15 DEF BrokerHangup
  <2> QED
    BY ZenonT(60), <2>1, EndInv
<1>16. CASE UNCHANGED vars
  <2>1. UNCHANGED <<script, pipe, sent, got, requests>> /\ broker' = broker /\ client' \in Clients
    BY ZenonT(60), <1>0, <1>16 DEF vars
  <2> QED
    BY Zenon, <2>1, EndInv
<1> QED
  BY ZenonT(60), <1>1, <1>2, <1>3, <1>4, <1>5, <1>6, <1>7, <1>8, <1>9, <1>10, <1>11, <1>12, <1>13,
     <1>14, <1>15, <1>16 DEF Next, ClientStep, BrokerStep

\* The state between any two steps of a connection: both byte streams are whole
\* frames end to end, read at frame boundaries, one request at a time.
THEOREM WireInvariance == Spec => []WireInv
<1>1. Init => WireInv
  BY SMTT(60), InitWireInv
<1>2. WireInv /\ [Next]_vars => WireInv'
  BY SMTT(60), NextWireInv
<1> QED
  BY <1>1, <1>2, PTL DEF Spec

\* For every script, frame size limit, socket capacity and fragmentation: the
\* frames Frame::decode returns are the first ones Frame::encode was given.
THEOREM FramesArriveIntact == Spec => []FramesIntact
<1>1. WireInv => FramesIntact
  <2> SUFFICES ASSUME WireInv, NEW d \in Direction PROVE IsPrefix(got[d], sent[d])
    BY ZenonT(60) DEF FramesIntact
  <2>1. /\ sent[d] \in Seq(Frame) /\ got[d] \in Seq(Frame)
        /\ Len(sent[d]) \in Nat /\ Len(got[d]) \in Nat /\ Len(got[d]) <= Len(sent[d])
        /\ \A i \in 1..Len(got[d]) : got[d][i] = sent[d][i]
    BY ZenonT(60), InvStreams, Lengths
  <2> QED
    BY SMTT(60), <2>1 DEF IsPrefix
<1> QED
  BY <1>1, WireInvariance, PTL

\* Every variable keeps its type and the positions of a direction their order.
THEOREM WireTypeCorrect == Spec => []TypeOK
<1>1. WireInv => TypeOK
  BY DEF WireInv
<1> QED
  BY <1>1, WireInvariance, PTL

-----------------------------------------------------------------------------
\* The connection implements Session.

\* The correlation ids of a sequence of frames.
LEMMA IdsFacts ==
  ASSUME NEW s \in Seq(Frame)
  PROVE  /\ IdsOf(s) \in Seq(Nat) /\ Len(IdsOf(s)) = Len(s)
         /\ \A i \in 1..Len(s) : IdsOf(s)[i] = s[i].correlation_id
<1> DEFINE n == Len(s)
<1>1. n \in Nat /\ DOMAIN s = 1..n
  BY ZenonT(60), LenProperties
<1>2. IdsOf(s) = [i \in 1..n |-> s[i].correlation_id]
  BY ZenonT(60), <1>1 DEF IdsOf
<1>3. \A i \in 1..n : s[i].correlation_id \in Nat
  <2> TAKE i \in 1..n
  <2>1. s[i] \in Frame
    BY ZenonT(60), ElementOfSeq
  <2> QED
    BY SMTT(60), <2>1 DEF Frame
<1> HIDE DEF n
<1>4. IdsOf(s) \in [1..n -> Nat] /\ \A i \in 1..n : IdsOf(s)[i] = s[i].correlation_id
  BY ZenonT(60), <1>2, <1>3
<1>5. IdsOf(s) \in Seq(Nat) /\ Len(IdsOf(s)) = n
  BY SMTT(60), <1>1, <1>4
<1> QED
  BY ZenonT(60), <1>4, <1>5 DEF n

\* One more frame is one more id.
LEMMA IdsAppend ==
  ASSUME NEW s \in Seq(Frame), NEW f \in Frame
  PROVE  IdsOf(Append(s, f)) = Append(IdsOf(s), f.correlation_id)
<1> DEFINE t == Append(s, f)
           u == Append(IdsOf(s), f.correlation_id)
           n == Len(s)
<1>1. t \in Seq(Frame) /\ Len(t) = n + 1 /\ t[n + 1] = f /\ \A i \in 1..n : t[i] = s[i]
  BY SMTT(60), AppendProperties
<1>2. /\ IdsOf(s) \in Seq(Nat) /\ Len(IdsOf(s)) = n
      /\ \A i \in 1..n : IdsOf(s)[i] = s[i].correlation_id
  BY ZenonT(60), IdsFacts
<1>3. f.correlation_id \in Nat /\ n \in Nat
  BY SMTT(60) DEF Frame
<1>4. /\ u \in Seq(Nat) /\ Len(u) = n + 1 /\ u[n + 1] = f.correlation_id
      /\ \A i \in 1..n : u[i] = IdsOf(s)[i]
  <2>1. /\ u \in Seq(Nat) /\ Len(u) = Len(IdsOf(s)) + 1
        /\ u[Len(IdsOf(s)) + 1] = f.correlation_id
        /\ \A i \in 1..Len(IdsOf(s)) : u[i] = IdsOf(s)[i]
    BY SMTT(60), <1>2, <1>3, AppendProperties
  <2> QED
    BY ZenonT(60), <1>2, <2>1
<1> HIDE DEF t, u, n
<1>5. /\ IdsOf(t) \in Seq(Nat) /\ Len(IdsOf(t)) = n + 1
      /\ \A i \in 1..(n + 1) : IdsOf(t)[i] = t[i].correlation_id
  BY ZenonT(60), <1>1, IdsFacts
<1>6. \A i \in 1..(n + 1) : IdsOf(t)[i] = u[i]
  <2> TAKE i \in 1..(n + 1)
  <2>1. i \in 1..n \/ i = n + 1
    BY SMTT(60), <1>3
  <2> QED
    BY ZenonT(60), <1>1, <1>2, <1>4, <1>5, <2>1
<1>7. IdsOf(t) = u
  BY ZenonT(60), <1>4, <1>5, <1>6, SeqEqual
<1> QED
  BY ZenonT(60), <1>7 DEF t, u

\* Sending a request is an Ask.
LEMMA SendIsAsk ==
  ASSUME WireInv, ClientSend
  PROVE  S!Ask
<1> DEFINE i == Len(sent["req"]) + 1
           f == ScriptFrame(script[i])
           c == script[i].correlation_id
<1>1. /\ StreamsOK /\ script \in Scripts /\ "req" \in Direction /\ "rep" \in Direction
  BY ZenonT(60), InvParts
<1>2. /\ sent["req"] \in Seq(Frame) /\ got["rep"] \in Seq(Frame) /\ Len(sent["req"]) \in Nat
  BY ZenonT(60), <1>1, Lengths
<1>3. MaySend /\ got' = got
  BY ZenonT(60) DEF ClientSend
<1>4. InFlight < MaxInFlight /\ Len(sent["req"]) < Len(script)
  BY ZenonT(60), <1>3 DEF MaySend
<1>5. i \in DOMAIN script /\ Encodable(f) /\ f.correlation_id = c
  BY ZenonT(60), <1>1, <1>2, <1>4, ScriptFrames
<1>6. sent'["req"] = Append(sent["req"], f) /\ sent'["rep"] = sent["rep"]
  BY ZenonT(60), ClientSendInv
<1>7. script[i] \in UNION {Range(sc) : sc \in Scripts}
  <2>1. script[i] \in Range(script)
    BY SMTT(60), <1>5 DEF Range
  <2>2. Range(script) \in {Range(sc) : sc \in Scripts}
    BY ZenonT(60), <1>1
  <2> QED
    BY ZenonT(60), <2>1, <2>2
<1>8. f \in Frame
  BY SMTT(60), <1>5 DEF Encodable
<1> HIDE DEF f, i
<1>9. c \in {r.correlation_id : r \in UNION {Range(sc) : sc \in Scripts}}
  BY ZenonT(60), <1>7
<1> HIDE DEF c
<1>10. IdsOf(sent'["req"]) = Append(IdsOf(sent["req"]), c)
  BY ZenonT(60), <1>2, <1>5, <1>6, <1>8, IdsAppend
<1>11. Len(IdsOf(sent["req"])) - Len(IdsOf(got["rep"])) < MaxInFlight
  <2>1. Len(IdsOf(sent["req"])) = Len(sent["req"]) /\ Len(IdsOf(got["rep"])) = Len(got["rep"])
    BY ZenonT(60), <1>2, IdsFacts
  <2> QED
    BY ZenonT(60), <1>4, <2>1 DEF InFlight
<1> QED
  BY ZenonT(60), <1>3, <1>6, <1>9, <1>10, <1>11 DEF S!Ask

\* Answering a request is a Serve: of the oldest one not served.
LEMMA RespondIsServe ==
  ASSUME WireInv, BrokerRespond
  PROVE  S!Serve
<1>1. StreamsOK /\ "req" \in Direction /\ "rep" \in Direction
  BY ZenonT(60), InvParts
<1>2. /\ sent["req"] \in Seq(Frame) /\ sent["rep"] \in Seq(Frame)
      /\ Len(sent["req"]) \in Nat /\ Len(sent["rep"]) \in Nat
  BY ZenonT(60), <1>1, Lengths
<1>3. sent'["req"] = sent["req"] /\ Len(sent["rep"]) < Len(sent["req"])
  BY ZenonT(60), BrokerRespondInv
<1>4. PICK g : /\ sent'["rep"] = Append(sent["rep"], g) /\ Encodable(g)
               /\ g.correlation_id = sent["req"][Len(sent["rep"]) + 1].correlation_id
  BY ZenonT(60), BrokerRespondInv
<1>5. got' = got
  BY ZenonT(60) DEF BrokerRespond
<1>6. g \in Frame
  BY SMTT(60), <1>4 DEF Encodable
<1>7. IdsOf(sent'["rep"]) = Append(IdsOf(sent["rep"]), g.correlation_id)
  BY ZenonT(60), <1>2, <1>4, <1>6, IdsAppend
<1>8. /\ Len(IdsOf(sent["rep"])) = Len(sent["rep"]) /\ Len(IdsOf(sent["req"])) = Len(sent["req"])
      /\ \A i \in 1..Len(sent["req"]) : IdsOf(sent["req"])[i] = sent["req"][i].correlation_id
  BY ZenonT(60), <1>2, IdsFacts
<1>9. Len(sent["rep"]) + 1 \in 1..Len(sent["req"])
  BY SMTT(60), <1>2, <1>3
<1>10. g.correlation_id = IdsOf(sent["req"])[Len(IdsOf(sent["rep"])) + 1]
  BY ZenonT(60), <1>4, <1>8, <1>9
<1>11. Len(IdsOf(sent["rep"])) < Len(IdsOf(sent["req"]))
  BY ZenonT(60), <1>3, <1>8
<1> QED
  BY ZenonT(60), <1>3, <1>5, <1>7, <1>10, <1>11 DEF S!Serve

\* Taking a reply is an Answer: to the oldest request served and not answered.
LEMMA ReplyIsAnswer ==
  ASSUME WireInv, ClientReply
  PROVE  S!Answer
<1> DEFINE f == sent["rep"][Len(got["rep"]) + 1]
<1>1. StreamsOK /\ "req" \in Direction /\ "rep" \in Direction
  BY Zenon, InvParts
<1>2. /\ got["rep"] \in Seq(Frame) /\ sent["rep"] \in Seq(Frame)
      /\ Len(got["rep"]) \in Nat /\ Len(sent["rep"]) \in Nat
  BY ZenonT(60), <1>1, Lengths
<1>3. Len(got["rep"]) < Len(sent["rep"]) /\ got'["rep"] = Append(got["rep"], f)
  BY ZenonT(60), ClientReplyInv
<1>4. sent' = sent
  BY ZenonT(60) DEF ClientReply
<1>5. Len(got["rep"]) + 1 \in 1..Len(sent["rep"])
  BY SMTT(60), <1>2, <1>3
<1>6. f \in Frame
  BY ZenonT(60), <1>2, <1>5, ElementOfSeq
<1>7. IdsOf(got'["rep"]) = Append(IdsOf(got["rep"]), f.correlation_id)
  BY ZenonT(60), <1>2, <1>3, <1>6, IdsAppend
<1>8. /\ Len(IdsOf(got["rep"])) = Len(got["rep"]) /\ Len(IdsOf(sent["rep"])) = Len(sent["rep"])
      /\ \A i \in 1..Len(sent["rep"]) : IdsOf(sent["rep"])[i] = sent["rep"][i].correlation_id
  BY ZenonT(60), <1>2, IdsFacts
<1>9. f.correlation_id = IdsOf(sent["rep"])[Len(IdsOf(got["rep"])) + 1]
  BY ZenonT(60), <1>5, <1>8
<1>10. Len(IdsOf(got["rep"])) < Len(IdsOf(sent["rep"]))
  BY ZenonT(60), <1>3, <1>8
<1> QED
  BY ZenonT(60), <1>4, <1>7, <1>9, <1>10 DEF S!Answer

\* Every connection implements Session: requests are served exactly once and in
\* order, and replies come back in the order of the requests, at most
\* max_in_flight behind.
THEOREM ImplementsSession == Spec => IsSession
<1>1. Init => S!Init
  <2> SUFFICES ASSUME Init PROVE S!Init
    OBVIOUS
  <2>1. "req" \in Direction /\ "rep" \in Direction
    BY Zenon DEF Direction
  <2>2. sent["req"] = <<>> /\ sent["rep"] = <<>> /\ got["rep"] = <<>>
    BY ZenonT(60), <2>1 DEF Init
  <2>3. IdsOf(<<>>) = <<>>
    <3>1. <<>> \in Seq(Frame) /\ Len(<<>>) = 0
      BY ZenonT(60), EmptySeq
    <3>2. IdsOf(<<>>) \in Seq(Nat) /\ Len(IdsOf(<<>>)) = 0
      BY ZenonT(60), <3>1, IdsFacts
    <3> QED
      BY SMTT(60), <3>2
  <2> QED
    BY ZenonT(60), <2>2, <2>3 DEF S!Init
<1>2. WireInv /\ [Next]_vars => [S!Next]_(S!vars)
  <2> SUFFICES ASSUME WireInv, [Next]_vars PROVE [S!Next]_(S!vars)
    OBVIOUS
  <2>1. CASE ClientSend
    BY ZenonT(60), <2>1, SendIsAsk DEF S!Next
  <2>2. CASE BrokerRespond
    BY ZenonT(60), <2>2, RespondIsServe DEF S!Next
  <2>3. CASE ClientReply
    BY ZenonT(60), <2>3, ReplyIsAnswer DEF S!Next
  <2>4. CASE BrokerTake
    <3>1. sent' = sent /\ got'["rep"] = got["rep"]
      BY ZenonT(60), <2>4, BrokerTakeInv DEF BrokerTake
    <3> QED
      BY ZenonT(60), <3>1 DEF S!vars
  <2>5. CASE \/ ClientWrite \/ ClientRead \/ ClientRefuse \/ ClientLost \/ ClientDone
             \/ ClientQuit \/ BrokerRead \/ BrokerRefuse \/ BrokerParse \/ BrokerWrite
             \/ BrokerHangup \/ UNCHANGED vars
    <3>1. sent' = sent /\ got' = got
      BY ZenonT(60), <2>5 DEF ClientWrite, ClientRead, ClientRefuse, ClientLost, ClientDone,
         ClientQuit, BrokerRead, BrokerRefuse, BrokerParse, BrokerWrite, BrokerHangup, vars
    <3> QED
      BY ZenonT(60), <3>1 DEF S!vars
  <2> QED
    BY ZenonT(60), <2>1, <2>2, <2>3, <2>4, <2>5 DEF Next, ClientStep, BrokerStep
<1> QED
  BY <1>1, <1>2, WireInvariance, PTL DEF Spec, IsSession, S!Spec
=============================================================================
