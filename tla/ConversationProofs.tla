------------------------- MODULE ConversationProofs -------------------------
(***************************************************************************)
(* What the two ends of a connection tell each other: the broker works on   *)
(* the requests the client built, the client reads the answers the broker   *)
(* made, and a connection is dropped only for cause.                        *)
(***************************************************************************)
EXTENDS WireProofs

-----------------------------------------------------------------------------
\* What Frame::decode makes of a complete frame.

\* Once it has enough bytes it accepts the next frame sent exactly if that
\* frame is within its limits.
LEMMA DecodeDecides ==
  ASSUME NEW p, NEW s, NEW g, StreamOK(p, s, g), NEW b,
         b = SubSeq(p.bytes, p.consumed + 1, p.arrived), ~Incomplete(b)
  PROVE  /\ Len(g) < Len(s) /\ Encodable(s[Len(g) + 1])
         /\ Refused(b) <=> ~Decodable(s[Len(g) + 1])
<1> DEFINE G == Len(g)
           f == s[G + 1]
           e == Encode(f)
           K == Len(e)
           c == p.consumed
<1>1. /\ Len(s) \in Nat /\ G \in Nat /\ Len(p.bytes) \in Nat
      /\ p.written \in Nat /\ p.arrived \in Nat /\ c \in Nat
  BY ZenonT(60), StreamFacts
<1>2. /\ b \in Seq(Byte) /\ Len(b) = p.arrived - c
      /\ \A k \in 1..Len(b) : b[k] = p.bytes[c + k]
  BY ZenonT(60), BufferBytes
<1>3. /\ EndOf(p, Len(s)) = Len(p.bytes) /\ G <= Len(s) /\ c = EndOf(p, G)
      /\ \A i \in 1..Len(s) : FrameInPlace(p, s[i], i)
  BY Zenon DEF StreamOK, FramedStream
<1>4. c <= p.arrived /\ p.arrived <= p.written /\ p.written <= Len(p.bytes)
  BY Zenon DEF StreamOK, InOrder
<1>5. Len(b) \in Nat
  BY ZenonT(60), <1>2, LenProperties
<1>6. ~(Len(b) < Needed(b))
  BY Zenon DEF Incomplete
<1>7. Len(b) >= 4
  <2>1. CASE Len(b) >= 4
    BY ZenonT(60), <2>1
  <2>2. CASE ~(Len(b) >= 4)
    <3>1. Needed(b) = 4
      BY ZenonT(60), <2>2 DEF Needed
    <3>2. \A x \in Nat : ~(x < 4) => x >= 4
      BY SMTT(60)
    <3> QED
      BY ZenonT(60), <1>5, <1>6, <2>2, <3>1, <3>2
  <2> QED
    BY ZenonT(60), <2>1, <2>2
<1>8. G < Len(s)
  <2>1. CASE G = Len(s)
    <3>1. c = Len(p.bytes)
      BY ZenonT(60), <1>3, <2>1
    <3>2. \A a, w, n \in Nat : ~(a - n >= 4 /\ a <= w /\ w <= n)
      BY SMTT(60)
    <3> HIDE DEF c
    <3> QED
      BY ZenonT(60), <1>1, <1>2, <1>4, <1>7, <3>1, <3>2
  <2> HIDE DEF G
  <2> QED
    BY SMTT(60), <1>1, <1>3, <2>1
<1> HIDE DEF c, G
<1>9. G + 1 \in 1..Len(s) /\ (G + 1) - 1 = G
  BY SMTT(60), <1>1, <1>8
<1>10. Encodable(f) /\ \A k \in 1..K : p.bytes[c + k] = e[k]
  <2>1. FrameInPlace(p, f, G + 1)
    BY ZenonT(60), <1>3, <1>9
  <2> QED
    BY ZenonT(60), <1>3, <1>9, <2>1 DEF FrameInPlace
<1>11. e \in Seq(Byte) /\ K = 4 + BodyLen(f) /\ BodyLen(f) \in Nat /\ BodyLen(f) >= 17
  BY ZenonT(60), <1>10, EncodeLen
<1> HIDE DEF K
<1>12. TotalLen(b) = BodyLen(f)
  <2>1. \A k \in 1..4 : k \in 1..Len(b) /\ k \in 1..K
    <3>1. \A x, y \in Nat : x >= 4 => \A k \in 1..4 : k \in 1..x /\ k \in 1..(4 + y)
      BY SMTT(60)
    <3> QED
      BY ZenonT(60), <1>5, <1>7, <1>11, <3>1
  <2>2. \A k \in 1..4 : b[k] = e[k]
    BY ZenonT(60), <1>2, <1>10, <2>1
  <2> QED
    BY ZenonT(60), <1>10, <2>2, LengthPrefix
<1>13. TotalLenOK(b) <=> BodyLen(f) <= MaxFrameSize
  <2>1. MaxFrameSize \in Nat
    BY ZenonT(60), SizeAssumption
  <2>2. \A n, m \in Nat : n >= 17 => (n \in 17..m <=> n <= m)
    BY SMTT(60)
  <2> QED
    BY ZenonT(60), <1>11, <1>12, <2>1, <2>2 DEF TotalLenOK, MinHeaderSize
<1>14. CASE TotalLenOK(b)
  <2>1. Needed(b) = 4 + BodyLen(f)
    BY ZenonT(60), <1>7, <1>12, <1>14 DEF Needed
  <2>2. K <= Len(b) /\ \A k \in 1..K : k \in 1..Len(b)
    <3>1. \A x, y \in Nat : ~(x < 4 + y) => 4 + y <= x /\ \A k \in 1..(4 + y) : k \in 1..x
      BY SMTT(60)
    <3> QED
      BY ZenonT(60), <1>5, <1>6, <1>11, <2>1, <3>1
  <2>3. Starts(b, e)
    BY ZenonT(60), <1>2, <1>10, <2>2 DEF Starts, K
  <2>4. BodyOK(Body(b)) <=> Named(f)
    BY ZenonT(60), <1>2, <1>10, <2>3, DecodeUndoesEncode
  <2>5. Refused(b) <=> ~Decodable(f)
    BY ZenonT(60), <1>13, <1>14, <2>4 DEF Refused, Decodable
  <2> QED
    BY ZenonT(60), <1>8, <1>10, <2>5 DEF G
<1>15. CASE ~TotalLenOK(b)
  <2>1. Refused(b) /\ ~Decodable(f)
    BY ZenonT(60), <1>13, <1>15 DEF Refused, Decodable
  <2> QED
    BY ZenonT(60), <1>8, <1>10, <2>1 DEF G
<1> QED
  BY ZenonT(60), <1>14, <1>15

\* The same of the buffer of a direction.
LEMMA BufferDecides ==
  ASSUME StreamsOK, NEW d \in Direction, ~Incomplete(Buffer(d))
  PROVE  /\ Len(got[d]) < Len(sent[d]) /\ Encodable(sent[d][Len(got[d]) + 1])
         /\ Refused(Buffer(d)) <=> ~Decodable(sent[d][Len(got[d]) + 1])
<1>1. StreamOK(pipe[d], sent[d], got[d])
  BY ZenonT(60) DEF StreamsOK
<1>2. Buffer(d) = SubSeq(pipe[d].bytes, pipe[d].consumed + 1, pipe[d].arrived)
  BY ZenonT(60) DEF Buffer
<1> QED
  BY ZenonT(60), <1>1, <1>2, DecodeDecides

-----------------------------------------------------------------------------
\* The inductive invariant, in the parts the two ends change.

\* The client sends the script's requests in order.
Asked ==
  /\ Len(sent["req"]) <= Len(script)
  /\ \A i \in 1..Len(sent["req"]) : sent["req"][i] = ScriptFrame(script[i])

\* The broker takes only frames its decoder accepts.
Taken == \A i \in 1..Len(got["req"]) : Decodable(got["req"][i])

\* Its requests are those frames, in order.
Parsed ==
  /\ Len(requests) = Len(responses) + (IF broker = "handling" THEN 1 ELSE 0)
  /\ Len(requests) <= Len(got["req"])
  /\ \A i \in 1..Len(requests) :
       ~BadRequest(got["req"][i]) /\ requests[i] = RequestOf(got["req"][i])

\* Its responses are answers to them, in order, and are what it sends.
Answered ==
  /\ responses \in Seq(Range(responses)) /\ Len(sent["rep"]) = Len(responses)
  /\ \A i \in 1..Len(responses) :
       /\ responses[i] \in ResponsesTo(requests[i])
       /\ sent["rep"][i] = ResponseFrame(responses[i]) /\ Named(sent["rep"][i])

BrokerCause ==
  broker = "refused" =>
    Len(responses) < Len(script) /\ ~Carried(script[Len(responses) + 1])

ClientCause ==
  client = "failed" =>
    \/ broker = "refused"
    \/ /\ Len(got["rep"]) < Len(sent["rep"])
       /\ BodyLen(sent["rep"][Len(got["rep"]) + 1]) > MaxFrameSize

\* WireInv gives the bytes; with it these are preserved by every step.
TalkInv == WireInv /\ Conversation /\ FailureHasCause

\* The two invariants split into the part about each piece of the connection.
LEMMA TalkParts ==
  Conversation /\ FailureHasCause <=>
    Asked /\ Taken /\ Parsed /\ Answered /\ BrokerCause /\ ClientCause
  BY ZenonT(60) DEF Conversation, FailureHasCause, Asked, Taken, Parsed, Answered, BrokerCause,
     ClientCause

\* The same with primes, for the state after a step.
LEMMA TalkPartsNext ==
  ASSUME Asked', Taken', Parsed', Answered', BrokerCause', ClientCause'
  PROVE  Conversation' /\ FailureHasCause'
  BY ZenonT(60) DEF Conversation, FailureHasCause, Asked, Taken, Parsed, Answered, BrokerCause,
     ClientCause

\* A step that moves no frame and no message, and neither starts nor ends the
\* handling of a request.
LEMMA SameTalk ==
  ASSUME Asked, Taken, Parsed, Answered, UNCHANGED <<script, requests, responses>>,
         sent' = sent, got'["req"] = got["req"],
         (broker' = "handling") <=> (broker = "handling")
  PROVE  Asked' /\ Taken' /\ Parsed' /\ Answered'
<1>1. Asked'
  BY ZenonT(60) DEF Asked
<1>2. Taken'
  BY ZenonT(60) DEF Taken
<1>3. Parsed'
  BY ZenonT(60) DEF Parsed
<1>4. Answered'
  BY ZenonT(60) DEF Answered
<1> QED
  BY ZenonT(60), <1>1, <1>2, <1>3, <1>4

\* A failure keeps its cause while a step changes neither end's state.
LEMMA SameCause ==
  ASSUME BrokerCause, ClientCause, UNCHANGED <<script, sent, got, responses, client, broker>>
  PROVE  BrokerCause' /\ ClientCause'
<1>1. BrokerCause'
  BY Zenon DEF BrokerCause
<1>2. ClientCause'
  BY Zenon DEF ClientCause
<1> QED
  BY Zenon, <1>1, <1>2

\* The lengths a step reasons about.
LEMMA TalkLengths ==
  ASSUME TalkInv
  PROVE  /\ StreamsOK /\ OneAtATime /\ script \in Scripts
         /\ "req" \in Direction /\ "rep" \in Direction /\ Direction = {"req", "rep"}
         /\ Asked /\ Taken /\ Parsed /\ Answered /\ BrokerCause /\ ClientCause
         /\ script \in Seq(Range(script)) /\ Len(script) \in Nat
         /\ DOMAIN script = 1..Len(script)
         /\ requests \in Seq(Range(requests)) /\ Len(requests) \in Nat
         /\ Len(responses) \in Nat
         /\ \A d \in Direction :
              /\ sent[d] \in Seq(Frame) /\ got[d] \in Seq(Frame)
              /\ Len(sent[d]) \in Nat /\ Len(got[d]) \in Nat /\ Len(got[d]) <= Len(sent[d])
              /\ \A i \in 1..Len(got[d]) : got[d][i] = sent[d][i]
              /\ \A i \in 1..Len(sent[d]) : Encodable(sent[d][i])
<1>1. WireInv /\ Conversation /\ FailureHasCause
  BY Zenon DEF TalkInv
<1>2. /\ StreamsOK /\ OneAtATime /\ script \in Scripts
      /\ "req" \in Direction /\ "rep" \in Direction /\ Direction = {"req", "rep"}
  BY Zenon, <1>1, InvParts
<1>3. Asked /\ Taken /\ Parsed /\ Answered /\ BrokerCause /\ ClientCause
  BY Zenon, <1>1, TalkParts
<1>4. script \in Seq(Range(script))
  BY Zenon, <1>2, ScriptAssumption
<1>5. requests \in Seq(Range(requests)) /\ responses \in Seq(Range(responses))
  BY ZenonT(60), <1>2, <1>3 DEF OneAtATime, Answered
<1>6. /\ Len(script) \in Nat /\ DOMAIN script = 1..Len(script)
      /\ Len(requests) \in Nat /\ Len(responses) \in Nat
  BY ZenonT(60), <1>4, <1>5, LenProperties
<1>7. \A d \in Direction :
        /\ sent[d] \in Seq(Frame) /\ got[d] \in Seq(Frame)
        /\ Len(sent[d]) \in Nat /\ Len(got[d]) \in Nat /\ Len(got[d]) <= Len(sent[d])
        /\ \A i \in 1..Len(got[d]) : got[d][i] = sent[d][i]
        /\ \A i \in 1..Len(sent[d]) : Encodable(sent[d][i])
  BY ZenonT(60), <1>2, Lengths
<1> QED
  BY Zenon, <1>2, <1>3, <1>4, <1>5, <1>6, <1>7

\* Before the first request nothing has been said.
LEMMA InitTalk == Init => Conversation /\ FailureHasCause
<1> SUFFICES ASSUME Init PROVE Conversation /\ FailureHasCause
  OBVIOUS
<1>1. /\ script \in Scripts /\ sent = [d \in Direction |-> <<>>]
      /\ got = [d \in Direction |-> <<>>] /\ requests = <<>> /\ responses = <<>>
      /\ client = "ready" /\ broker = "reading"
  BY ZenonT(60) DEF Init
<1>2. sent["req"] = <<>> /\ sent["rep"] = <<>> /\ got["req"] = <<>>
  BY ZenonT(60), <1>1 DEF Direction
<1>3. Len(<<>>) = 0 /\ 0 <= 0 /\ 0 + 0 = 0 /\ \A i : i \notin 1..0
  BY SMTT(60)
<1>4. 0 <= Len(script)
  <2>1. script \in Seq(Range(script))
    BY ZenonT(60), <1>1, ScriptAssumption
  <2>2. Len(script) \in Nat
    BY ZenonT(60), <2>1, LenProperties
  <2> QED
    BY SMTT(60), <2>2
<1>5. Asked /\ Taken
  BY ZenonT(60), <1>2, <1>3, <1>4 DEF Asked, Taken
<1>6. Parsed
  BY ZenonT(60), <1>1, <1>2, <1>3 DEF Parsed
<1>7. Answered
  <2>1. responses \in Seq(Range(responses))
    BY SMTT(60), <1>1
  <2> QED
    BY ZenonT(60), <1>1, <1>2, <1>3, <2>1 DEF Answered
<1>8. BrokerCause /\ ClientCause
  BY ZenonT(60), <1>1 DEF BrokerCause, ClientCause
<1> QED
  BY ZenonT(60), <1>5, <1>6, <1>7, <1>8, TalkParts

-----------------------------------------------------------------------------
\* The steps.

\* ClientSend: the next request of the script goes out behind the others.
LEMMA ClientSendTalk ==
  ASSUME TalkInv, ClientSend
  PROVE  Conversation' /\ FailureHasCause'
<1> DEFINE n == Len(sent["req"])
           f == ScriptFrame(script[n + 1])
<1>1. /\ Asked /\ Taken /\ Parsed /\ Answered /\ BrokerCause
      /\ script \in Scripts /\ Len(script) \in Nat
      /\ "req" \in Direction /\ sent["req"] \in Seq(Frame) /\ n \in Nat
  BY ZenonT(60), TalkLengths
<1>2. /\ sent'["req"] = Append(sent["req"], f) /\ sent'["rep"] = sent["rep"]
  BY ZenonT(60), ClientSendInv DEF TalkInv
<1>3. /\ UNCHANGED <<script, got, requests, responses, broker>> /\ client' = "flushing"
      /\ n < Len(script)
  BY ZenonT(60) DEF ClientSend, MaySend
<1>4. f \in Frame
  <2>1. Encodable(f)
    BY ZenonT(60), <1>1, <1>3, ScriptFrames
  <2> HIDE DEF f
  <2> QED
    BY SMTT(60), <2>1 DEF Encodable
<1>5. n + 1 <= Len(script) /\ \A i \in 1..(n + 1) : i \in 1..n \/ i = n + 1
  BY SMTT(60), <1>1, <1>3
<1>6. Asked'
  <2>1. \A i \in 1..n : sent["req"][i] = ScriptFrame(script[i])
    BY ZenonT(60), <1>1 DEF Asked
  <2>2. /\ Len(Append(sent["req"], f)) = n + 1 /\ Append(sent["req"], f)[n + 1] = f
        /\ \A i \in 1..n : Append(sent["req"], f)[i] = sent["req"][i]
    <3> HIDE DEF f
    <3>1. sent["req"] \in Seq(Frame) /\ f \in Frame
      BY ZenonT(60), <1>1, <1>4
    <3> QED
      BY SMTT(60), <3>1, AppendProperties
  <2> HIDE DEF n
  <2>3. Len(sent'["req"]) = n + 1 /\ Len(sent'["req"]) <= Len(script')
    BY ZenonT(60), <1>2, <1>3, <1>5, <2>2
  <2>4. \A i \in 1..(n + 1) : sent'["req"][i] = ScriptFrame(script'[i])
    BY ZenonT(60), <1>2, <1>3, <1>5, <2>1, <2>2
  <2> QED
    BY ZenonT(60), <2>3, <2>4 DEF Asked
<1>7. Taken' /\ Parsed'
  BY ZenonT(60), <1>1, <1>3 DEF Taken, Parsed
<1>8. Answered'
  BY ZenonT(60), <1>1, <1>2, <1>3 DEF Answered
<1>9. BrokerCause' /\ ClientCause'
  BY ZenonT(60), <1>1, <1>3 DEF BrokerCause, ClientCause
<1> QED
  BY ZenonT(60), <1>6, <1>7, <1>8, <1>9, TalkPartsNext

\* Steps that only move bytes: no frame is sent or taken, and neither end stops.
LEMMA ByteStepTalk ==
  ASSUME TalkInv, ClientWrite \/ ClientRead \/ BrokerRead \/ BrokerWrite
  PROVE  Conversation' /\ FailureHasCause'
<1>1. Asked /\ Taken /\ Parsed /\ Answered /\ BrokerCause /\ ClientCause
  BY ZenonT(60), TalkLengths
<1>2. UNCHANGED <<script, sent, got, requests, responses>>
  BY ZenonT(60) DEF ClientWrite, ClientRead, BrokerRead, BrokerWrite
<1>3. \/ broker' = broker
      \/ broker = "flushing" /\ broker' \in {"reading", "flushing"}
  BY ZenonT(60) DEF ClientWrite, ClientRead, BrokerRead, BrokerWrite, AfterWrite
<1>4. \/ client' = client
      \/ client' \in {"ready", "flushing"}
  BY ZenonT(60) DEF ClientWrite, ClientRead, BrokerRead, BrokerWrite, AfterWrite
<1>5. Asked' /\ Taken' /\ Parsed' /\ Answered'
  BY ZenonT(60), <1>1, <1>2, <1>3, SameTalk
<1>6. BrokerCause'
  BY ZenonT(60), <1>1, <1>2, <1>3 DEF BrokerCause
<1>7. ClientCause'
  BY ZenonT(60), <1>1, <1>2, <1>3, <1>4 DEF ClientCause
<1> QED
  BY ZenonT(60), <1>5, <1>6, <1>7, TalkPartsNext

\* ClientReply: taking a reply changes only what the client has.
LEMMA ClientReplyTalk ==
  ASSUME TalkInv, ClientReply
  PROVE  Conversation' /\ FailureHasCause'
<1>1. /\ Asked /\ Taken /\ Parsed /\ Answered /\ BrokerCause /\ StreamsOK
      /\ "req" \in Direction /\ "rep" \in Direction
  BY ZenonT(60), TalkLengths
<1>2. /\ Take("rep") /\ UNCHANGED <<script, sent, requests, responses, client, broker>>
      /\ client = "ready"
  BY ZenonT(60) DEF ClientReply, Waiting
<1>3. \A o \in Direction \ {"rep"} : got'[o] = got[o]
  BY ZenonT(60), <1>1, <1>2, TakeStep
<1>4. got'["req"] = got["req"]
  BY ZenonT(60), <1>1, <1>3
<1>5. Asked' /\ Taken' /\ Parsed' /\ Answered'
  BY ZenonT(60), <1>1, <1>2, <1>4, SameTalk
<1>6. BrokerCause' /\ ClientCause'
  BY ZenonT(60), <1>1, <1>2 DEF BrokerCause, ClientCause
<1> QED
  BY ZenonT(60), <1>5, <1>6, TalkPartsNext

\* ClientRefuse: the broker names its replies as the decoder asks, so only a
\* reply that is too large is refused.
LEMMA ClientRefuseTalk ==
  ASSUME TalkInv, ClientRefuse
  PROVE  Conversation' /\ FailureHasCause'
<1> DEFINE n == Len(got["rep"])
           f == sent["rep"][n + 1]
<1>1. /\ Asked /\ Taken /\ Parsed /\ Answered /\ BrokerCause /\ StreamsOK
      /\ "rep" \in Direction /\ n \in Nat /\ Len(sent["rep"]) \in Nat
  BY ZenonT(60), TalkLengths
<1>2. /\ Refused(Buffer("rep")) /\ client' = "failed"
      /\ UNCHANGED <<script, pipe, sent, got, requests, responses, broker>>
  BY ZenonT(60) DEF ClientRefuse
<1>3. ~Incomplete(Buffer("rep"))
  BY ZenonT(60), <1>2 DEF Refused
<1>4. n < Len(sent["rep"]) /\ Encodable(f) /\ ~Decodable(f)
  BY ZenonT(60), <1>1, <1>2, <1>3, BufferDecides
<1>5. Named(f)
  <2>1. n + 1 \in 1..Len(sent["rep"])
    <3> HIDE DEF n
    <3> QED
      BY SMTT(60), <1>1, <1>4
  <2> QED
    BY ZenonT(60), <1>1, <2>1 DEF Answered
<1>6. BodyLen(f) > MaxFrameSize
  <2>1. ~(BodyLen(f) <= MaxFrameSize)
    BY ZenonT(60), <1>4, <1>5 DEF Decodable
  <2>2. BodyLen(f) \in Nat /\ MaxFrameSize \in Nat
    BY ZenonT(60), <1>4, EncodeLen, SizeAssumption
  <2> HIDE DEF f
  <2> QED
    BY SMTT(60), <2>1, <2>2
<1>7. Asked' /\ Taken' /\ Parsed' /\ Answered'
  BY ZenonT(60), <1>1, <1>2, SameTalk
<1>8. BrokerCause'
  BY ZenonT(60), <1>1, <1>2 DEF BrokerCause
<1>9. ClientCause'
  BY ZenonT(60), <1>2, <1>4, <1>6 DEF ClientCause
<1> QED
  BY ZenonT(60), <1>7, <1>8, <1>9, TalkPartsNext

\* The client stops, for one of the other reasons.
LEMMA ClientStopTalk ==
  ASSUME TalkInv, ClientLost \/ ClientDone \/ ClientQuit
  PROVE  Conversation' /\ FailureHasCause'
<1>1. Asked /\ Taken /\ Parsed /\ Answered /\ BrokerCause
  BY ZenonT(60), TalkLengths
<1>2. /\ UNCHANGED <<script, sent, got, requests, responses, broker>>
      /\ client' \in {"done", "quit"} \/ broker = "refused"
  BY ZenonT(60) DEF ClientLost, ClientDone, ClientQuit
<1>3. Asked' /\ Taken' /\ Parsed' /\ Answered'
  BY ZenonT(60), <1>1, <1>2, SameTalk
<1>4. BrokerCause' /\ ClientCause'
  BY ZenonT(60), <1>1, <1>2 DEF BrokerCause, ClientCause
<1> QED
  BY ZenonT(60), <1>3, <1>4, TalkPartsNext

\* BrokerTake: the frame the broker takes is within the decoder's limits.
LEMMA BrokerTakeTalk ==
  ASSUME TalkInv, BrokerTake
  PROVE  Conversation' /\ FailureHasCause'
<1> DEFINE n == Len(got["req"])
           f == sent["req"][n + 1]
<1>1. /\ Asked /\ Taken /\ Parsed /\ Answered /\ BrokerCause /\ ClientCause /\ StreamsOK
      /\ "req" \in Direction /\ "rep" \in Direction /\ n \in Nat
      /\ Len(requests) \in Nat /\ got["req"] \in Seq(Frame)
  BY ZenonT(60), TalkLengths
<1>2. /\ Take("req") /\ UNCHANGED <<script, sent, requests, responses, client>>
      /\ broker = "reading" /\ broker' = "parsing"
  BY ZenonT(60) DEF BrokerTake
<1>3. /\ got'["req"] = Append(got["req"], f)
      /\ \A o \in Direction \ {"req"} : got'[o] = got[o]
  BY ZenonT(60), <1>1, <1>2, TakeStep
<1>4. ~Incomplete(Buffer("req")) /\ ~Refused(Buffer("req"))
  BY ZenonT(60), <1>2 DEF Take
<1>5. Decodable(f) /\ f \in Frame
  <2>1. Decodable(f) /\ Encodable(f)
    BY ZenonT(60), <1>1, <1>4, BufferDecides
  <2> HIDE DEF f
  <2> QED
    BY SMTT(60), <2>1 DEF Encodable
<1>6. got'["rep"] = got["rep"]
  BY ZenonT(60), <1>1, <1>3
<1> HIDE DEF f
<1>7. /\ Len(got'["req"]) = n + 1 /\ got'["req"][n + 1] = f
      /\ \A i \in 1..n : got'["req"][i] = got["req"][i]
  <2>1. got["req"] \in Seq(Frame) /\ f \in Frame
    BY ZenonT(60), <1>1, <1>5
  <2>2. /\ Len(Append(got["req"], f)) = n + 1 /\ Append(got["req"], f)[n + 1] = f
        /\ \A i \in 1..n : Append(got["req"], f)[i] = got["req"][i]
    BY <2>1, AppendProperties
  <2> QED
    BY ZenonT(60), <1>3, <2>2
<1>8. Asked' /\ Answered'
  BY ZenonT(60), <1>1, <1>2 DEF Asked, Answered
<1>9. Taken'
  <2>1. \A i \in 1..n : Decodable(got["req"][i])
    BY ZenonT(60), <1>1 DEF Taken
  <2> HIDE DEF n
  <2>2. \A i \in 1..(n + 1) : i \in 1..n \/ i = n + 1
    BY SMTT(60), <1>1
  <2>3. \A i \in 1..(n + 1) : Decodable(got'["req"][i])
    BY ZenonT(60), <1>5, <1>7, <2>1, <2>2
  <2> QED
    BY ZenonT(60), <1>7, <2>3 DEF Taken
<1>10. Parsed'
  <2>1. Len(requests) = Len(responses) + 0 /\ Len(requests) <= n
    BY ZenonT(60), <1>1, <1>2 DEF Parsed
  <2>2. \A i \in 1..Len(requests) :
          ~BadRequest(got["req"][i]) /\ requests[i] = RequestOf(got["req"][i])
    BY ZenonT(60), <1>1 DEF Parsed
  <2> HIDE DEF n
  <2>3. Len(requests) <= n + 1 /\ \A i \in 1..Len(requests) : i \in 1..n
    BY SMTT(60), <1>1, <2>1
  <2>4. \A i \in 1..Len(requests) :
          ~BadRequest(got'["req"][i]) /\ requests[i] = RequestOf(got'["req"][i])
    BY ZenonT(60), <1>7, <2>2, <2>3
  <2> QED
    BY ZenonT(60), <1>2, <1>7, <2>1, <2>3, <2>4 DEF Parsed
<1>11. BrokerCause' /\ ClientCause'
  BY ZenonT(60), <1>1, <1>2, <1>6 DEF BrokerCause, ClientCause
<1> QED
  BY ZenonT(60), <1>8, <1>9, <1>10, <1>11, TalkPartsNext

\* The n-th frame the broker is to read is the n-th request of the script.
LEMMA ScriptEntry ==
  ASSUME TalkInv, NEW n \in 1..Len(sent["req"])
  PROVE  /\ n \in DOMAIN script /\ n \in 1..Len(script) /\ script[n] \in Request
         /\ sent["req"][n] = ScriptFrame(script[n]) /\ Utf8(sent["req"][n].topic)
         /\ Encodable(ScriptFrame(script[n]))
         /\ sent["req"][n].correlation_id = script[n].correlation_id
<1>1. /\ Asked /\ script \in Scripts /\ Len(script) \in Nat /\ DOMAIN script = 1..Len(script)
      /\ "req" \in Direction /\ Len(sent["req"]) \in Nat
  BY ZenonT(60), TalkLengths
<1>2. Len(sent["req"]) <= Len(script) /\ sent["req"][n] = ScriptFrame(script[n])
  BY ZenonT(60), <1>1 DEF Asked
<1>3. n \in 1..Len(script)
  BY SMTT(60), <1>1, <1>2
<1>4. script[n] \in Request /\ Utf8(ScriptFrame(script[n]).topic)
  BY ZenonT(60), <1>1, <1>3, ValueAssumption
<1>5. /\ Encodable(ScriptFrame(script[n]))
      /\ ScriptFrame(script[n]).correlation_id = script[n].correlation_id
  BY ZenonT(60), <1>1, <1>3, ScriptAssumption
<1> QED
  BY ZenonT(60), <1>1, <1>2, <1>3, <1>4, <1>5

\* BrokerRefuse: the frame refused is the first request without an answer, and
\* it is outside the limits.
LEMMA BrokerRefuseTalk ==
  ASSUME TalkInv, BrokerRefuse
  PROVE  Conversation' /\ FailureHasCause'
<1> DEFINE n == Len(got["req"])
           f == sent["req"][n + 1]
<1>1. /\ Asked /\ Taken /\ Parsed /\ Answered /\ StreamsOK /\ OneAtATime
      /\ "req" \in Direction /\ n \in Nat /\ Len(sent["req"]) \in Nat /\ Len(script) \in Nat
  BY ZenonT(60), TalkLengths
<1>2. /\ broker = "reading" /\ broker' = "refused" /\ Refused(Buffer("req"))
      /\ UNCHANGED <<script, pipe, sent, got, requests, responses, client>>
  BY ZenonT(60) DEF BrokerRefuse
<1>3. ~Incomplete(Buffer("req"))
  BY ZenonT(60), <1>2 DEF Refused
<1>4. n < Len(sent["req"]) /\ Encodable(f) /\ ~Decodable(f)
  BY ZenonT(60), <1>1, <1>2, <1>3, BufferDecides
<1>5. n + 1 \in 1..Len(sent["req"])
  <2> HIDE DEF n
  <2> QED
    BY SMTT(60), <1>1, <1>4
<1>6. /\ n + 1 \in 1..Len(script) /\ f = ScriptFrame(script[n + 1]) /\ Utf8(f.topic)
  BY ZenonT(60), <1>5, ScriptEntry
<1>7. Len(responses) = n
  BY ZenonT(60), <1>1, <1>2 DEF OneAtATime, Answered
<1>8. n < Len(script)
  <2> HIDE DEF n
  <2> QED
    BY SMTT(60), <1>1, <1>6
<1>9. ~Carried(script[n + 1])
  <2> SUFFICES ASSUME Carried(script[n + 1]) PROVE FALSE
    OBVIOUS
  <2>1. BodyLen(f) <= MaxFrameSize /\ Len(f.topic) \in 1..MaxTopicLen
    BY ZenonT(60), <1>6 DEF Carried
  <2>2. \A t \in 1..MaxTopicLen : t <= MaxTopicLen /\ t # 0
    BY SMTT(60) DEF MaxTopicLen
  <2> QED
    BY ZenonT(60), <1>4, <1>6, <2>1, <2>2 DEF Decodable, Named
<1>10. Asked' /\ Taken' /\ Parsed' /\ Answered'
  BY ZenonT(60), <1>1, <1>2, SameTalk
<1>11. BrokerCause'
  BY ZenonT(60), <1>2, <1>7, <1>8, <1>9 DEF BrokerCause
<1>12. ClientCause'
  BY ZenonT(60), <1>2 DEF ClientCause
<1> QED
  BY Zenon, <1>10, <1>11, <1>12, TalkPartsNext

\* BrokerParse: the request made of the frame taken last is the next one, or
\* from_frame rejects it and the connection is dropped over it.
LEMMA BrokerParseTalk ==
  ASSUME TalkInv, BrokerParse
  PROVE  Conversation' /\ FailureHasCause'
<1> DEFINE m == Len(responses) + 1
           f == Last(got["req"])
           q == RequestOf(f)
<1>1. /\ Asked /\ Taken /\ Parsed /\ Answered /\ BrokerCause /\ ClientCause /\ OneAtATime
      /\ "req" \in Direction /\ Len(sent["req"]) \in Nat /\ Len(got["req"]) \in Nat
      /\ Len(got["req"]) <= Len(sent["req"]) /\ Len(script) \in Nat
      /\ Len(responses) \in Nat /\ Len(requests) \in Nat
      /\ requests \in Seq(Range(requests))
      /\ \A i \in 1..Len(got["req"]) : got["req"][i] = sent["req"][i]
  BY ZenonT(60), TalkLengths
<1>2. /\ broker = "parsing" /\ UNCHANGED <<script, pipe, sent, got, responses, client>>
      /\ IF BadRequest(f) THEN broker' = "refused" /\ requests' = requests
         ELSE broker' = "handling" /\ requests' = Append(requests, q)
  BY ZenonT(60) DEF BrokerParse
<1>3. Len(got["req"]) = m
  BY ZenonT(60), <1>1, <1>2 DEF OneAtATime, Answered
<1>4. f = got["req"][m]
  BY ZenonT(60), <1>3 DEF Last
<1>5. /\ m \in 1..Len(got["req"]) /\ m \in 1..Len(sent["req"])
  BY SMTT(60), <1>1, <1>3
<1>6. /\ f = ScriptFrame(script[m]) /\ m \in 1..Len(script)
  BY ZenonT(60), <1>1, <1>4, <1>5, ScriptEntry
<1>7. CASE BadRequest(f)
  <2>1. broker' = "refused" /\ requests' = requests
    BY ZenonT(60), <1>2, <1>7
  <2>2. Asked' /\ Taken' /\ Parsed' /\ Answered'
    BY ZenonT(60), <1>1, <1>2, <2>1, SameTalk
  <2>3. ~Carried(script[m])
    BY ZenonT(60), <1>6, <1>7 DEF Carried
  <2>4. Len(responses) < Len(script)
    BY SMTT(60), <1>1, <1>6
  <2>5. BrokerCause'
    BY ZenonT(60), <1>2, <2>3, <2>4 DEF BrokerCause
  <2>6. ClientCause'
    BY ZenonT(60), <2>1 DEF ClientCause
  <2> QED
    BY Zenon, <2>2, <2>5, <2>6, TalkPartsNext
<1>8. CASE ~BadRequest(f)
  <2>1. broker' = "handling" /\ requests' = Append(requests, q)
    BY ZenonT(60), <1>2, <1>8
  <2>2. Len(requests) + 1 = m /\ Len(requests) = Len(responses)
    <3>1. Len(requests) = Len(responses) + 0
      BY ZenonT(60), <1>1, <1>2 DEF Parsed
    <3> QED
      BY SMTT(60), <1>1, <3>1
  <2> HIDE DEF q, f
  <2>3. /\ Len(requests') = m /\ requests'[m] = q
        /\ \A i \in 1..Len(requests) : requests'[i] = requests[i]
    <3> DEFINE T == Range(requests) \cup {q}
    <3>1. requests \in Seq(T) /\ q \in T
      BY SMTT(60), <1>1
    <3> HIDE DEF T
    <3>2. /\ Len(Append(requests, q)) = Len(requests) + 1
          /\ Append(requests, q)[Len(requests) + 1] = q
          /\ \A i \in 1..Len(requests) : Append(requests, q)[i] = requests[i]
      BY SMTT(60), <3>1, AppendProperties
    <3> QED
      BY ZenonT(60), <2>1, <2>2, <3>2
  <2>4. Asked' /\ Taken'
    BY ZenonT(60), <1>1, <1>2 DEF Asked, Taken
  <2>5. Parsed'
    <3>1. \A i \in 1..Len(requests) :
            ~BadRequest(got["req"][i]) /\ requests[i] = RequestOf(got["req"][i])
      BY ZenonT(60), <1>1 DEF Parsed
    <3>2. ~BadRequest(got["req"][m]) /\ q = RequestOf(got["req"][m])
      BY ZenonT(60), <1>4, <1>8 DEF q
    <3>3. \A i \in 1..m : i \in 1..Len(requests) \/ i = m
      BY SMTT(60), <1>1, <2>2
    <3>4. \A i \in 1..m :
            ~BadRequest(got["req"][i]) /\ requests'[i] = RequestOf(got["req"][i])
      BY ZenonT(60), <2>3, <3>1, <3>2, <3>3
    <3>5. m <= m
      BY SMTT(60), <1>1
    <3> QED
      BY ZenonT(60), <1>2, <1>3, <2>1, <2>3, <3>4, <3>5 DEF Parsed
  <2>6. Answered'
    <3>1. \A i \in 1..Len(responses) : requests'[i] = requests[i]
      BY ZenonT(60), <2>2, <2>3
    <3> QED
      BY ZenonT(60), <1>1, <1>2, <3>1 DEF Answered
  <2>7. BrokerCause' /\ ClientCause'
    BY ZenonT(60), <1>1, <1>2, <2>1 DEF BrokerCause, ClientCause
  <2> QED
    BY ZenonT(60), <2>4, <2>5, <2>6, <2>7, TalkPartsNext
<1> QED
  BY ZenonT(60), <1>7, <1>8

\* BrokerHangup: the broker leaves a connection whose client is gone.
LEMMA BrokerHangupTalk ==
  ASSUME TalkInv, BrokerHangup
  PROVE  Conversation' /\ FailureHasCause'
<1>1. Asked /\ Taken /\ Parsed /\ Answered /\ BrokerCause /\ ClientCause
  BY ZenonT(60), TalkLengths
<1>2. /\ broker \in {"reading", "flushing"} /\ broker' = "closed"
      /\ UNCHANGED <<script, sent, got, requests, responses, client>>
  BY ZenonT(60) DEF BrokerHangup
<1>3. Asked' /\ Taken' /\ Parsed' /\ Answered'
  BY ZenonT(60), <1>1, <1>2, SameTalk
<1>4. BrokerCause' /\ ClientCause'
  BY ZenonT(60), <1>1, <1>2 DEF BrokerCause, ClientCause
<1> QED
  BY Zenon, <1>3, <1>4, TalkPartsNext

-----------------------------------------------------------------------------
\* What the client reads in a response.

\* The payload reads back as the offset, the records or the error code.
ReadsAs(f, r) ==
  CASE r.type = "Fetch" -> RecordsIn(f.payload) = r.records
    [] r.type = "Error" -> Get16(f.payload, 1) = ErrorCode[r.error_code]
    [] OTHER -> Get64(f.payload, 1) = r.offset

\* get_u16 undoes put_u16 at the front of a payload.
LEMMA CodeUndone ==
  ASSUME NEW c \in 0..7, NEW m \in Seq(Byte)
  PROVE  Get16(U16(c) \o m, 1) = c
<1> DEFINE u == U16(c)
           w == u \o m
<1>0. c \in Nat /\ Lower(c) = c
  BY SMTT(60) DEF Lower
<1>1. u \in Seq(Byte) /\ Len(u) = 2 /\ u[1] = Hi(c) /\ u[2] = Lo(c)
  BY ZenonT(60), <1>0, U16Type
<1> HIDE DEF u
<1>2. Starts(w, u)
  BY ZenonT(60), <1>1, Join
<1>3. 1 \in 1..2 /\ 2 \in 1..2 /\ 1 + 1 = 2 /\ 1 \in Nat
  BY SMTT(60)
<1> HIDE DEF w
<1>4. w[1] = Hi(c) /\ w[1 + 1] = Lo(c)
  BY ZenonT(60), <1>1, <1>2, <1>3 DEF Starts
<1>5. Get16(w, 1) = Lower(c)
  BY ZenonT(60), <1>0, <1>3, <1>4, Get16U16
<1> QED
  BY ZenonT(60), <1>0, <1>5 DEF w, u

\* The codes on the wire are small.
LEMMA CodeForSmall ==
  ASSUME NEW e
  PROVE  ErrorCode[CodeFor(e)] \in 0..7
<1>1. CodeFor(e) \in {"UnknownApiKey", "InvalidFrame", "OffsetNotFound", "PartitionNotFound",
                     "StorageError", "MessageTooLarge", "ServerError"}
  BY ZenonT(60) DEF CodeFor
<1>2. \A c \in {"UnknownApiKey", "InvalidFrame", "OffsetNotFound", "PartitionNotFound",
                "StorageError", "MessageTooLarge", "ServerError"} :
        ErrorCode[c] \in 0..7
  BY SMTT(60) DEF ErrorCode
<1> QED
  BY ZenonT(60), <1>1, <1>2

\* The offset of a produce response.
LEMMA OffsetUndone ==
  ASSUME NEW o \in 0..MaxInt
  PROVE  Get64(U64(o), 1) = o
<1>1. \A n \in 0..MaxInt : n \in Nat /\ n <= MaxInt
  BY SMTT(60)
<1>2. o \in Nat /\ o <= MaxInt
  BY ZenonT(60), <1>1
<1>3. U64(o) \in Seq(Byte) /\ Len(U64(o)) = 8
  BY ZenonT(60), <1>2, U64Type
<1>4. 0 \in Nat /\ 0 + 1 = 1 /\ \A k \in 1..8 : 0 + k = k
  BY SMTT(60)
<1>5. At(U64(o), 0, U64(o))
  BY ZenonT(60), <1>3, <1>4 DEF At
<1>6. Get64(U64(o), 0 + 1) = o
  BY ZenonT(60), <1>2, <1>4, <1>5, AtGet64
<1> QED
  BY ZenonT(60), <1>4, <1>6

Typed(q) == q.type \in {"Produce", "ProduceBatch", "Fetch"}

\* What the frame of a response holds, for each kind of response.
LEMMA ResponseReads ==
  ASSUME NEW q, Typed(q), NEW r \in ResponsesTo(q)
  PROVE  LET f == ResponseFrame(r)
         IN  /\ f.correlation_id = q.correlation_id /\ f.api_key = r.type /\ ReadsAs(f, r)
             /\ f.topic = q.topic \/ (f.topic = <<>> /\ f.api_key = "Error")
<1> DEFINE f == ResponseFrame(r)
<1>1. CASE r \in ErrorsTo(q)
  <2>1. PICK e \in Errors[q.type] :
          r = [type |-> "Error", correlation_id |-> q.correlation_id,
               error_code |-> CodeFor(e), error_message |-> Message]
    BY ZenonT(60), <1>1 DEF ErrorsTo
  <2> DEFINE m == [correlation_id |-> q.correlation_id, topic |-> <<>>, partition |-> 0]
             w == U16(ErrorCode[CodeFor(e)]) \o Message
  <2>2. /\ r.type = "Error" /\ r.correlation_id = q.correlation_id
        /\ r.error_code = CodeFor(e) /\ r.error_message = Message
    BY ZenonT(60), <2>1
  <2>3. ResponseFrame(r) = ErrorFrame(r)
    BY ZenonT(60), <2>2 DEF ResponseFrame
  <2>4. ErrorFrame(r) = FrameFor("Error", m, w)
    BY ZenonT(60), <2>2 DEF ErrorFrame
  <2>5. Message \in Seq(Byte)
    BY ZenonT(60), AnswerAssumption
  <2>6. Get16(w, 1) = ErrorCode[CodeFor(e)]
    BY ZenonT(60), <2>5, CodeForSmall, CodeUndone
  <2>7. m.correlation_id = q.correlation_id /\ m.topic = <<>>
    BY ZenonT(60)
  <2>8. f = FrameFor("Error", m, w)
    BY ZenonT(60), <2>3, <2>4
  <2> HIDE DEF f, m, w
  <2>9. /\ f.api_key = "Error" /\ f.correlation_id = q.correlation_id /\ f.topic = <<>>
        /\ f.payload = w
    BY SMTT(60), <2>7, <2>8, FrameForFields
  <2>10. ReadsAs(f, r)
    BY Zenon, <2>2, <2>6, <2>9 DEF ReadsAs
  <2> QED
    BY ZenonT(60), <2>2, <2>9, <2>10 DEF f
<1>2. CASE q.type = "Fetch" /\ r \in RecordsTo(q)
  <2>1. PICK rs \in Fetched :
          r = [type |-> "Fetch", correlation_id |-> q.correlation_id, topic |-> q.topic,
               partition |-> q.partition, records |-> rs]
    BY ZenonT(60), <1>2 DEF RecordsTo
  <2> DEFINE w == FetchBytes(rs)
  <2>2. /\ r.type = "Fetch" /\ r.correlation_id = q.correlation_id /\ r.topic = q.topic
        /\ r.records = rs
    BY ZenonT(60), <2>1
  <2>3. f = FrameFor("Fetch", r, w)
    BY Zenon, <2>2 DEF ResponseFrame, FetchedFrame
  <2>4. rs \in Seq(StoredRecord) /\ w \in Seq(Byte) /\ Len(w) <= MaxPayload
    BY ZenonT(60), AnswerAssumption, ValueAssumption
  <2>5. Len(w) <= MaxInt
    <3>1. \A n \in Nat : n <= MaxPayload => n <= MaxInt
      BY SMTT(60) DEF MaxPayload, MaxInt, MinHeaderSize, MaxTopicLen
    <3>2. Len(w) \in Nat
      BY ZenonT(60), <2>4, LenProperties
    <3> QED
      BY ZenonT(60), <2>4, <3>1, <3>2
  <2>6. RecordsIn(w) = rs
    BY ZenonT(60), <2>4, <2>5, RecordsUndone
  <2> HIDE DEF f, w
  <2>7. /\ f.api_key = "Fetch" /\ f.correlation_id = q.correlation_id /\ f.topic = q.topic
        /\ f.payload = w
    BY SMTT(60), <2>2, <2>3, FrameForFields
  <2>8. ReadsAs(f, r)
    BY SMTT(60), <2>2, <2>6, <2>7 DEF ReadsAs
  <2> QED
    BY ZenonT(60), <2>2, <2>7, <2>8 DEF f
<1>3. CASE q.type # "Fetch" /\ r \in OffsetsTo(q)
  <2>1. PICK o \in Offsets :
          r = [type |-> q.type, correlation_id |-> q.correlation_id, topic |-> q.topic,
               partition |-> q.partition, offset |-> o]
    BY ZenonT(60), <1>3 DEF OffsetsTo
  <2> DEFINE w == U64(o)
  <2>2. /\ r.type = q.type /\ r.correlation_id = q.correlation_id /\ r.topic = q.topic
        /\ r.offset = o
    BY ZenonT(60), <2>1
  <2>3. q.type \in {"Produce", "ProduceBatch"}
    BY ZenonT(60), <1>3 DEF Typed
  <2>4. f = FrameFor(q.type, r, w)
    BY SMTT(60), <2>2, <2>3 DEF ResponseFrame, OffsetFrame
  <2>5. o \in 0..MaxInt
    BY ZenonT(60), ValueAssumption
  <2>6. Get64(w, 1) = o
    BY ZenonT(60), <2>5, OffsetUndone
  <2> HIDE DEF f, w
  <2>7. /\ f.api_key = q.type /\ f.correlation_id = q.correlation_id /\ f.topic = q.topic
        /\ f.payload = w
    BY SMTT(60), <2>2, <2>4, FrameForFields
  <2>8. ReadsAs(f, r)
    BY SMTT(60), <2>2, <2>3, <2>6, <2>7 DEF ReadsAs
  <2> QED
    BY ZenonT(60), <2>2, <2>7, <2>8 DEF f
<1> QED
  BY ZenonT(60), <1>1, <1>2, <1>3 DEF ResponsesTo

\* The header of the i-th typed request is that of the i-th frame taken, whose
\* topic is not empty.
LEMMA RequestsHeaders ==
  ASSUME TalkInv, NEW i \in 1..Len(requests)
  PROVE  /\ i \in 1..Len(got["req"]) /\ i \in 1..Len(sent["req"])
         /\ requests[i] = RequestOf(sent["req"][i]) /\ ~BadRequest(sent["req"][i])
         /\ requests[i].type \in {"Produce", "ProduceBatch", "Fetch"}
         /\ requests[i].correlation_id = sent["req"][i].correlation_id
         /\ requests[i].topic = sent["req"][i].topic
         /\ Named(sent["req"][i]) /\ Len(sent["req"][i].topic) # 0
<1>1. /\ Taken /\ Parsed /\ "req" \in Direction
      /\ Len(requests) \in Nat /\ Len(got["req"]) \in Nat /\ Len(sent["req"]) \in Nat
      /\ Len(got["req"]) <= Len(sent["req"]) /\ sent["req"] \in Seq(Frame)
      /\ \A k \in 1..Len(got["req"]) : got["req"][k] = sent["req"][k]
  BY ZenonT(60), TalkLengths
<1>2. /\ Len(requests) <= Len(got["req"])
      /\ ~BadRequest(got["req"][i]) /\ requests[i] = RequestOf(got["req"][i])
  BY ZenonT(60), <1>1 DEF Parsed
<1>3. i \in 1..Len(got["req"]) /\ i \in 1..Len(sent["req"])
  BY SMTT(60), <1>1, <1>2
<1> DEFINE f == sent["req"][i]
<1>4. f = got["req"][i]
  BY ZenonT(60), <1>1, <1>3
<1>5. f \in Frame
  BY ZenonT(60), <1>1, <1>3, ElementOfSeq
<1>6. Named(f)
  BY ZenonT(60), <1>1, <1>3, <1>4 DEF Taken, Decodable
<1> HIDE DEF f
<1>7. ~BadRequest(f) /\ requests[i] = RequestOf(f)
  BY ZenonT(60), <1>2, <1>4
<1>8. /\ requests[i].type \in {"Produce", "ProduceBatch", "Fetch"}
      /\ requests[i].correlation_id = f.correlation_id /\ requests[i].topic = f.topic
  BY ZenonT(60), <1>5, <1>7, RequestHeader
<1>9. Len(f.topic) # 0
  BY ZenonT(60), <1>6, <1>7 DEF Named, BadRequest
<1> QED
  BY ZenonT(60), <1>3, <1>6, <1>7, <1>8, <1>9 DEF f

\* BrokerRespond: the response made is one to the request taken last, and its
\* topic is that request's or, of an error, empty.
LEMMA BrokerRespondTalk ==
  ASSUME TalkInv, BrokerRespond
  PROVE  Conversation' /\ FailureHasCause'
<1> DEFINE n == Len(responses)
           m == n + 1
           q == requests[m]
<1>1. /\ Asked /\ Taken /\ Parsed /\ Answered /\ BrokerCause /\ ClientCause /\ StreamsOK
      /\ OneAtATime /\ "req" \in Direction /\ "rep" \in Direction /\ n \in Nat
      /\ Len(requests) \in Nat /\ Len(got["rep"]) \in Nat /\ Len(sent["rep"]) \in Nat
      /\ sent["rep"] \in Seq(Frame) /\ sent \in [Direction -> Seq(Frame)]
  BY ZenonT(60), TalkLengths DEF StreamsOK
<1>2. /\ broker = "handling" /\ broker' = "flushing"
      /\ UNCHANGED <<script, got, requests, client>>
  BY ZenonT(60) DEF BrokerRespond
<1>3. PICK r \in ResponsesTo(Last(requests)) :
        StartSend("rep", ResponseFrame(r)) /\ responses' = Append(responses, r)
  BY ZenonT(60) DEF BrokerRespond
<1>4. Len(requests) = m /\ Len(sent["rep"]) = n /\ responses \in Seq(Range(responses))
  BY ZenonT(60), <1>1, <1>2 DEF Parsed, Answered
<1>5. r \in ResponsesTo(q)
  BY ZenonT(60), <1>3, <1>4 DEF Last
<1>6. m \in 1..Len(requests) /\ m <= m /\ m + 0 = m /\ \A i \in 1..m : i \in 1..n \/ i = m
  BY SMTT(60), <1>1, <1>4
<1> DEFINE x == sent["req"][m]
           g == ResponseFrame(r)
<1>7. /\ q.type \in {"Produce", "ProduceBatch", "Fetch"} /\ q.topic = x.topic
      /\ Named(x) /\ Len(x.topic) # 0
  BY ZenonT(60), <1>6, RequestsHeaders
<1>8. g.topic = q.topic \/ (g.topic = <<>> /\ g.api_key = "Error")
  <2>1. r \in ResponsesTo(q) /\ Typed(q)
    BY ZenonT(60), <1>5, <1>7 DEF Typed
  <2> HIDE DEF q
  <2>2. /\ g.correlation_id = q.correlation_id /\ g.api_key = r.type /\ ReadsAs(g, r)
        /\ g.topic = q.topic \/ (g.topic = <<>> /\ g.api_key = "Error")
    BY ZenonT(60), <2>1, ResponseReads
  <2> QED
    BY ZenonT(60), <2>2
<1>9. Named(g)
  <2>1. CASE g.topic = q.topic
    BY ZenonT(60), <1>7, <2>1 DEF Named
  <2>2. CASE g.topic = <<>> /\ g.api_key = "Error"
    <3>1. Len(<<>>) <= MaxTopicLen
      BY SMTT(60) DEF MaxTopicLen
    <3>2. Utf8(<<>>)
      BY SMTT(60) DEF Utf8
    <3> QED
      BY ZenonT(60), <2>2, <3>1, <3>2 DEF Named
  <2> QED
    BY ZenonT(60), <1>8, <2>1, <2>2
<1>10. sent' = [sent EXCEPT !["rep"] = Append(@, g)]
  BY ZenonT(60), <1>3 DEF StartSend
<1>11. sent'["req"] = sent["req"] /\ sent'["rep"] = Append(sent["rep"], g)
  <2> HIDE DEF g
  <2> QED
    BY ZenonT(60), <1>1, <1>10
<1>12. g \in Frame
  <2>1. sent' \in [Direction -> Seq(Frame)]
    BY ZenonT(60), BrokerRespondInv, InvStreams DEF TalkInv, WireInv, TypeOK
  <2>2. Append(sent["rep"], g) \in Seq(Frame)
    BY ZenonT(60), <1>1, <1>11, <2>1
  <2> HIDE DEF g
  <2> QED
    BY SMTT(60), <1>1, <2>2
<1> HIDE DEF g, q, x
<1>13. /\ Len(sent'["rep"]) = m /\ sent'["rep"][m] = g
       /\ \A i \in 1..n : sent'["rep"][i] = sent["rep"][i]
  <2>1. /\ Len(Append(sent["rep"], g)) = Len(sent["rep"]) + 1
        /\ Append(sent["rep"], g)[Len(sent["rep"]) + 1] = g
        /\ \A i \in 1..Len(sent["rep"]) : Append(sent["rep"], g)[i] = sent["rep"][i]
    BY SMTT(60), <1>1, <1>12, AppendProperties
  <2> QED
    BY ZenonT(60), <1>4, <1>11, <2>1
<1>14. /\ Len(responses') = m /\ responses'[m] = r
       /\ \A i \in 1..n : responses'[i] = responses[i]
       /\ responses' \in Seq(Range(responses'))
  <2> DEFINE T == Range(responses) \cup {r}
  <2>1. responses \in Seq(T) /\ r \in T
    BY SMTT(60), <1>4
  <2> HIDE DEF T
  <2>2. /\ Len(Append(responses, r)) = Len(responses) + 1
        /\ Append(responses, r)[Len(responses) + 1] = r
        /\ \A i \in 1..Len(responses) : Append(responses, r)[i] = responses[i]
    BY SMTT(60), <2>1, AppendProperties
  <2>3. Append(responses, r) \in Seq(Range(Append(responses, r)))
    BY ZenonT(60), <1>4, AppendRange
  <2> QED
    BY ZenonT(60), <1>3, <2>2, <2>3
<1>15. Asked' /\ Taken'
  BY ZenonT(60), <1>1, <1>2, <1>11 DEF Asked, Taken
<1>16. Parsed'
  BY ZenonT(60), <1>1, <1>2, <1>4, <1>6, <1>14 DEF Parsed
<1>17. Answered'
  <2>1. \A i \in 1..n : /\ responses[i] \in ResponsesTo(requests[i])
                        /\ sent["rep"][i] = ResponseFrame(responses[i]) /\ Named(sent["rep"][i])
    BY ZenonT(60), <1>1 DEF Answered
  <2>2. r \in ResponsesTo(requests[m]) /\ g = ResponseFrame(r)
    BY ZenonT(60), <1>5 DEF q, g
  <2>3. \A i \in 1..m : /\ responses'[i] \in ResponsesTo(requests'[i])
                        /\ sent'["rep"][i] = ResponseFrame(responses'[i])
                        /\ Named(sent'["rep"][i])
    BY ZenonT(60), <1>2, <1>6, <1>9, <1>13, <1>14, <2>1, <2>2
  <2> QED
    BY ZenonT(60), <1>13, <1>14, <2>3 DEF Answered
<1>18. BrokerCause'
  BY ZenonT(60), <1>2 DEF BrokerCause
<1>19. ClientCause'
  <2> SUFFICES ASSUME client = "failed"
               PROVE  /\ Len(got["rep"]) < Len(sent'["rep"])
                      /\ BodyLen(sent'["rep"][Len(got["rep"]) + 1]) > MaxFrameSize
    BY ZenonT(60), <1>2 DEF ClientCause
  <2>1. /\ Len(got["rep"]) < n
        /\ BodyLen(sent["rep"][Len(got["rep"]) + 1]) > MaxFrameSize
    BY ZenonT(60), <1>1, <1>2, <1>4 DEF ClientCause
  <2>2. Len(got["rep"]) + 1 \in 1..n /\ Len(got["rep"]) < m
    BY SMTT(60), <1>1, <2>1
  <2> QED
    BY ZenonT(60), <1>13, <2>1, <2>2
<1> QED
  BY ZenonT(60), <1>15, <1>16, <1>17, <1>18, <1>19, TalkPartsNext

-----------------------------------------------------------------------------
\* The results.

\* Every step preserves the conversation: one case per action of Wire.
LEMMA NextTalk == TalkInv /\ [Next]_vars => TalkInv'
<1> SUFFICES ASSUME TalkInv, [Next]_vars PROVE TalkInv'
  OBVIOUS
<1>1. WireInv'
  BY ZenonT(60), NextWireInv DEF TalkInv
<1>2. CASE ClientSend
  BY ZenonT(60), <1>1, <1>2, ClientSendTalk DEF TalkInv
<1>3. CASE ClientWrite \/ ClientRead \/ BrokerRead \/ BrokerWrite
  BY ZenonT(60), <1>1, <1>3, ByteStepTalk DEF TalkInv
<1>4. CASE ClientReply
  BY Zenon, <1>1, <1>4, ClientReplyTalk DEF TalkInv
<1>5. CASE ClientRefuse
  BY Zenon, <1>1, <1>5, ClientRefuseTalk DEF TalkInv
<1>6. CASE ClientLost \/ ClientDone \/ ClientQuit
  BY ZenonT(60), <1>1, <1>6, ClientStopTalk DEF TalkInv
<1>7. CASE BrokerTake
  BY Zenon, <1>1, <1>7, BrokerTakeTalk DEF TalkInv
<1>8. CASE BrokerRefuse
  BY Zenon, <1>1, <1>8, BrokerRefuseTalk DEF TalkInv
<1>9. CASE BrokerParse
  BY Zenon, <1>1, <1>9, BrokerParseTalk DEF TalkInv
<1>10. CASE BrokerRespond
  BY Zenon, <1>1, <1>10, BrokerRespondTalk DEF TalkInv
<1>11. CASE BrokerHangup
  BY Zenon, <1>1, <1>11, BrokerHangupTalk DEF TalkInv
<1>12. CASE UNCHANGED vars
  <2>1. UNCHANGED <<script, sent, got, requests, responses, client, broker>>
    BY ZenonT(60), <1>12 DEF vars
  <2>2. Asked /\ Taken /\ Parsed /\ Answered /\ BrokerCause /\ ClientCause
    BY ZenonT(60), TalkLengths
  <2>3. Asked' /\ Taken' /\ Parsed' /\ Answered'
    BY ZenonT(60), <2>1, <2>2, SameTalk
  <2>4. BrokerCause' /\ ClientCause'
    BY ZenonT(60), <2>1, <2>2, SameCause
  <2> QED
    BY ZenonT(60), <1>1, <2>3, <2>4, TalkPartsNext DEF TalkInv
<1> QED
  BY ZenonT(60), <1>2, <1>3, <1>4, <1>5, <1>6, <1>7, <1>8, <1>9, <1>10, <1>11, <1>12
     DEF Next, ClientStep, BrokerStep

\* In every reachable state of a connection the three hold together.
THEOREM TalkInvariance == Spec => []TalkInv
<1>1. Init => TalkInv
  BY ZenonT(60), InitWireInv, InitTalk DEF TalkInv
<1>2. TalkInv /\ [Next]_vars => TalkInv'
  BY SMTT(60), NextTalk
<1> QED
  BY <1>1, <1>2, PTL DEF Spec

\* The frames on the wire are the script's requests and the broker's responses,
\* each to its own request, for every script, fragmentation and frame size limit.
THEOREM ConversationInvariance == Spec => []Conversation
<1>1. TalkInv => Conversation
  BY ZenonT(60) DEF TalkInv
<1> QED
  BY <1>1, TalkInvariance, PTL

\* A request reaches the handler as the client built it: Request::from_frame
\* undoes into_frame through the byte stream.
THEOREM RequestsArriveIntact == Spec => []RequestsIntact
<1>1. TalkInv => RequestsIntact
  <2> SUFFICES ASSUME TalkInv PROVE RequestsIntact
    OBVIOUS
  <2>1. /\ Asked /\ Parsed /\ Len(script) \in Nat /\ Len(requests) \in Nat
        /\ requests \in Seq(Range(requests))
        /\ "req" \in Direction /\ Len(sent["req"]) \in Nat /\ Len(got["req"]) \in Nat
        /\ Len(got["req"]) <= Len(sent["req"])
    BY ZenonT(60), TalkLengths
  <2>2. Len(sent["req"]) <= Len(script) /\ Len(requests) <= Len(got["req"])
    BY ZenonT(60), <2>1 DEF Asked, Parsed
  <2>3. Len(requests) <= Len(script)
    BY SMTT(60), <2>1, <2>2
  <2>4. DOMAIN requests = 1..Len(requests)
    BY ZenonT(60), <2>1, LenProperties
  <2>5. ASSUME NEW i \in 1..Len(requests) PROVE requests[i] = Meant(script[i])
    <3>1. i \in 1..Len(sent["req"]) /\ requests[i] = RequestOf(sent["req"][i])
      BY ZenonT(60), RequestsHeaders
    <3>2. /\ script[i] \in Request /\ sent["req"][i] = ScriptFrame(script[i])
          /\ Encodable(ScriptFrame(script[i]))
      BY ZenonT(60), <3>1, ScriptEntry
    <3>3. CASE script[i].type = "Frame"
      BY ZenonT(60), <3>1, <3>2, <3>3 DEF Meant, ScriptFrame
    <3>4. CASE script[i].type # "Frame"
      <4>1. RequestOf(ScriptFrame(script[i])) = script[i]
        BY ZenonT(60), <3>2, <3>4, ParseUndoesIntoFrame
      <4> QED
        BY ZenonT(60), <3>1, <3>2, <3>4, <4>1 DEF Meant
    <3> QED
      BY ZenonT(60), <3>3, <3>4
  <2> QED
    BY ZenonT(60), <2>3, <2>4, <2>5 DEF RequestsIntact
<1> QED
  BY <1>1, TalkInvariance, PTL

\* The i-th reply the client decodes answers its i-th request, and its payload
\* reads back as the offset, the records or the error code the broker answered.
THEOREM RepliesArriveIntact == Spec => []RepliesIntact
<1>1. TalkInv => RepliesIntact
  <2> SUFFICES ASSUME TalkInv PROVE RepliesIntact
    OBVIOUS
  <2>1. /\ Parsed /\ Answered /\ Len(requests) \in Nat /\ Len(responses) \in Nat
        /\ "rep" \in Direction /\ Len(sent["rep"]) \in Nat /\ Len(got["rep"]) \in Nat
        /\ Len(got["rep"]) <= Len(sent["rep"]) /\ got["rep"] \in Seq(Frame)
        /\ \A i \in 1..Len(got["rep"]) : got["rep"][i] = sent["rep"][i]
    BY ZenonT(60), TalkLengths
  <2>2. Len(sent["rep"]) = Len(responses)
    BY ZenonT(60), <2>1 DEF Answered
  <2>3. Len(responses) <= Len(requests)
    <3>1. \/ Len(requests) = Len(responses) + 1
          \/ Len(requests) = Len(responses) + 0
      BY ZenonT(60), <2>1 DEF Parsed
    <3> QED
      BY SMTT(60), <2>1, <3>1
  <2>4. DOMAIN got["rep"] = 1..Len(got["rep"])
    BY ZenonT(60), <2>1, LenProperties
  <2>5. ASSUME NEW i \in 1..Len(got["rep"])
        PROVE  LET f == got["rep"][i]
                   r == responses[i]
               IN  /\ f.correlation_id = script[i].correlation_id
                   /\ f.api_key = r.type /\ ReadsAs(f, r)
    <3> DEFINE r == responses[i]
               q == requests[i]
               f == got["rep"][i]
    <3>1. i \in 1..Len(responses) /\ i \in 1..Len(requests)
      BY SMTT(60), <2>1, <2>2, <2>3
    <3>2. r \in ResponsesTo(q) /\ f = ResponseFrame(r)
      BY ZenonT(60), <2>1, <3>1 DEF Answered
    <3>3. /\ i \in 1..Len(sent["req"]) /\ Typed(q)
          /\ q.correlation_id = sent["req"][i].correlation_id
      BY ZenonT(60), <3>1, RequestsHeaders DEF Typed
    <3>4. sent["req"][i].correlation_id = script[i].correlation_id
      BY ZenonT(60), <3>3, ScriptEntry
    <3> HIDE DEF r, q, f
    <3>5. f.correlation_id = q.correlation_id /\ f.api_key = r.type /\ ReadsAs(f, r)
      BY ZenonT(60), <3>2, <3>3, ResponseReads
    <3> QED
      BY ZenonT(60), <3>3, <3>4, <3>5 DEF f, r
  <2> QED
    BY ZenonT(60), <2>4, <2>5 DEF RepliesIntact, ReadsAs
<1> QED
  BY <1>1, TalkInvariance, PTL

\* A connection is dropped only for cause: over a request outside the limits of
\* Frame::decode and Request::from_frame, or a reply too large for the client.
THEOREM FailuresHaveCause == Spec => []FailureHasCause
<1>1. TalkInv => FailureHasCause
  BY Zenon DEF TalkInv
<1> QED
  BY <1>1, TalkInvariance, PTL
=============================================================================
