----------------------------- MODULE CodecProofs -----------------------------
(***************************************************************************)
(* Proofs about the wire format, for frames, batches and records of any     *)
(* content and length that fit their length fields: Frame::decode undoes    *)
(* Frame::encode, Request::from_frame undoes into_frame, and a reader of a  *)
(* fetch payload finds the records that were written to it.                 *)
(***************************************************************************)
EXTENDS Wire, SequenceTheorems, WellFoundedInduction, TLAPS

\* The two bytes of a u16, and the two halves of a u32.
Hi(n) == (n \div 256) % 256

Lo(n) == n % 256

Upper(n) == n \div 65536

Lower(n) == n % 65536

\* Bytes and halves are numbers again.
LEMMA HalfTypes ==
  ASSUME NEW n \in Nat
  PROVE  Hi(n) \in Byte /\ Lo(n) \in Byte /\ Upper(n) \in Nat /\ Lower(n) \in Nat
  BY SMT DEF Hi, Lo, Upper, Lower, Byte

\* The two bytes of put_u16 read back as the number modulo 2^16.
LEMMA HiLo ==
  ASSUME NEW n \in Nat
  PROVE  Hi(n) * 256 + Lo(n) = Lower(n)
  BY SMT DEF Hi, Lo, Lower

\* A number below 2^16 is its lower half.
LEMMA LowerSmall ==
  ASSUME NEW n \in Nat, n < 65536
  PROVE  Lower(n) = n
  BY SMT DEF Lower

\* The two halves of a number below 2^31.
LEMMA Halves ==
  ASSUME NEW n \in Nat, n <= MaxInt
  PROVE  Upper(n) < 65536 /\ Upper(n) * 65536 + Lower(n) = n
  BY SMT DEF Upper, Lower, MaxInt

\* put_u16 writes two bytes, whatever the number.
LEMMA U16Type ==
  ASSUME NEW n \in Nat
  PROVE  /\ U16(n) \in Seq(Byte) /\ Len(U16(n)) = 2
         /\ U16(n)[1] = Hi(n) /\ U16(n)[2] = Lo(n)
<1>1. U16(n) = <<Hi(n), Lo(n)>>
  BY Zenon DEF U16, Hi, Lo
<1>2. Hi(n) \in Byte /\ Lo(n) \in Byte
  BY Zenon, HalfTypes
<1> QED
  BY SMT, <1>1, <1>2

\* put_u32 writes four bytes.
LEMMA U32Type ==
  ASSUME NEW n \in Nat
  PROVE  /\ U32(n) \in Seq(Byte) /\ Len(U32(n)) = 4
         /\ U32(n)[1] = Hi(Upper(n)) /\ U32(n)[2] = Lo(Upper(n))
         /\ U32(n)[3] = Hi(n) /\ U32(n)[4] = Lo(n)
<1> DEFINE u == Upper(n)
           a == U16(u)
           b == U16(n)
<1>1. u \in Nat
  BY Zenon, HalfTypes
<1> HIDE DEF u
<1>2. a \in Seq(Byte) /\ Len(a) = 2 /\ a[1] = Hi(u) /\ a[2] = Lo(u)
  BY Zenon, <1>1, U16Type
<1>3. b \in Seq(Byte) /\ Len(b) = 2 /\ b[1] = Hi(n) /\ b[2] = Lo(n)
  BY Zenon, U16Type
<1>4. U32(n) = a \o b
  BY SMT DEF U32, u, Upper
<1> HIDE DEF a, b
<1>5. /\ a \o b \in Seq(Byte) /\ Len(a \o b) = 4
      /\ (a \o b)[1] = a[1] /\ (a \o b)[2] = a[2]
      /\ (a \o b)[3] = b[1] /\ (a \o b)[4] = b[2]
  <2>1. /\ a \o b \in Seq(Byte)
        /\ Len(a \o b) = Len(a) + Len(b)
        /\ \A i \in 1 .. Len(a) + Len(b) :
             (a \o b)[i] = IF i <= Len(a) THEN a[i] ELSE b[i - Len(a)]
    BY Zenon, <1>2, <1>3, ConcatProperties
  <2> QED
    BY SMT, <1>2, <1>3, <2>1
<1> QED
  BY Zenon, <1>2, <1>3, <1>4, <1>5 DEF u

\* get_u16 undoes put_u16.
LEMMA Get16U16 ==
  ASSUME NEW n \in Nat, NEW s, NEW at \in Nat,
         s[at] = Hi(n), s[at + 1] = Lo(n)
  PROVE  Get16(s, at) = Lower(n)
<1>1. Get16(s, at) = Hi(n) * 256 + Lo(n)
  BY SMT DEF Get16
<1> QED
  BY SMT, <1>1, HiLo

\* get_u32 undoes put_u32.
LEMMA Get32U32 ==
  ASSUME NEW n \in Nat, n <= MaxInt, NEW s, NEW at \in Nat,
         s[at] = U32(n)[1], s[at + 1] = U32(n)[2],
         s[at + 2] = U32(n)[3], s[at + 3] = U32(n)[4]
  PROVE  Get32(s, at) = n
<1>1. Upper(n) \in Nat /\ at + 2 \in Nat /\ (at + 2) + 1 = at + 3
  BY SMT, HalfTypes
<1>2. /\ s[at] = Hi(Upper(n)) /\ s[at + 1] = Lo(Upper(n))
      /\ s[at + 2] = Hi(n) /\ s[(at + 2) + 1] = Lo(n)
  BY SMTT(60), <1>1, U32Type
<1>3. Get16(s, at) = Lower(Upper(n))
  BY <1>1, <1>2, Get16U16
<1>4. Get16(s, at + 2) = Lower(n)
  BY <1>1, <1>2, Get16U16
<1>5. Lower(Upper(n)) = Upper(n)
  BY SMT, <1>1, LowerSmall, Halves
<1> QED
  BY SMT, <1>3, <1>4, <1>5, Halves DEF Get32

-----------------------------------------------------------------------------
\* Frame::decode undoes Frame::encode.

\* Bytes s sit in e behind its first p bytes.
At(e, p, s) == \A k \in 1..Len(s) : e[p + k] = s[k]

\* e begins with a.
Starts(e, a) == Len(a) <= Len(e) /\ \A k \in 1..Len(a) : e[k] = a[k]

\* What putting s behind a makes.
LEMMA Join ==
  ASSUME NEW a \in Seq(Byte), NEW s \in Seq(Byte)
  PROVE  /\ a \o s \in Seq(Byte) /\ Len(a \o s) = Len(a) + Len(s)
         /\ Starts(a \o s, a) /\ At(a \o s, Len(a), s)
<1>1. /\ a \o s \in Seq(Byte) /\ Len(a \o s) = Len(a) + Len(s)
      /\ \A i \in 1 .. Len(a) + Len(s) :
           (a \o s)[i] = IF i <= Len(a) THEN a[i] ELSE s[i - Len(a)]
  BY Zenon, ConcatProperties
<1>2. Len(a) \in Nat /\ Len(s) \in Nat
  OBVIOUS
<1> DEFINE j == a \o s
<1> HIDE DEF j
<1>3. Starts(j, a)
  BY SMT, <1>1, <1>2 DEF Starts, j
<1>4. At(j, Len(a), s)
  <2> SUFFICES ASSUME NEW k \in 1..Len(s) PROVE j[Len(a) + k] = s[k]
    BY DEF At
  <2>1. Len(a) + k \in 1 .. Len(a) + Len(s) /\ ~(Len(a) + k <= Len(a))
        /\ (Len(a) + k) - Len(a) = k
    BY SMT, <1>2
  <2> QED
    BY <1>1, <2>1 DEF j
<1> QED
  BY <1>1, <1>3, <1>4 DEF j

\* Beginnings of beginnings are beginnings.
LEMMA StartsTrans ==
  ASSUME NEW a \in Seq(Byte), NEW b \in Seq(Byte), NEW c \in Seq(Byte),
         Starts(b, a), Starts(c, b)
  PROVE  Starts(c, a)
<1>1. Len(a) \in Nat /\ Len(b) \in Nat /\ Len(c) \in Nat
  OBVIOUS
<1> QED
  BY SMT, <1>1 DEF Starts

\* What sits in a beginning sits in the whole.
LEMMA StartsAt ==
  ASSUME NEW a \in Seq(Byte), NEW c \in Seq(Byte), NEW s \in Seq(Byte), NEW p \in Nat,
         Starts(c, a), At(a, p, s), p + Len(s) <= Len(a)
  PROVE  At(c, p, s)
<1>1. Len(a) \in Nat /\ Len(s) \in Nat
  OBVIOUS
<1> SUFFICES ASSUME NEW k \in 1..Len(s) PROVE c[p + k] = s[k]
  BY DEF At
<1>2. p + k \in 1..Len(a)
  BY SMT, <1>1
<1> QED
  BY <1>2 DEF At, Starts

\* The next part of an encoding: the beginning grows by s, and s sits behind it.
LEMMA JoinAt ==
  ASSUME NEW a \in Seq(Byte), NEW s \in Seq(Byte), NEW e \in Seq(Byte), Starts(e, a \o s)
  PROVE  Starts(e, a) /\ At(e, Len(a), s)
<1>1. /\ a \o s \in Seq(Byte) /\ Len(a \o s) = Len(a) + Len(s)
      /\ Starts(a \o s, a) /\ At(a \o s, Len(a), s)
  BY Join
<1>2. Len(a) \in Nat /\ Len(a) + Len(s) <= Len(a \o s)
  BY SMT, <1>1
<1>3. Starts(e, a)
  BY Zenon, <1>1, StartsTrans
<1> QED
  BY Zenon, <1>1, <1>2, <1>3, StartsAt

\* Where Frame::encode puts the fields of a frame.
Layout(e, f) ==
  LET t == Len(f.topic)
  IN  /\ e \in Seq(Byte) /\ Len(e) = 4 + BodyLen(f)
      /\ At(e, 0, U32(BodyLen(f))) /\ At(e, 4, <<f.magic>>)
      /\ At(e, 5, U16(ApiKey[f.api_key])) /\ At(e, 7, U32(f.correlation_id))
      /\ At(e, 11, U16(t)) /\ At(e, 13, f.topic) /\ At(e, 13 + t, U32(f.partition))
      /\ At(e, 17 + t, U32(Len(f.payload))) /\ At(e, 21 + t, f.payload)

\* The wire values of the api keys, and the key a value stands for.
LEMMA ApiKeys ==
  ASSUME NEW k \in DOMAIN ApiKey
  PROVE  ApiKey[k] \in Nat /\ ApiKey[k] < 65536 /\ ApiKeyOf(ApiKey[k]) = k
<1>1. DOMAIN ApiKey = {"Produce", "Fetch", "ProduceBatch", "Error"}
  BY DEF ApiKey
<1>2. /\ ApiKey["Produce"] = 1 /\ ApiKey["Fetch"] = 2
      /\ ApiKey["ProduceBatch"] = 3 /\ ApiKey["Error"] = 4
  BY DEF ApiKey
<1>3. ApiKey[k] \in Nat /\ ApiKey[k] < 65536
  BY SMT, <1>1, <1>2
<1>4. \A j \in DOMAIN ApiKey : ApiKey[j] = ApiKey[k] => j = k
  BY SMT, <1>1, <1>2
<1>5. ApiKeyOf(ApiKey[k]) = k
  BY Zenon, <1>4 DEF ApiKeyOf
<1> QED
  BY SMT, <1>3, <1>5

\* total_len counts 17 bytes of header, the topic and the payload.
LEMMA BodyLenSum ==
  ASSUME NEW f, Len(f.topic) \in Nat, Len(f.payload) \in Nat
  PROVE  BodyLen(f) = 17 + Len(f.topic) + Len(f.payload) /\ BodyLen(f) \in Nat
<1>1. \A x, y \in Nat : /\ 1 + 2 + 4 + 2 + x + 4 + 4 + y = 17 + x + y
                        /\ 17 + x + y \in Nat
  BY SMT
<1> QED
  BY Zenon, <1>1 DEF BodyLen

\* Frame::encode lays a frame out so.
LEMMA EncodeLayout ==
  ASSUME NEW f, Encodable(f)
  PROVE  Layout(Encode(f), f)
<1> DEFINE n == BodyLen(f)
           t == Len(f.topic)
           s1 == U32(n)
           s2 == <<f.magic>>
           s3 == U16(ApiKey[f.api_key])
           s4 == U32(f.correlation_id)
           s5 == U16(t)
           s6 == f.topic
           s7 == U32(f.partition)
           s8 == U32(Len(f.payload))
           s9 == f.payload
           a2 == s1 \o s2
           a3 == a2 \o s3
           a4 == a3 \o s4
           a5 == a4 \o s5
           a6 == a5 \o s6
           a7 == a6 \o s7
           a8 == a7 \o s8
           a9 == a8 \o s9
<1>1. /\ f.topic \in Seq(Byte) /\ f.payload \in Seq(Byte) /\ f.api_key \in DOMAIN ApiKey
      /\ f.correlation_id \in Nat /\ f.partition \in Nat /\ f.magic = MagicByte
  BY DEF Encodable, Frame
<1>2. t \in Nat /\ Len(f.payload) \in Nat
  BY <1>1
<1>3. n = 17 + t + Len(f.payload) /\ n \in Nat
  BY Zenon, <1>2, BodyLenSum
<1>4. ApiKey[f.api_key] \in Nat
  BY <1>1, ApiKeys
<1>5. s2 \in Seq(Byte) /\ Len(s2) = 1
  BY SMT, <1>1 DEF MagicByte, Byte
<1>6. /\ s1 \in Seq(Byte) /\ s3 \in Seq(Byte) /\ s4 \in Seq(Byte) /\ s5 \in Seq(Byte)
      /\ s7 \in Seq(Byte) /\ s8 \in Seq(Byte)
      /\ Len(s1) = 4 /\ Len(s3) = 2 /\ Len(s4) = 4 /\ Len(s5) = 2 /\ Len(s7) = 4 /\ Len(s8) = 4
  BY ZenonT(60), <1>1, <1>2, <1>3, <1>4, U16Type, U32Type
<1>7. s6 \in Seq(Byte) /\ s9 \in Seq(Byte) /\ Len(s6) = t
  BY <1>1
<1>8. Encode(f) = a9
  BY Zenon DEF Encode
<1> HIDE DEF s1, s2, s3, s4, s5, s6, s7, s8, s9
<1>9. a2 \in Seq(Byte) /\ Len(a2) = Len(s1) + Len(s2)
  BY Zenon, <1>5, <1>6, Join
<1> HIDE DEF a2
<1>10. a3 \in Seq(Byte) /\ Len(a3) = Len(a2) + Len(s3)
  BY Zenon, <1>6, <1>9, Join
<1> HIDE DEF a3
<1>11. a4 \in Seq(Byte) /\ Len(a4) = Len(a3) + Len(s4)
  BY Zenon, <1>6, <1>10, Join
<1> HIDE DEF a4
<1>12. a5 \in Seq(Byte) /\ Len(a5) = Len(a4) + Len(s5)
  BY Zenon, <1>6, <1>11, Join
<1> HIDE DEF a5
<1>13. a6 \in Seq(Byte) /\ Len(a6) = Len(a5) + Len(s6)
  BY Zenon, <1>7, <1>12, Join
<1> HIDE DEF a6
<1>14. a7 \in Seq(Byte) /\ Len(a7) = Len(a6) + Len(s7)
  BY Zenon, <1>6, <1>13, Join
<1> HIDE DEF a7
<1>15. a8 \in Seq(Byte) /\ Len(a8) = Len(a7) + Len(s8)
  BY Zenon, <1>6, <1>14, Join
<1> HIDE DEF a8
<1>16. a9 \in Seq(Byte) /\ Len(a9) = Len(a8) + Len(s9)
  BY Zenon, <1>7, <1>15, Join
<1>a. Len(a2) = 5 /\ Len(a3) = 7 /\ Len(a4) = 11 /\ Len(a5) = 13
  BY SMTT(60), <1>5, <1>6, <1>9, <1>10, <1>11, <1>12
<1>b. Len(a6) = 13 + t /\ Len(a7) = 17 + t /\ Len(a8) = 21 + t
  BY SMTT(60), <1>2, <1>6, <1>7, <1>13, <1>14, <1>15, <1>a
<1>17. Starts(a9, a8) /\ At(a9, 21 + t, s9)
  BY SMTT(60), <1>15, <1>7, <1>b, Join
<1> HIDE DEF a9
<1>18. Starts(a9, a7) /\ At(a9, 17 + t, s8)
  BY SMTT(60), <1>b, <1>14, <1>16, <1>17, <1>6, JoinAt DEF a8
<1>19. Starts(a9, a6) /\ At(a9, 13 + t, s7)
  BY SMTT(60), <1>b, <1>13, <1>16, <1>18, <1>6, JoinAt DEF a7
<1>20. Starts(a9, a5) /\ At(a9, 13, s6)
  BY Zenon, <1>a, <1>12, <1>16, <1>19, <1>7, JoinAt DEF a6
<1>21. Starts(a9, a4) /\ At(a9, 11, s5)
  BY ZenonT(60), <1>a, <1>11, <1>16, <1>20, <1>6, JoinAt DEF a5
<1>22. Starts(a9, a3) /\ At(a9, 7, s4)
  BY ZenonT(60), <1>a, <1>10, <1>16, <1>21, <1>6, JoinAt DEF a4
<1>23. Starts(a9, a2) /\ At(a9, 5, s3)
  BY ZenonT(60), <1>a, <1>9, <1>16, <1>22, <1>6, JoinAt DEF a3
<1>24. Starts(a9, s1) /\ At(a9, 4, s2)
  <2>1. Starts(a9, s1 \o s2) /\ s1 \in Seq(Byte) /\ s2 \in Seq(Byte) /\ a9 \in Seq(Byte)
    BY Zenon, <1>5, <1>6, <1>16, <1>23 DEF a2
  <2>2. Starts(a9, s1) /\ At(a9, Len(s1), s2)
    BY Zenon, <2>1, JoinAt
  <2> QED
    BY <1>6, <2>2
<1>25. At(a9, 0, s1)
  BY SMT, <1>6, <1>24 DEF At, Starts
<1>26. Len(a9) = 4 + n
  <2>1. Len(s9) = Len(f.payload)
    BY DEF s9
  <2>2. \A x, y \in Nat : (21 + x) + y = 4 + (17 + x + y)
    BY SMT
  <2> HIDE DEF n, t
  <2> QED
    BY ZenonT(60), <1>2, <1>3, <1>16, <1>b, <2>1, <2>2
<1>27. At(a9, 21 + t, s9) /\ At(a9, 17 + t, s8) /\ At(a9, 13 + t, s7)
  BY <1>17, <1>18, <1>19
<1>28. At(a9, 13, s6) /\ At(a9, 11, s5) /\ At(a9, 7, s4) /\ At(a9, 5, s3) /\ At(a9, 4, s2)
  BY <1>20, <1>21, <1>22, <1>23, <1>24
<1> QED
  BY ZenonT(60), <1>8, <1>16, <1>25, <1>26, <1>27, <1>28
     DEF Layout, s1, s2, s3, s4, s5, s6, s7, s8, s9

\* get_u16 and get_u32 where a put_u16 or a put_u32 wrote.
LEMMA AtGet16 ==
  ASSUME NEW e, NEW p \in Nat, NEW n \in Nat, Lower(n) = n, At(e, p, U16(n))
  PROVE  Get16(e, p + 1) = n
<1>1. 1 \in 1..2 /\ 2 \in 1..2 /\ p + 1 \in Nat /\ p + 2 = (p + 1) + 1
  BY SMT
<1>2. e[p + 1] = Hi(n) /\ e[(p + 1) + 1] = Lo(n)
  BY Zenon, <1>1, U16Type DEF At
<1>3. Get16(e, p + 1) = Lower(n)
  BY Zenon, <1>1, <1>2, Get16U16
<1> QED
  BY Zenon, <1>3

\* A u32 field of a stream read at its place is the value written there.
LEMMA AtGet32 ==
  ASSUME NEW e, NEW p \in Nat, NEW n \in Nat, n <= MaxInt, At(e, p, U32(n))
  PROVE  Get32(e, p + 1) = n
<1>1. /\ 1 \in 1..4 /\ 2 \in 1..4 /\ 3 \in 1..4 /\ 4 \in 1..4 /\ p + 1 \in Nat
      /\ p + 2 = (p + 1) + 1 /\ p + 3 = (p + 1) + 2 /\ p + 4 = (p + 1) + 3
  BY SMT
<1>2. /\ e[p + 1] = U32(n)[1] /\ e[(p + 1) + 1] = U32(n)[2]
      /\ e[(p + 1) + 2] = U32(n)[3] /\ e[(p + 1) + 3] = U32(n)[4]
  BY ZenonT(60), <1>1, U32Type DEF At
<1> QED
  BY Zenon, <1>1, <1>2, Get32U32

\* Taking the bytes of s from where s sits gives s.
LEMMA AtSubSeq ==
  ASSUME NEW e \in Seq(Byte), NEW s \in Seq(Byte), NEW p \in Nat,
         At(e, p, s), p + Len(s) <= Len(e)
  PROVE  SubSeq(e, p + 1, p + Len(s)) = s
<1>1. Len(e) \in Nat /\ Len(s) \in Nat
  OBVIOUS
<1> DEFINE m == p + 1
           n == p + Len(s)
           r == SubSeq(e, m, n)
<1>2. m \in Int /\ n \in Int /\ n - m + 1 = Len(s) /\ (m <= n \/ Len(s) = 0)
  BY SMT, <1>1
<1>3. \A i \in m..n : e[i] \in Byte
  <2> TAKE i \in m..n
  <2>1. i \in 1..Len(e)
    BY SMT, <1>1
  <2> QED
    BY <2>1, ElementOfSeq
<1>4. \A k \in 1..Len(s) : m + k - 1 = p + k
  BY SMT, <1>1
<1> HIDE DEF m, n
<1>5. /\ r \in Seq(Byte) /\ Len(r) = IF m <= n THEN n - m + 1 ELSE 0
      /\ \A i \in 1 .. n - m + 1 : r[i] = e[m + i - 1]
  BY <1>2, <1>3, SubSeqProperties
<1> HIDE DEF r
<1>6. Len(r) = Len(s)
  <2>1. CASE m <= n
    BY Zenon, <2>1, <1>2, <1>5
  <2>2. CASE ~(m <= n)
    BY Zenon, <2>2, <1>2, <1>5
  <2> QED
    BY <2>1, <2>2
<1>7. \A k \in 1..Len(s) : r[k] = s[k]
  BY Zenon, <1>2, <1>4, <1>5 DEF At
<1>8. r = s
  BY ZenonT(60), <1>5, <1>6, <1>7, SeqEqual
<1> QED
  BY Zenon, <1>8 DEF r, m, n

\* What sits behind the length prefix sits in the body.
LEMMA AtBody ==
  ASSUME NEW b \in Seq(Byte), NEW n \in Nat, 4 + n <= Len(b)
  PROVE  /\ SubSeq(b, 5, 4 + n) \in Seq(Byte) /\ Len(SubSeq(b, 5, 4 + n)) = n
         /\ \A k \in 1..n : SubSeq(b, 5, 4 + n)[k] = b[4 + k]
<1>1. Len(b) \in Nat
  OBVIOUS
<1> DEFINE m == 4 + n
           r == SubSeq(b, 5, m)
<1>2. /\ 5 \in Int /\ m \in Int /\ m - 5 + 1 = n /\ (5 <= m \/ n = 0)
      /\ \A k \in 1..n : 5 + k - 1 = 4 + k
  BY SMT
<1>3. \A i \in 5..m : b[i] \in Byte
  <2> TAKE i \in 5..m
  <2>1. i \in 1..Len(b)
    BY SMT, <1>1
  <2> QED
    BY <2>1, ElementOfSeq
<1> HIDE DEF m
<1>4. /\ r \in Seq(Byte) /\ Len(r) = IF 5 <= m THEN m - 5 + 1 ELSE 0
      /\ \A i \in 1 .. m - 5 + 1 : r[i] = b[5 + i - 1]
  BY <1>2, <1>3, SubSeqProperties
<1> HIDE DEF r
<1>5. Len(r) = n
  <2>1. CASE 5 <= m
    BY Zenon, <2>1, <1>2, <1>4
  <2>2. CASE ~(5 <= m)
    BY ZenonT(60), <2>2, <1>2, <1>4
  <2> QED
    BY <2>1, <2>2
<1>6. \A k \in 1..n : r[k] = b[4 + k]
  BY Zenon, <1>2, <1>4
<1> QED
  BY Zenon, <1>4, <1>5, <1>6 DEF r, m

\* The first n bytes of the body are those behind the prefix.
InBody(body, b, n) == \A k \in 1..n : body[k] = b[4 + k]

\* A part of the buffer behind the prefix, seen in the body.
LEMMA BodyAt ==
  ASSUME NEW body, NEW b, NEW n \in Nat, InBody(body, b, n),
         NEW p \in Nat, NEW s \in Seq(Byte), At(b, 4 + p, s), p + Len(s) <= n
  PROVE  At(body, p, s)
<1> SUFFICES ASSUME NEW k \in 1..Len(s) PROVE body[p + k] = s[k]
  BY DEF At
<1>1. Len(s) \in Nat
  OBVIOUS
<1>2. p + k \in 1..n /\ 4 + (p + k) = (4 + p) + k
  BY SMT, <1>1
<1> QED
  BY Zenon, <1>2 DEF At, InBody

\* Once the first four bytes of a frame are there, total_len is its body's length.
LEMMA LengthPrefix ==
  ASSUME NEW f, Encodable(f), NEW b, \A k \in 1..4 : b[k] = Encode(f)[k]
  PROVE  TotalLen(b) = BodyLen(f)
<1> DEFINE n == BodyLen(f)
<1>1. n \in Nat /\ n <= MaxInt
  <2>1. f.topic \in Seq(Byte) /\ f.payload \in Seq(Byte)
    BY DEF Encodable, Frame
  <2>2. Len(f.topic) \in Nat /\ Len(f.payload) \in Nat
    BY <2>1
  <2>3. n \in Nat
    BY Zenon, <2>2, BodyLenSum
  <2> QED
    BY SMT, <2>3 DEF Encodable
<1>2. At(Encode(f), 0, U32(n))
  <2>1. Layout(Encode(f), f)
    BY EncodeLayout
  <2> QED
    BY Zenon, <2>1 DEF Layout
<1>3. Len(U32(n)) = 4
  BY Zenon, <1>1, U32Type
<1> HIDE DEF n
<1>4. At(b, 0, U32(n))
  <2> SUFFICES ASSUME NEW k \in 1..4 PROVE b[0 + k] = U32(n)[k]
    BY Zenon, <1>3 DEF At
  <2>1. 0 + k = k
    BY SMT
  <2> QED
    BY ZenonT(60), <1>2, <1>3, <2>1 DEF At
<1>5. Get32(b, 0 + 1) = n /\ 0 + 1 = 1
  <2>1. 0 \in Nat /\ 0 + 1 = 1
    BY SMT
  <2> QED
    BY ZenonT(60), <1>1, <1>4, <2>1, AtGet32
<1> QED
  BY Zenon, <1>5 DEF TotalLen, n

\* Frame::decode on a buffer that begins with an encoded frame returns that frame,
\* and its checks fail for the frame's topic only.
THEOREM DecodeUndoesEncode ==
  ASSUME NEW f, Encodable(f), NEW b \in Seq(Byte), Starts(b, Encode(f))
  PROVE  /\ FrameOf(b) = f /\ TopicLen(Body(b)) = Len(f.topic)
         /\ BodyOK(Body(b)) <=> Named(f)
<1> DEFINE e == Encode(f)
           n == BodyLen(f)
           t == Len(f.topic)
           l == Len(f.payload)
           body == Body(b)
<1>1. /\ f.topic \in Seq(Byte) /\ f.payload \in Seq(Byte) /\ f.api_key \in DOMAIN ApiKey
      /\ f.correlation_id \in Nat /\ f.partition \in Nat
  BY DEF Encodable, Frame
<1>2. f.correlation_id <= MaxInt /\ f.partition <= MaxInt /\ n <= MaxInt /\ t < 65536
  BY SMT DEF Encodable
<1>3. t \in Nat /\ l \in Nat
  BY <1>1
<1>4. n = 17 + t + l /\ n \in Nat
  BY Zenon, <1>3, BodyLenSum
<1>5. l <= MaxInt
  <2>1. \A x, y, m \in Nat : 17 + x + y <= m => y <= m
    BY SMT
  <2>2. MaxInt \in Nat
    BY SMT DEF MaxInt
  <2>3. n <= MaxInt
    BY SMT, <1>2
  <2> HIDE DEF n, t, l
  <2> QED
    BY ZenonT(60), <1>3, <1>4, <2>1, <2>2, <2>3
<1>6. Layout(e, f)
  BY SMTT(60), EncodeLayout
<1>7. e \in Seq(Byte) /\ Len(e) = 4 + n
  BY <1>6 DEF Layout
<1>8. Len(b) \in Nat /\ 4 + n <= Len(b)
  BY ZenonT(60), <1>7, LenProperties DEF Starts
<1>9. TotalLen(b) = n
  <2>1. \A k \in 1..4 : k \in 1..Len(e)
    <3>1. \A x \in Nat : \A k \in 1..4 : k \in 1..(4 + x)
      BY SMT
    <3> QED
      BY ZenonT(60), <1>4, <1>7, <3>1
  <2> QED
    BY <2>1, LengthPrefix DEF Starts
<1>10. body \in Seq(Byte) /\ Len(body) = n /\ InBody(body, b, n)
  <2>1. body = SubSeq(b, 5, 4 + n)
    BY Zenon, <1>9 DEF Body
  <2>2. n \in Nat /\ 4 + n <= Len(b)
    BY ZenonT(60), <1>4, <1>8
  <2> HIDE DEF n, body
  <2> QED
    BY ZenonT(60), <2>1, <2>2, AtBody DEF InBody
<1>11. ApiKey[f.api_key] \in Nat /\ Lower(ApiKey[f.api_key]) = ApiKey[f.api_key]
  BY SMTT(60), <1>1, ApiKeys, LowerSmall
<1>12. Lower(t) = t
  BY SMTT(60), <1>2, <1>3, LowerSmall
<1> DEFINE s2 == <<f.magic>>
           s3 == U16(ApiKey[f.api_key])
           s4 == U32(f.correlation_id)
           s5 == U16(t)
           s6 == f.topic
           s7 == U32(f.partition)
           s8 == U32(l)
           s9 == f.payload
<1>13. /\ s2 \in Seq(Byte) /\ s3 \in Seq(Byte) /\ s4 \in Seq(Byte) /\ s5 \in Seq(Byte)
       /\ s6 \in Seq(Byte) /\ s7 \in Seq(Byte) /\ s8 \in Seq(Byte) /\ s9 \in Seq(Byte)
  <2>1. f.magic \in Byte
    BY SMT DEF Encodable, Frame, MagicByte, Byte
  <2>2. s2 \in Seq(Byte)
    BY SMT, <2>1
  <2> QED
    BY ZenonT(60), <1>1, <1>3, <1>11, <2>2, U16Type, U32Type
<1>14. /\ Len(s2) = 1 /\ Len(s3) = 2 /\ Len(s4) = 4 /\ Len(s5) = 2
       /\ Len(s6) = t /\ Len(s7) = 4 /\ Len(s8) = 4 /\ Len(s9) = l
  <2>1. Len(s2) = 1
    BY SMT
  <2> QED
    BY ZenonT(60), <1>1, <1>3, <1>11, <2>1, U16Type, U32Type
<1>15. /\ At(e, 4, s2) /\ At(e, 5, s3) /\ At(e, 7, s4) /\ At(e, 11, s5) /\ At(e, 13, s6)
       /\ At(e, 13 + t, s7) /\ At(e, 17 + t, s8) /\ At(e, 21 + t, s9)
  BY Zenon, <1>6 DEF Layout
<1> HIDE DEF e, n, t, l, body, s2, s3, s4, s5, s6, s7, s8, s9
<1>16. /\ 4 \in Nat /\ 5 \in Nat /\ 7 \in Nat /\ 11 \in Nat /\ 13 \in Nat
       /\ 13 + t \in Nat /\ 17 + t \in Nat /\ 21 + t \in Nat
       /\ 4 + Len(s2) <= Len(e) /\ 5 + Len(s3) <= Len(e) /\ 7 + Len(s4) <= Len(e)
       /\ 11 + Len(s5) <= Len(e) /\ 13 + Len(s6) <= Len(e) /\ 13 + t + Len(s7) <= Len(e)
       /\ 17 + t + Len(s8) <= Len(e) /\ 21 + t + Len(s9) <= Len(e)
  BY SMTT(60), <1>3, <1>4, <1>7, <1>14
<1>17. Starts(b, e)
  BY DEF e
<1>18. At(b, 4, s2) /\ At(b, 5, s3) /\ At(b, 7, s4) /\ At(b, 11, s5)
  BY ZenonT(60), <1>7, <1>13, <1>15, <1>16, <1>17, StartsAt
<1>19. At(b, 13, s6) /\ At(b, 13 + t, s7) /\ At(b, 17 + t, s8) /\ At(b, 21 + t, s9)
  BY ZenonT(60), <1>7, <1>13, <1>15, <1>16, <1>17, StartsAt
<1>20. /\ 0 \in Nat /\ 1 \in Nat /\ 3 \in Nat /\ 9 \in Nat /\ 9 + t \in Nat
       /\ 4 = 4 + 0 /\ 5 = 4 + 1 /\ 7 = 4 + 3 /\ 11 = 4 + 7 /\ 13 = 4 + 9
       /\ 13 + t = 4 + (9 + t) /\ 17 + t = 4 + (13 + t) /\ 21 + t = 4 + (17 + t)
       /\ 0 + Len(s2) <= n /\ 1 + Len(s3) <= n /\ 3 + Len(s4) <= n /\ 7 + Len(s5) <= n
       /\ 9 + Len(s6) <= n /\ 9 + t + Len(s7) <= n /\ 13 + t + Len(s8) <= n
       /\ 17 + t + Len(s9) <= n
  BY SMTT(60), <1>3, <1>4, <1>14
<1>c. /\ At(b, 4 + 0, s2) /\ At(b, 4 + 1, s3) /\ At(b, 4 + 3, s4) /\ At(b, 4 + 7, s5)
      /\ At(b, 4 + 9, s6) /\ At(b, 4 + (9 + t), s7) /\ At(b, 4 + (13 + t), s8)
      /\ At(b, 4 + (17 + t), s9)
  BY ZenonT(60), <1>18, <1>19, <1>20
<1>21. At(body, 0, s2) /\ At(body, 1, s3) /\ At(body, 3, s4) /\ At(body, 7, s5)
  BY ZenonT(60), <1>4, <1>10, <1>13, <1>16, <1>20, <1>c, BodyAt
<1>22. At(body, 9, s6) /\ At(body, 9 + t, s7) /\ At(body, 13 + t, s8) /\ At(body, 17 + t, s9)
  BY ZenonT(60), <1>4, <1>10, <1>13, <1>16, <1>20, <1>c, BodyAt
<1>23. body[1] = f.magic
  <2>1. body[0 + 1] = s2[1] /\ 0 + 1 = 1 /\ s2[1] = f.magic
    BY SMTT(60), <1>14, <1>21 DEF At, s2
  <2> QED
    BY ZenonT(60), <2>1
<1>24. Get16(body, 2) = ApiKey[f.api_key] /\ ApiKeyOf(Get16(body, 2)) = f.api_key
  <2>1. 1 + 1 = 2
    BY SMT
  <2>2. Get16(body, 1 + 1) = ApiKey[f.api_key]
    BY ZenonT(60), <1>11, <1>20, <1>21, AtGet16 DEF s3
  <2>3. ApiKeyOf(ApiKey[f.api_key]) = f.api_key
    BY SMT, <1>1, ApiKeys
  <2> QED
    BY ZenonT(60), <2>1, <2>2, <2>3
<1>25. Get32(body, 4) = f.correlation_id
  <2>1. 3 + 1 = 4
    BY SMT
  <2>2. f.correlation_id <= MaxInt
    BY SMT, <1>2
  <2>3. Get32(body, 3 + 1) = f.correlation_id
    BY ZenonT(60), <1>1, <1>20, <1>21, <2>2, AtGet32 DEF s4
  <2> QED
    BY ZenonT(60), <2>1, <2>3
<1>26. TopicLen(body) = t
  <2>1. 7 + 1 = 8
    BY SMT
  <2>2. Get16(body, 7 + 1) = t
    BY Zenon, <1>3, <1>12, <1>16, <1>21, AtGet16 DEF s5
  <2> QED
    BY Zenon, <2>1, <2>2 DEF TopicLen
<1>27. TopicBytes(body) = f.topic
  <2>1. 9 + 1 = 10
    BY SMT
  <2>2. SubSeq(body, 9 + 1, 9 + Len(s6)) = s6
    BY ZenonT(60), <1>10, <1>13, <1>20, <1>22, AtSubSeq
  <2> QED
    BY ZenonT(60), <1>14, <1>26, <2>1, <2>2 DEF TopicBytes, s6
<1>28. Get32(body, 10 + TopicLen(body)) = f.partition
  <2>1. (9 + t) + 1 = 10 + t
    BY SMT, <1>3
  <2>2. f.partition <= MaxInt
    BY SMT, <1>2
  <2>3. Get32(body, (9 + t) + 1) = f.partition
    BY ZenonT(60), <1>1, <1>20, <1>22, <2>2, AtGet32 DEF s7
  <2> QED
    BY ZenonT(60), <1>26, <2>1, <2>3
<1>29. PayloadLen(body) = l
  <2>1. (13 + t) + 1 = 14 + t
    BY SMT, <1>3
  <2>2. Get32(body, (13 + t) + 1) = l
    BY Zenon, <1>3, <1>5, <1>16, <1>22, AtGet32 DEF s8
  <2> QED
    BY Zenon, <1>26, <2>1, <2>2 DEF PayloadLen
<1>30. SubSeq(body, PayloadAt(body) + 1, PayloadAt(body) + PayloadLen(body)) = f.payload
  <2>1. SubSeq(body, (17 + t) + 1, (17 + t) + Len(s9)) = s9
    BY ZenonT(60), <1>10, <1>13, <1>16, <1>20, <1>22, AtSubSeq
  <2> QED
    BY ZenonT(60), <1>14, <1>26, <1>29, <2>1 DEF PayloadAt, s9
<1>31. FrameOf(b) =
         [magic |-> f.magic, api_key |-> f.api_key, correlation_id |-> f.correlation_id,
          topic |-> f.topic, partition |-> f.partition, payload |-> f.payload]
  BY ZenonT(60), <1>23, <1>24, <1>25, <1>27, <1>28, <1>30 DEF FrameOf, body
<1>32. f = [magic |-> f.magic, api_key |-> f.api_key, correlation_id |-> f.correlation_id,
            topic |-> f.topic, partition |-> f.partition, payload |-> f.payload]
  BY SMT DEF Encodable, Frame
<1>33. f.magic = MagicByte
  BY SMTT(60) DEF Encodable, Frame
<1>34. ApiKey[f.api_key] = ApiKey.Error <=> f.api_key = "Error"
  BY SMT, <1>1 DEF ApiKey
<1>35. Len(body) - 9 >= t + 4 + 4 /\ Len(body) - (17 + t) >= l
  BY SMTT(60), <1>3, <1>4, <1>10
<1>36. BodyOK(body) <=> Named(f)
  BY ZenonT(60), <1>1, <1>23, <1>24, <1>26, <1>27, <1>29, <1>33, <1>34, <1>35
     DEF BodyOK, Named, PayloadAt, t
<1> QED
  BY ZenonT(60), <1>26, <1>31, <1>32, <1>36 DEF body, t

-----------------------------------------------------------------------------
\* Buffers that are put together and taken apart in a loop.

\* Induction over the natural numbers.
LEMMA Counting ==
  ASSUME NEW T, 0 \in T, \A n \in Nat : n \in T => n + 1 \in T
  PROVE  \A n \in Nat : n \in T
<1> DEFINE B == Nat \ T
           R == OpToRel(<, Nat)
<1> SUFFICES ASSUME B # {} PROVE FALSE
  OBVIOUS
<1>1. IsWellFoundedOn(R, Nat)
  BY Zenon, NatLessThanWellFounded
<1> HIDE DEF R, B
<1>2. B \subseteq Nat
  BY DEF B
<1>3. PICK x \in B : \A y \in B : ~ (<<y, x>> \in R)
  BY ZenonT(60), <1>1, <1>2, WFMin
<1>4. \A y \in B : ~(y < x)
  BY ZenonT(60), <1>2, <1>3 DEF R, OpToRel
<1>5. x \in Nat /\ x \notin T /\ x # 0
  BY DEF B
<1>6. x - 1 \in Nat /\ x - 1 < x /\ (x - 1) + 1 = x
  BY SMT, <1>5
<1>7. x - 1 \in B
  BY ZenonT(60), <1>5, <1>6 DEF B
<1> QED
  BY ZenonT(60), <1>4, <1>6, <1>7

\* h[k] is x followed by the first k pieces.
Glued(h, n, x, piece) == h = [k \in 0..n |-> IF k = 0 THEN x ELSE h[k - 1] \o piece[k]]

\* There is such a function, for every number of pieces.
LEMMA GlueExists ==
  ASSUME NEW n \in Nat, NEW x, NEW piece
  PROVE  \E h : Glued(h, n, x, piece)
<1> DEFINE T == {m \in Nat : \E h : Glued(h, m, x, piece)}
<1>1. 0 \in T
  <2> DEFINE h == [k \in 0..0 |-> x]
  <2>1. h = [k \in 0..0 |-> IF k = 0 THEN x ELSE h[k - 1] \o piece[k]]
    BY SMT
  <2> QED
    BY Zenon, <2>1 DEF Glued
<1>2. ASSUME NEW m \in Nat, m \in T PROVE m + 1 \in T
  <2>1. PICK h : h = [k \in 0..m |-> IF k = 0 THEN x ELSE h[k - 1] \o piece[k]]
    BY Zenon, <1>2 DEF Glued
  <2> DEFINE g == [k \in 0..(m + 1) |-> IF k = m + 1 THEN h[m] \o piece[m + 1] ELSE h[k]]
  <2>2. ASSUME NEW k \in 0..(m + 1)
        PROVE  g[k] = IF k = 0 THEN x ELSE g[k - 1] \o piece[k]
    <3>1. CASE k = m + 1
      <4>1. k # 0 /\ k - 1 = m /\ m \in 0..(m + 1) /\ m # m + 1
        BY SMT, <3>1
      <4> QED
        BY ZenonT(60), <3>1, <4>1
    <3>2. CASE k # m + 1
      <4>1. k \in 0..m
        BY SMT, <3>2
      <4>2. g[k] = IF k = 0 THEN x ELSE h[k - 1] \o piece[k]
        BY ZenonT(60), <2>1, <3>2, <4>1
      <4>3. k # 0 => k - 1 \in 0..(m + 1) /\ k - 1 # m + 1
        BY SMT, <4>1
      <4> QED
        BY ZenonT(60), <4>2, <4>3
    <3> QED
      BY ZenonT(60), <3>1, <3>2
  <2>3. g = [k \in 0..(m + 1) |-> g[k]]
    BY Zenon
  <2>4. g = [k \in 0..(m + 1) |-> IF k = 0 THEN x ELSE g[k - 1] \o piece[k]]
    <3> HIDE DEF g
    <3> QED
      BY ZenonT(60), <2>2, <2>3
  <2>5. m + 1 \in Nat
    OBVIOUS
  <2> HIDE DEF g
  <2> QED
    BY ZenonT(60), <2>4, <2>5 DEF Glued
<1> HIDE DEF T
<1>3. n \in T
  BY ZenonT(60), <1>1, <1>2, Counting
<1> QED
  BY <1>3 DEF T

\* put_u64 writes eight bytes.
LEMMA U64Type ==
  ASSUME NEW n \in Nat
  PROVE  U64(n) \in Seq(Byte) /\ Len(U64(n)) = 8
<1> DEFINE h == Upper(Upper(n))
           a == U32(h)
           b == U32(n)
<1>1. h \in Nat
  BY Zenon, HalfTypes
<1>2. U64(n) = a \o b
  BY SMT DEF U64, Upper
<1> HIDE DEF h
<1>3. a \in Seq(Byte) /\ Len(a) = 4 /\ b \in Seq(Byte) /\ Len(b) = 4
  BY ZenonT(60), <1>1, U32Type
<1> HIDE DEF a, b
<1>4. a \o b \in Seq(Byte) /\ Len(a \o b) = Len(a) + Len(b)
  BY ZenonT(60), <1>3, Join
<1> QED
  BY SMTT(60), <1>2, <1>3, <1>4

\* What h[k] holds: bytes, with the pieces one behind the other, each h[k] the
\* beginning of the last.
LEMMA GlueFacts ==
  ASSUME NEW n \in Nat, NEW x \in Seq(Byte), NEW piece,
         \A k \in 1..n : piece[k] \in Seq(Byte), NEW h, Glued(h, n, x, piece)
  PROVE  /\ h[0] = x
         /\ \A k \in 0..n : h[k] \in Seq(Byte) /\ Len(h[k]) \in Nat /\ Starts(h[n], h[k])
         /\ \A k \in 1..n : /\ h[k] = h[k - 1] \o piece[k]
                            /\ Len(h[k]) = Len(h[k - 1]) + Len(piece[k])
                            /\ At(h[n], Len(h[k - 1]), piece[k])
<1>1. h[0] = x
  <2>1. 0 \in 0..n
    BY SMT
  <2> QED
    BY Zenon, <2>1 DEF Glued
<1>2. ASSUME NEW k \in 1..n PROVE h[k] = h[k - 1] \o piece[k]
  <2>1. k \in 0..n /\ k # 0
    BY SMT
  <2> QED
    BY ZenonT(60), <2>1 DEF Glued
<1> DEFINE T == {m \in Nat : m <= n => /\ h[m] \in Seq(Byte)
                                       /\ \A k \in 0..m : Starts(h[m], h[k])}
<1>3. 0 \in T
  <2>1. \A k \in 0..0 : k = 0
    BY SMT
  <2>2. Starts(x, x)
    BY DEF Starts
  <2> QED
    BY ZenonT(60), <1>1, <2>1, <2>2
<1>4. ASSUME NEW m \in Nat, m \in T PROVE m + 1 \in T
  <2> SUFFICES ASSUME m + 1 <= n
               PROVE  h[m + 1] \in Seq(Byte) /\ \A k \in 0..(m + 1) : Starts(h[m + 1], h[k])
    OBVIOUS
  <2>1. m <= n /\ m + 1 \in 1..n /\ (m + 1) - 1 = m
    BY SMT
  <2>2. h[m] \in Seq(Byte) /\ \A k \in 0..m : Starts(h[m], h[k])
    BY Zenon, <1>4, <2>1
  <2>3. h[m + 1] = h[m] \o piece[m + 1] /\ piece[m + 1] \in Seq(Byte)
    BY Zenon, <1>2, <2>1
  <2>4. h[m + 1] \in Seq(Byte) /\ Starts(h[m + 1], h[m])
    BY ZenonT(60), <2>2, <2>3, Join
  <2>5. ASSUME NEW k \in 0..(m + 1) PROVE Starts(h[m + 1], h[k])
    <3>1. CASE k = m + 1
      <4>1. Starts(h[m + 1], h[m + 1])
        BY <2>4 DEF Starts
      <4> QED
        BY ZenonT(60), <3>1, <4>1
    <3>2. CASE k # m + 1
      <4>1. k \in 0..m
        BY SMT, <3>2
      <4>2. Starts(h[m], h[k])
        BY Zenon, <2>2, <4>1
      <4>3. k \in Nat /\ k <= m
        BY SMT, <4>1
      <4> QED
        BY SMTT(60), <2>4, <4>2 DEF Starts
    <3> QED
      BY Zenon, <3>1, <3>2
  <2> QED
    BY Zenon, <2>4, <2>5
<1> HIDE DEF T
<1>5. \A m \in Nat : m \in T
  BY ZenonT(60), <1>3, <1>4, Counting
<1>6. ASSUME NEW k \in 0..n
      PROVE  h[k] \in Seq(Byte) /\ Len(h[k]) \in Nat /\ Starts(h[n], h[k])
  <2>1. k \in Nat /\ k <= n /\ n <= n
    BY SMT
  <2>2. h[k] \in Seq(Byte) /\ Starts(h[n], h[k])
    BY ZenonT(60), <1>5, <2>1 DEF T
  <2> QED
    BY ZenonT(60), <2>2, LenProperties
<1>7. ASSUME NEW k \in 1..n
      PROVE  /\ Len(h[k]) = Len(h[k - 1]) + Len(piece[k])
             /\ At(h[n], Len(h[k - 1]), piece[k])
  <2>1. k \in 0..n /\ k - 1 \in 0..n /\ n \in 0..n
    BY SMT
  <2>2. h[k] \in Seq(Byte) /\ h[k - 1] \in Seq(Byte) /\ h[n] \in Seq(Byte) /\ Starts(h[n], h[k])
    BY ZenonT(60), <1>6, <2>1
  <2>3. Starts(h[n], h[k - 1] \o piece[k])
    BY ZenonT(60), <1>2, <2>2
  <2>4. At(h[n], Len(h[k - 1]), piece[k])
    BY ZenonT(60), <2>2, <2>3, JoinAt
  <2> QED
    BY ZenonT(60), <1>2, <2>2, <2>4, Join
<1> QED
  BY ZenonT(60), <1>1, <1>2, <1>6, <1>7

\* Two parts that sit behind each other, seen one by one.
LEMMA AtJoin ==
  ASSUME NEW e, NEW p \in Nat, NEW a \in Seq(Byte), NEW s \in Seq(Byte), At(e, p, a \o s)
  PROVE  At(e, p, a) /\ At(e, p + Len(a), s)
<1> DEFINE j == a \o s
<1>1. Len(a) \in Nat /\ Len(s) \in Nat
  BY Zenon, LenProperties
<1>2. Len(j) = Len(a) + Len(s) /\ Starts(j, a) /\ At(j, Len(a), s)
  BY Zenon, Join
<1>3. At(e, p, j)
  OBVIOUS
<1> HIDE DEF j
<1>4. At(e, p, a)
  <2> SUFFICES ASSUME NEW k \in 1..Len(a) PROVE e[p + k] = a[k]
    BY DEF At
  <2>1. k \in 1..Len(j)
    BY SMT, <1>1, <1>2
  <2> QED
    BY ZenonT(60), <1>2, <1>3, <2>1 DEF At, Starts
<1>5. At(e, p + Len(a), s)
  <2> SUFFICES ASSUME NEW k \in 1..Len(s) PROVE e[(p + Len(a)) + k] = s[k]
    BY DEF At
  <2>1. Len(a) + k \in 1..Len(j) /\ (p + Len(a)) + k = p + (Len(a) + k)
    BY SMTT(60), <1>1, <1>2
  <2> QED
    BY ZenonT(60), <1>2, <1>3, <2>1 DEF At
<1> QED
  BY Zenon, <1>4, <1>5

\* What is left of w behind its first c bytes.
Rest(w, c) == SubSeq(w, c + 1, Len(w))

\* It is the bytes of w from there on, and empty at the end.
LEMMA RestBytes ==
  ASSUME NEW w \in Seq(Byte), NEW c \in 0..Len(w)
  PROVE  /\ Rest(w, c) \in Seq(Byte) /\ Len(Rest(w, c)) = Len(w) - c
         /\ \A i \in 1..(Len(w) - c) : Rest(w, c)[i] = w[c + i]
<1> DEFINE m == c + 1
           n == Len(w)
           r == SubSeq(w, m, n)
<1>1. Len(w) \in Nat
  BY Zenon, LenProperties
<1>2. /\ m \in Int /\ n \in Int /\ n - m + 1 = Len(w) - c
      /\ (m <= n \/ Len(w) - c = 0) /\ m \in Nat /\ Len(w) - c \in Nat
  BY SMT, <1>1
<1>3. \A i \in m..n : w[i] \in Byte
  <2> TAKE i \in m..n
  <2>1. i \in 1..Len(w)
    BY SMT, <1>1
  <2> QED
    BY <2>1, ElementOfSeq
<1>4. \A i \in 1..(Len(w) - c) : m + i - 1 = c + i
  BY SMTT(60), <1>1
<1> HIDE DEF m, n
<1>5. /\ r \in Seq(Byte) /\ Len(r) = IF m <= n THEN n - m + 1 ELSE 0
      /\ \A i \in 1 .. n - m + 1 : r[i] = w[m + i - 1]
  BY SMTT(60), <1>2, <1>3, SubSeqProperties
<1>6. r = Rest(w, c)
  BY Zenon DEF Rest, m, n
<1> HIDE DEF r
<1>7. Len(r) = Len(w) - c
  <2>1. CASE m <= n
    BY ZenonT(60), <2>1, <1>2, <1>5
  <2>2. CASE ~(m <= n)
    BY Zenon, <2>2, <1>2, <1>5
  <2> QED
    BY <2>1, <2>2
<1>8. \A i \in 1..(Len(w) - c) : r[i] = w[c + i]
  BY ZenonT(60), <1>2, <1>4, <1>5
<1> QED
  BY ZenonT(60), <1>5, <1>6, <1>7, <1>8

\* What sits behind the first c bytes sits in what is left.
LEMMA RestAt ==
  ASSUME NEW w \in Seq(Byte), NEW c \in 0..Len(w), NEW p \in Nat, NEW s \in Seq(Byte),
         At(w, c + p, s), c + p + Len(s) <= Len(w)
  PROVE  At(Rest(w, c), p, s)
<1>1. Len(w) \in Nat /\ Len(s) \in Nat
  BY Zenon, LenProperties
<1> SUFFICES ASSUME NEW k \in 1..Len(s) PROVE Rest(w, c)[p + k] = s[k]
  BY DEF At
<1>2. p + k \in 1..(Len(w) - c) /\ c + (p + k) = (c + p) + k
  BY SMT, <1>1
<1>3. Rest(w, c)[p + k] = w[c + (p + k)]
  BY Zenon, <1>2, RestBytes
<1> QED
  BY Zenon, <1>2, <1>3 DEF At

\* Leaving out m more bytes.
LEMMA RestOfRest ==
  ASSUME NEW w \in Seq(Byte), NEW c \in 0..Len(w), NEW m \in 0..(Len(w) - c)
  PROVE  SubSeq(Rest(w, c), m + 1, Len(Rest(w, c))) = Rest(w, c + m)
<1>1. Len(w) \in Nat
  BY Zenon, LenProperties
<1> DEFINE r == Rest(w, c)
           a == Rest(r, m)
           b == Rest(w, c + m)
<1>2. /\ r \in Seq(Byte) /\ Len(r) = Len(w) - c
      /\ \A i \in 1..(Len(w) - c) : r[i] = w[c + i]
  BY Zenon, RestBytes
<1> HIDE DEF r
<1>3. /\ a \in Seq(Byte) /\ Len(a) = Len(r) - m
      /\ \A i \in 1..(Len(r) - m) : a[i] = r[m + i]
  <2>1. m \in 0..Len(r)
    BY Zenon, <1>2
  <2> QED
    BY ZenonT(60), <1>2, <2>1, RestBytes
<1>4. /\ b \in Seq(Byte) /\ Len(b) = Len(w) - (c + m)
      /\ \A i \in 1..(Len(w) - (c + m)) : b[i] = w[(c + m) + i]
  <2>1. c + m \in 0..Len(w)
    BY SMT, <1>1
  <2> QED
    BY ZenonT(60), <2>1, RestBytes
<1>5. a = SubSeq(r, m + 1, Len(r))
  BY Zenon DEF Rest
<1> HIDE DEF a, b
<1>6. (Len(w) - c) - m = Len(w) - (c + m)
  BY SMT, <1>1
<1>7. \A i \in 1..(Len(w) - (c + m)) : m + i \in 1..(Len(w) - c) /\ c + (m + i) = (c + m) + i
  BY SMT, <1>1
<1>8. Len(a) = Len(b)
  BY ZenonT(60), <1>2, <1>3, <1>4, <1>6
<1>9. \A i \in 1..Len(a) : a[i] = b[i]
  <2> SUFFICES ASSUME NEW i \in 1..(Len(w) - (c + m)) PROVE a[i] = b[i]
    BY Zenon, <1>4, <1>8
  <2>1. a[i] = r[m + i]
    BY ZenonT(60), <1>2, <1>3, <1>6
  <2>2. r[m + i] = w[(c + m) + i]
    BY Zenon, <1>2, <1>7
  <2> QED
    BY ZenonT(60), <1>4, <2>1, <2>2
<1>10. a = b
  BY ZenonT(60), <1>3, <1>4, <1>8, <1>9, SeqEqual
<1> QED
  BY Zenon, <1>5, <1>10 DEF r, b

\* get_u64 undoes put_u64, for numbers below 2^31.
LEMMA AtGet64 ==
  ASSUME NEW e, NEW p \in Nat, NEW n \in Nat, n <= MaxInt, At(e, p, U64(n))
  PROVE  Get64(e, p + 1) = n
<1> DEFINE h == Upper(Upper(n))
<1>1. h = 0
  BY SMT DEF Upper, MaxInt
<1>2. U64(n) = U32(h) \o U32(n)
  BY SMT DEF U64, Upper
<1> HIDE DEF h
<1>3. h \in Nat /\ h <= MaxInt
  BY SMT, <1>1 DEF MaxInt
<1>4. U32(h) \in Seq(Byte) /\ Len(U32(h)) = 4 /\ U32(n) \in Seq(Byte)
  BY Zenon, <1>3, U32Type
<1>5. At(e, p, U32(h)) /\ At(e, p + 4, U32(n))
  BY ZenonT(60), <1>2, <1>4, AtJoin
<1>6. p + 4 \in Nat /\ (p + 4) + 1 = (p + 1) + 4
  BY SMT
<1>7. Get32(e, p + 1) = 0
  BY Zenon, <1>1, <1>3, <1>5, AtGet32
<1>8. Get32(e, (p + 1) + 4) = n
  BY ZenonT(60), <1>5, <1>6, AtGet32
<1>9. Get64(e, p + 1) = (Get32(e, p + 1) * 65536) * 65536 + Get32(e, (p + 1) + 4)
  BY SMT DEF Get64
<1> QED
  BY SMTT(60), <1>7, <1>8, <1>9

-----------------------------------------------------------------------------
\* Batches.

\* A message of a batch behind its length.
BatchPiece(ps) == [k \in 1..Len(ps) |-> U32(Len(ps[k])) \o ps[k]]

\* The buffer into_frame fills.
LEMMA BatchGlued ==
  ASSUME NEW ps, Len(ps) \in Nat
  PROVE  Glued(BatchBuffer(ps), Len(ps), U32(Len(ps)), BatchPiece(ps))
<1> DEFINE n == Len(ps)
           x == U32(n)
           P(h) == h = [k \in 0..n |-> IF k = 0 THEN x
                                       ELSE h[k - 1] \o (U32(Len(ps[k])) \o ps[k])]
<1>1. ASSUME NEW h PROVE P(h) <=> Glued(h, n, x, BatchPiece(ps))
  <2>1. ASSUME NEW k \in 0..n
        PROVE  (IF k = 0 THEN x ELSE h[k - 1] \o (U32(Len(ps[k])) \o ps[k])) =
               (IF k = 0 THEN x ELSE h[k - 1] \o BatchPiece(ps)[k])
    <3>1. k # 0 => k \in 1..n
      BY SMT
    <3> QED
      BY Zenon, <3>1 DEF BatchPiece
  <2>2. [k \in 0..n |-> IF k = 0 THEN x ELSE h[k - 1] \o (U32(Len(ps[k])) \o ps[k])] =
        [k \in 0..n |-> IF k = 0 THEN x ELSE h[k - 1] \o BatchPiece(ps)[k]]
    BY Zenon, <2>1
  <2> QED
    BY Zenon, <2>2 DEF Glued
<1>2. BatchBuffer(ps) = CHOOSE h : P(h)
  BY Zenon DEF BatchBuffer
<1>3. \E h : Glued(h, n, x, BatchPiece(ps))
  BY Zenon, GlueExists
<1> HIDE DEF P
<1>4. \E h : P(h)
  BY ZenonT(60), <1>1, <1>3
<1>5. P(BatchBuffer(ps))
  BY ZenonT(60), <1>2, <1>4
<1> QED
  BY ZenonT(60), <1>1, <1>5

\* Every turn of a loop that adds at least one byte makes the buffer longer.
LEMMA GlueLength ==
  ASSUME NEW n \in Nat, NEW len, \A k \in 0..n : len[k] \in Nat,
         \A k \in 1..n : len[k] >= len[k - 1] + 1
  PROVE  \A k \in 0..n : k <= len[k] /\ len[k] <= len[n]
<1> DEFINE T == {m \in Nat : m <= n => m <= len[m] /\ \A k \in 0..m : len[k] <= len[m]}
<1>1. 0 \in T
  <2>1. 0 \in 0..n
    BY SMT
  <2>2. len[0] \in Nat
    BY Zenon, <2>1
  <2>3. 0 <= len[0] /\ \A k \in 0..0 : len[k] <= len[0]
    BY SMT, <2>2
  <2> QED
    BY ZenonT(60), <2>3
<1>2. ASSUME NEW m \in Nat, m \in T PROVE m + 1 \in T
  <2> SUFFICES ASSUME m + 1 <= n
               PROVE  m + 1 <= len[m + 1] /\ \A k \in 0..(m + 1) : len[k] <= len[m + 1]
    OBVIOUS
  <2>1. m <= n /\ m + 1 \in 1..n /\ (m + 1) - 1 = m /\ m \in 0..n /\ m + 1 \in 0..n
    BY SMT
  <2>2. m <= len[m] /\ \A k \in 0..m : len[k] <= len[m]
    BY ZenonT(60), <1>2, <2>1
  <2>3. len[m + 1] >= len[m] + 1 /\ len[m] \in Nat /\ len[m + 1] \in Nat
    BY Zenon, <2>1
  <2>4. ASSUME NEW k \in 0..(m + 1) PROVE len[k] <= len[m + 1]
    <3>1. CASE k = m + 1
      BY SMTT(60), <2>3, <3>1
    <3>2. CASE k # m + 1
      <4>1. k \in 0..m /\ k \in 0..n
        BY SMTT(60), <2>1, <3>2
      <4>2. len[k] \in Nat /\ len[k] <= len[m]
        BY ZenonT(60), <2>2, <4>1
      <4> QED
        BY SMTT(60), <2>3, <4>2
    <3> QED
      BY ZenonT(60), <3>1, <3>2
  <2>5. m + 1 <= len[m + 1]
    BY SMTT(60), <2>2, <2>3
  <2> QED
    BY Zenon, <2>4, <2>5
<1> HIDE DEF T
<1>3. \A m \in Nat : m \in T
  BY ZenonT(60), <1>1, <1>2, Counting
<1> TAKE k \in 0..n
<1>4. k \in Nat /\ k <= n /\ n <= n
  BY SMT
<1> QED
  BY Zenon, <1>3, <1>4 DEF T

\* Where into_frame puts the count and the messages of a batch.
LEMMA BatchLayout ==
  ASSUME NEW ps \in Seq(Seq(Byte))
  PROVE  LET n == Len(ps)
             w == BatchBytes(ps)
             e(k) == Len(BatchBuffer(ps)[k])
         IN  /\ n \in Nat /\ w \in Seq(Byte) /\ n <= Len(w)
             /\ e(0) = 4 /\ e(n) = Len(w) /\ At(w, 0, U32(n))
             /\ \A k \in 0..n : e(k) \in Nat /\ e(k) <= Len(w)
             /\ \A k \in 1..n : /\ ps[k] \in Seq(Byte) /\ e(k) = e(k - 1) + 4 + Len(ps[k])
                                /\ At(w, e(k - 1), U32(Len(ps[k]))) /\ At(w, e(k - 1) + 4, ps[k])
<1> DEFINE n == Len(ps)
           h == BatchBuffer(ps)
           x == U32(n)
           piece == BatchPiece(ps)
           w == BatchBytes(ps)
           len == [k \in 0..n |-> Len(h[k])]
<1>1. n \in Nat /\ \A k \in 1..n : ps[k] \in Seq(Byte)
  <2> DEFINE B == Seq(Byte)
  <2>1. ps \in Seq(B)
    OBVIOUS
  <2> HIDE DEF B
  <2>2. n \in Nat /\ \A k \in 1..n : ps[k] \in B
    BY SMTT(60), <2>1, LenProperties, ElementOfSeq
  <2> QED
    BY <2>2 DEF B
<1>2. Glued(h, n, x, piece) /\ w = h[n]
  BY Zenon, <1>1, BatchGlued DEF BatchBytes
<1>3. x \in Seq(Byte) /\ Len(x) = 4
  BY Zenon, <1>1, U32Type
<1>4. ASSUME NEW k \in 1..n
      PROVE  /\ piece[k] = U32(Len(ps[k])) \o ps[k] /\ piece[k] \in Seq(Byte)
             /\ Len(piece[k]) = 4 + Len(ps[k]) /\ Len(ps[k]) \in Nat
             /\ U32(Len(ps[k])) \in Seq(Byte) /\ Len(U32(Len(ps[k]))) = 4
  <2>1. ps[k] \in Seq(Byte) /\ Len(ps[k]) \in Nat
    BY ZenonT(60), <1>1, LenProperties
  <2>2. U32(Len(ps[k])) \in Seq(Byte) /\ Len(U32(Len(ps[k]))) = 4
    BY ZenonT(60), <2>1, U32Type
  <2>3. piece[k] = U32(Len(ps[k])) \o ps[k]
    BY Zenon DEF BatchPiece
  <2> QED
    BY ZenonT(60), <2>1, <2>2, <2>3, Join
<1> HIDE DEF n, h, x, piece, w
<1>5. /\ h[0] = x
      /\ \A k \in 0..n : h[k] \in Seq(Byte) /\ Len(h[k]) \in Nat /\ Starts(h[n], h[k])
      /\ \A k \in 1..n : /\ Len(h[k]) = Len(h[k - 1]) + Len(piece[k])
                         /\ At(h[n], Len(h[k - 1]), piece[k])
  <2>1. \A k \in 1..n : piece[k] \in Seq(Byte)
    BY Zenon, <1>4
  <2>2. n \in Nat /\ x \in Seq(Byte) /\ Glued(h, n, x, piece)
    BY ZenonT(60), <1>1, <1>2, <1>3
  <2>3. /\ h[0] = x
        /\ \A k \in 0..n : h[k] \in Seq(Byte) /\ Len(h[k]) \in Nat /\ Starts(h[n], h[k])
        /\ \A k \in 1..n : /\ h[k] = h[k - 1] \o piece[k]
                           /\ Len(h[k]) = Len(h[k - 1]) + Len(piece[k])
                           /\ At(h[n], Len(h[k - 1]), piece[k])
    BY ZenonT(60), <2>1, <2>2, GlueFacts
  <2> QED
    BY Zenon, <2>3
<1>6. \A k \in 0..n : k <= Len(h[k]) /\ Len(h[k]) <= Len(h[n])
  <2>1. \A k \in 0..n : len[k] \in Nat
    BY ZenonT(60), <1>5
  <2>2. ASSUME NEW k \in 1..n PROVE len[k] >= len[k - 1] + 1
    <3>1. k \in 0..n /\ k - 1 \in 0..n
      BY SMT, <1>1
    <3>2. len[k] = len[k - 1] + (4 + Len(ps[k])) /\ len[k - 1] \in Nat /\ Len(ps[k]) \in Nat
      BY ZenonT(60), <1>4, <1>5, <3>1
    <3> HIDE DEF len
    <3> QED
      BY SMTT(60), <3>2
  <2>3. \A k \in 0..n : k <= len[k] /\ len[k] <= len[n]
    <3> HIDE DEF len
    <3> QED
      BY ZenonT(60), <1>1, <2>1, <2>2, GlueLength
  <2>4. n \in 0..n
    BY SMT, <1>1
  <2> QED
    BY Zenon, <2>3, <2>4
<1>7. 0 \in 0..n /\ n \in 0..n
  BY SMT, <1>1
<1>8. At(w, 0, U32(n))
  <2>1. Starts(w, x)
    BY ZenonT(60), <1>2, <1>5, <1>7
  <2>2. \A k \in 1..Len(x) : 0 + k = k
    BY SMT, <1>3
  <2> QED
    BY ZenonT(60), <2>1, <2>2 DEF Starts, At, x
<1>9. ASSUME NEW k \in 1..n
      PROVE  /\ Len(h[k]) = Len(h[k - 1]) + 4 + Len(ps[k])
             /\ At(w, Len(h[k - 1]), U32(Len(ps[k]))) /\ At(w, Len(h[k - 1]) + 4, ps[k])
  <2>1. k - 1 \in 0..n
    BY SMT, <1>1
  <2>2. Len(h[k - 1]) \in Nat /\ Len(h[k]) = Len(h[k - 1]) + (4 + Len(ps[k]))
    BY ZenonT(60), <1>4, <1>5, <2>1
  <2>3. At(w, Len(h[k - 1]), U32(Len(ps[k])) \o ps[k])
    BY ZenonT(60), <1>2, <1>4, <1>5
  <2>4. At(w, Len(h[k - 1]), U32(Len(ps[k]))) /\ At(w, Len(h[k - 1]) + 4, ps[k])
    <3> DEFINE u == U32(Len(ps[k]))
               p == Len(h[k - 1])
    <3>1. u \in Seq(Byte) /\ Len(u) = 4 /\ ps[k] \in Seq(Byte) /\ p \in Nat /\ At(w, p, u \o ps[k])
      BY ZenonT(60), <1>1, <1>4, <2>2, <2>3
    <3> HIDE DEF u, p
    <3>2. At(w, p, u) /\ At(w, p + Len(u), ps[k])
      BY ZenonT(60), <3>1, AtJoin
    <3> QED
      BY Zenon, <3>1, <3>2 DEF u, p
  <2>5. Len(h[k - 1]) + (4 + Len(ps[k])) = Len(h[k - 1]) + 4 + Len(ps[k])
    <3>1. \A a, b \in Nat : a + (4 + b) = a + 4 + b
      BY SMT
    <3> QED
      BY ZenonT(60), <1>4, <2>2, <3>1
  <2> QED
    BY ZenonT(60), <2>2, <2>4, <2>5
<1>10. w \in Seq(Byte) /\ n <= Len(w) /\ Len(h[0]) = 4 /\ Len(h[n]) = Len(w)
  BY ZenonT(60), <1>2, <1>3, <1>5, <1>6, <1>7
<1>11. \A k \in 0..n : Len(h[k]) \in Nat /\ Len(h[k]) <= Len(w)
  BY ZenonT(60), <1>2, <1>5, <1>6
<1> QED
  BY ZenonT(60), <1>1, <1>8, <1>9, <1>10, <1>11 DEF n, h, w

\* One more element of a sequence that is copied from the front.
LEMMA OneMore ==
  ASSUME NEW T, NEW s \in Seq(T), NEW k \in 1..Len(s)
  PROVE  /\ Append(SubSeq(s, 1, k - 1), s[k]) = SubSeq(s, 1, k)
         /\ SubSeq(s, 1, k - 1) \in Seq(T) /\ s[k] \in T
<1>1. Len(s) \in Nat
  BY Zenon, LenProperties
<1> DEFINE First(m) == SubSeq(s, 1, m)
<1>2. ASSUME NEW m \in 0..Len(s)
      PROVE  /\ First(m) \in Seq(T) /\ Len(First(m)) = m
             /\ \A i \in 1..m : First(m)[i] = s[i]
  <2>1. m \in Nat /\ m \in Int /\ 1 \in Int /\ m - 1 + 1 = m /\ (1 <= m \/ m = 0)
    BY SMT, <1>1
  <2>2. \A i \in 1..m : s[i] \in T /\ 1 + i - 1 = i
    <3> TAKE i \in 1..m
    <3>1. i \in 1..Len(s) /\ 1 + i - 1 = i
      BY SMTT(60), <1>1
    <3> QED
      BY <3>1, ElementOfSeq
  <2>3. /\ First(m) \in Seq(T) /\ Len(First(m)) = IF 1 <= m THEN m - 1 + 1 ELSE 0
        /\ \A i \in 1 .. m - 1 + 1 : First(m)[i] = s[1 + i - 1]
    BY <2>1, <2>2, SubSeqProperties
  <2>4. Len(First(m)) = m
    BY Zenon, <2>1, <2>3
  <2> QED
    BY ZenonT(60), <2>1, <2>2, <2>3, <2>4
<1> HIDE DEF First
<1>3. k \in 0..Len(s) /\ k - 1 \in 0..Len(s) /\ (k - 1) + 1 = k /\ k \in Nat
  BY SMT, <1>1
<1> DEFINE a == First(k - 1)
           b == First(k)
           c == Append(a, s[k])
<1>4. s[k] \in T
  BY ElementOfSeq
<1>5. /\ a \in Seq(T) /\ Len(a) = k - 1 /\ \A i \in 1..(k - 1) : a[i] = s[i]
      /\ b \in Seq(T) /\ Len(b) = k /\ \A i \in 1..k : b[i] = s[i]
  BY ZenonT(60), <1>2, <1>3
<1> HIDE DEF a, b
<1>6. /\ c \in Seq(T) /\ Len(c) = Len(a) + 1 /\ c[Len(a) + 1] = s[k]
      /\ \A i \in 1..Len(a) : c[i] = a[i]
  BY SMTT(60), <1>4, <1>5, AppendProperties
<1> HIDE DEF c
<1>7. Len(c) = Len(b) /\ c[k] = s[k] /\ \A i \in 1..(k - 1) : c[i] = a[i]
  BY ZenonT(60), <1>3, <1>5, <1>6
<1>8. ASSUME NEW i \in 1..Len(b) PROVE c[i] = b[i]
  <2>1. i \in 1..k /\ (i = k \/ i \in 1..(k - 1))
    BY SMTT(60), <1>3, <1>5
  <2> QED
    BY ZenonT(60), <1>5, <1>7, <2>1
<1>9. c = b
  BY ZenonT(60), <1>5, <1>6, <1>7, <1>8, SeqEqual
<1> QED
  BY ZenonT(60), <1>4, <1>5, <1>9 DEF a, b, c, First

\* A turn of the batch loop on a buffer with message m behind its length in front.
LEMMA TakeOne ==
  ASSUME NEW w \in Seq(Byte), NEW c \in 0..Len(w), NEW m \in Seq(Byte), Len(m) <= MaxInt,
         At(w, c, U32(Len(m))), At(w, c + 4, m), c + 4 + Len(m) <= Len(w), NEW ms
  PROVE  TakeMessage([ok |-> TRUE, payloads |-> ms, rest |-> Rest(w, c)]) =
           [ok |-> TRUE, payloads |-> Append(ms, m), rest |-> Rest(w, c + 4 + Len(m))]
<1> DEFINE r == Rest(w, c)
           l == Len(m)
<1>1. Len(w) \in Nat /\ l \in Nat /\ c \in Nat
  BY LenProperties
<1>2. U32(l) \in Seq(Byte) /\ Len(U32(l)) = 4
  BY Zenon, <1>1, U32Type
<1>3. r \in Seq(Byte) /\ Len(r) = Len(w) - c
  BY ZenonT(60), RestBytes
<1>4. /\ c + 0 = c /\ c + 0 + 4 <= Len(w) /\ 0 \in Nat /\ 4 \in Nat
      /\ 4 + l \in 0..(Len(w) - c) /\ Len(w) - c >= 4 /\ (Len(w) - c) - 4 >= l
      /\ c + (4 + l) = c + 4 + l /\ (4 + l) + 1 = 5 + l /\ 4 + l <= Len(w) - c
  BY SMT, <1>1
<1>5. At(r, 0, U32(l))
  <2>1. At(w, c + 0, U32(l)) /\ c + 0 + Len(U32(l)) <= Len(w)
    BY ZenonT(60), <1>2, <1>4
  <2> QED
    BY ZenonT(60), <1>2, <1>4, <2>1, RestAt
<1>6. At(r, 4, m)
  BY ZenonT(60), <1>4, RestAt
<1>7. Get32(r, 1) = l
  <2>1. 0 + 1 = 1
    BY SMT
  <2>2. Get32(r, 0 + 1) = l
    BY ZenonT(60), <1>1, <1>4, <1>5, AtGet32
  <2> QED
    BY ZenonT(60), <2>1, <2>2
<1>8. SubSeq(r, 5, 4 + l) = m
  <2>1. 4 + 1 = 5
    BY SMT
  <2>2. SubSeq(r, 4 + 1, 4 + Len(m)) = m
    BY ZenonT(60), <1>3, <1>4, <1>6, AtSubSeq
  <2> QED
    BY ZenonT(60), <2>1, <2>2
<1>9. SubSeq(r, 5 + l, Len(r)) = Rest(w, c + 4 + l)
  <2>1. SubSeq(r, (4 + l) + 1, Len(r)) = Rest(w, c + (4 + l))
    BY ZenonT(60), <1>4, RestOfRest
  <2> QED
    BY ZenonT(60), <1>4, <2>1
<1>10. Len(r) >= 4 /\ Len(r) - 4 >= Get32(r, 1)
  BY ZenonT(60), <1>3, <1>4, <1>7
<1> DEFINE st == [ok |-> TRUE, payloads |-> ms, rest |-> r]
<1> HIDE DEF r, l
<1>11. st.ok /\ st.payloads = ms /\ st.rest = r
  BY Zenon
<1> HIDE DEF st
<1>12. TakeMessage(st) = [ok |-> TRUE, payloads |-> Append(ms, m), rest |-> Rest(w, c + 4 + l)]
  BY ZenonT(60), <1>7, <1>8, <1>9, <1>10, <1>11 DEF TakeMessage
<1> QED
  BY Zenon, <1>12 DEF st, r, l

\* The state of the batch loop after k messages of a batch.
BatchState(ps, k) ==
  [ok |-> TRUE, payloads |-> SubSeq(ps, 1, k),
   rest |-> Rest(BatchBytes(ps), Len(BatchBuffer(ps)[k]))]

\* One message further.
LEMMA BatchTurn ==
  ASSUME NEW ps \in Seq(Seq(Byte)), Len(BatchBytes(ps)) <= MaxInt, NEW k \in 1..Len(ps)
  PROVE  TakeMessage(BatchState(ps, k - 1)) = BatchState(ps, k)
<1> DEFINE w == BatchBytes(ps)
           n == Len(ps)
           m == ps[k]
           c == Len(BatchBuffer(ps)[k - 1])
           d == Len(BatchBuffer(ps)[k])
           ms == SubSeq(ps, 1, k - 1)
<1>1. n \in Nat
  BY ZenonT(60), BatchLayout
<1>2. k \in 0..n /\ k - 1 \in 0..n
  BY SMT, <1>1
<1>3. /\ w \in Seq(Byte) /\ c \in Nat /\ c <= Len(w) /\ d \in Nat /\ d <= Len(w)
      /\ m \in Seq(Byte) /\ d = c + 4 + Len(m) /\ At(w, c, U32(Len(m))) /\ At(w, c + 4, m)
  BY Zenon, <1>2, BatchLayout
<1>4. Append(ms, m) = SubSeq(ps, 1, k)
  BY Zenon, OneMore
<1> HIDE DEF w, n, m, c, d, ms
<1>5. Len(w) \in Nat /\ Len(m) \in Nat
  BY Zenon, <1>3, LenProperties
<1>6. Len(w) <= MaxInt
  BY Zenon DEF w
<1>7. c \in 0..Len(w) /\ Len(m) <= MaxInt /\ c + 4 + Len(m) <= Len(w)
  BY SMTT(60), <1>3, <1>5, <1>6 DEF MaxInt
<1>8. TakeMessage([ok |-> TRUE, payloads |-> ms, rest |-> Rest(w, c)]) =
        [ok |-> TRUE, payloads |-> Append(ms, m), rest |-> Rest(w, c + 4 + Len(m))]
  BY ZenonT(60), <1>3, <1>7, TakeOne
<1> QED
  BY ZenonT(60), <1>3, <1>4, <1>8 DEF BatchState, w, m, c, d, ms

\* The batch loop of Request::from_frame on the payload of a batch.
LEMMA BatchRun ==
  ASSUME NEW ps \in Seq(Seq(Byte)), Len(BatchBytes(ps)) <= MaxInt
  PROVE  /\ Get32(BatchBytes(ps), 1) = Len(ps)
         /\ \A k \in 0..Len(ps) : BatchLoop(BatchBytes(ps))[k] = BatchState(ps, k)
<1> DEFINE w == BatchBytes(ps)
           n == Len(ps)
           x == [ok |-> TRUE, payloads |-> <<>>, rest |-> SubSeq(w, 5, Len(w))]
           F == [k \in 0..n |-> BatchState(ps, k)]
           N == Get32(w, 1)
           P(g) == g = [k \in 0..N |-> IF k = 0 THEN x ELSE TakeMessage(g[k - 1])]
           L == BatchLoop(w)
<1>1. /\ n \in Nat /\ w \in Seq(Byte) /\ n <= Len(w) /\ At(w, 0, U32(n))
      /\ Len(BatchBuffer(ps)[0]) = 4
  BY Zenon, BatchLayout
<1>2. N = n
  <2>1. n <= MaxInt /\ 0 \in Nat /\ 0 + 1 = 1
    <3>1. Len(w) \in Nat /\ Len(w) <= MaxInt
      BY ZenonT(60), <1>1, LenProperties
    <3> HIDE DEF w, n
    <3> QED
      BY SMT, <1>1, <3>1 DEF MaxInt
  <2>2. Get32(w, 0 + 1) = n
    BY ZenonT(60), <1>1, <2>1, AtGet32
  <2> QED
    BY Zenon, <2>1, <2>2
<1>3. BatchState(ps, 0) = x
  <2>1. SubSeq(ps, 1, 0) = <<>>
    BY SMT
  <2>2. 4 + 1 = 5
    BY SMT
  <2>3. Rest(w, 4) = SubSeq(w, 5, Len(w))
    BY Zenon, <2>2 DEF Rest
  <2> QED
    BY ZenonT(60), <1>1, <2>1, <2>3 DEF BatchState
<1>4. ASSUME NEW k \in 1..n PROVE TakeMessage(BatchState(ps, k - 1)) = BatchState(ps, k)
  BY ZenonT(60), BatchTurn
<1>5. L = CHOOSE g : P(g)
  BY Zenon DEF BatchLoop
<1> HIDE DEF n, x, N, L
<1>6. P(F)
  <2>1. ASSUME NEW k \in 0..n
        PROVE  F[k] = IF k = 0 THEN x ELSE TakeMessage(F[k - 1])
    <3>1. CASE k = 0
      BY Zenon, <1>3, <3>1
    <3>2. CASE k # 0
      <4>1. k \in 1..n /\ k - 1 \in 0..n
        BY SMT, <1>1, <3>2
      <4> QED
        BY ZenonT(60), <1>4, <3>2, <4>1
    <3> QED
      BY ZenonT(60), <3>1, <3>2
  <2>2. F = [k \in 0..n |-> F[k]]
    BY Zenon
  <2> HIDE DEF F
  <2>3. F = [k \in 0..n |-> IF k = 0 THEN x ELSE TakeMessage(F[k - 1])]
    BY Zenon, <2>1, <2>2
  <2> QED
    BY Zenon, <1>2, <2>3
<1>7. P(L)
  <2> HIDE DEF P, F
  <2> QED
    BY Zenon, <1>5, <1>6
<1> DEFINE T == {m \in Nat : m <= n => L[m] = BatchState(ps, m)}
<1>8. 0 \in T
  <2>1. 0 \in 0..n /\ 0 \in Nat
    BY SMT, <1>1
  <2> QED
    BY ZenonT(60), <1>2, <1>3, <1>7, <2>1
<1>9. ASSUME NEW m \in Nat, m \in T PROVE m + 1 \in T
  <2> SUFFICES ASSUME m + 1 <= n PROVE L[m + 1] = BatchState(ps, m + 1)
    OBVIOUS
  <2>1. m <= n /\ m + 1 \in 1..n /\ m + 1 \in 0..n /\ m + 1 # 0 /\ (m + 1) - 1 = m
    BY SMTT(60), <1>1
  <2>2. L[m + 1] = TakeMessage(L[m])
    BY ZenonT(60), <1>2, <1>7, <2>1
  <2>3. L[m] = BatchState(ps, m)
    BY ZenonT(60), <1>9, <2>1
  <2> QED
    BY ZenonT(60), <1>4, <2>1, <2>2, <2>3
<1> HIDE DEF T
<1>10. \A m \in Nat : m \in T
  BY ZenonT(60), <1>8, <1>9, Counting
<1>11. \A k \in 0..n : k \in Nat /\ k <= n
  BY SMT, <1>1
<1>12. \A k \in 0..n : L[k] = BatchState(ps, k)
  BY ZenonT(60), <1>10, <1>11 DEF T
<1> QED
  BY Zenon, <1>2, <1>12 DEF n, N, L

\* Request::from_frame takes the batch that into_frame wrote, whole.
LEMMA BatchUndone ==
  ASSUME NEW ps \in Seq(Seq(Byte)), Len(BatchBytes(ps)) <= MaxInt
  PROVE  BatchOK(BatchBytes(ps)) /\ BatchEnd(BatchBytes(ps)).payloads = ps
<1> DEFINE w == BatchBytes(ps)
           n == Len(ps)
<1>1. /\ n \in Nat /\ w \in Seq(Byte) /\ Len(BatchBuffer(ps)[n]) = Len(w)
      /\ Len(BatchBuffer(ps)[0]) = 4
      /\ \A k \in 0..n : Len(BatchBuffer(ps)[k]) <= Len(w)
  BY Zenon, BatchLayout
<1>2. n \in 0..n /\ 0 \in 0..n
  BY SMT, <1>1
<1>3. BatchEnd(w) = BatchState(ps, n)
  BY ZenonT(60), <1>2, BatchRun DEF BatchEnd
<1>4. Len(w) >= 4 /\ Len(w) \in Nat
  <2>1. 4 <= Len(w) /\ Len(w) \in Nat
    BY ZenonT(60), <1>1, <1>2, LenProperties
  <2> QED
    BY SMT, <2>1
<1>5. SubSeq(ps, 1, n) = ps
  <2> DEFINE B == Seq(Byte)
  <2>1. ps \in Seq(B)
    OBVIOUS
  <2> HIDE DEF B
  <2> QED
    BY SMT, <2>1
<1>6. Rest(w, Len(w)) = <<>>
  <2> HIDE DEF w
  <2>1. Len(w) \in 0..Len(w) /\ Len(w) - Len(w) = 0
    BY SMT, <1>4
  <2>2. Rest(w, Len(w)) \in Seq(Byte) /\ Len(Rest(w, Len(w))) = 0
    BY ZenonT(60), <1>1, <2>1, RestBytes
  <2> QED
    BY <2>2, EmptySeq
<1>7. BatchState(ps, n) = [ok |-> TRUE, payloads |-> ps, rest |-> <<>>]
  BY ZenonT(60), <1>1, <1>5, <1>6 DEF BatchState
<1>8. /\ BatchEnd(w).ok = TRUE /\ BatchEnd(w).rest = <<>> /\ BatchEnd(w).payloads = ps
  <2> HIDE DEF w, n
  <2> QED
    BY SMTT(60), <1>3, <1>7
<1> HIDE DEF w
<1>9. BatchOK(w)
  BY ZenonT(60), <1>4, <1>8 DEF BatchOK
<1> QED
  BY ZenonT(60), <1>8, <1>9 DEF w

\* The fields of a frame made for a message.
LEMMA FrameForFields ==
  ASSUME NEW key, NEW m, NEW payload
  PROVE  LET f == FrameFor(key, m, payload)
         IN  /\ f.api_key = key /\ f.correlation_id = m.correlation_id /\ f.topic = m.topic
             /\ f.partition = m.partition /\ f.payload = payload
  BY SMT DEF FrameFor

\* The payload of a fetch request.
LEMMA FetchPayload ==
  ASSUME NEW o \in 0..MaxInt, NEW b \in 0..MaxInt
  PROVE  LET p == U64(o) \o U32(b)
         IN  Len(p) = 12 /\ Get64(p, 1) = o /\ Get32(p, 9) = b
<1> DEFINE u == U64(o)
           v == U32(b)
           p == u \o v
<1>1. o \in Nat /\ o <= MaxInt /\ b \in Nat /\ b <= MaxInt
  <2>1. \A n \in 0..MaxInt : n \in Nat /\ n <= MaxInt
    BY SMT
  <2> QED
    BY ZenonT(60), <2>1
<1>2. u \in Seq(Byte) /\ Len(u) = 8 /\ v \in Seq(Byte) /\ Len(v) = 4
  BY ZenonT(60), <1>1, U64Type, U32Type
<1> HIDE DEF u, v
<1>3. Len(p) = Len(u) + Len(v) /\ Starts(p, u) /\ At(p, Len(u), v)
  BY ZenonT(60), <1>2, Join
<1> HIDE DEF p
<1>4. 8 + 4 = 12 /\ 8 + 1 = 9 /\ 0 + 1 = 1 /\ 0 \in Nat /\ 8 \in Nat /\ \A k \in 1..8 : 0 + k = k
  BY SMT
<1>5. Len(p) = 12
  BY ZenonT(60), <1>2, <1>3, <1>4
<1>6. At(p, 0, u)
  BY ZenonT(60), <1>2, <1>3, <1>4 DEF At, Starts
<1>7. At(p, 8, v)
  BY ZenonT(60), <1>2, <1>3
<1>8. Get64(p, 0 + 1) = o
  BY ZenonT(60), <1>1, <1>4, <1>6, AtGet64 DEF u
<1>9. Get32(p, 8 + 1) = b
  BY ZenonT(60), <1>1, <1>4, <1>7, AtGet32 DEF v
<1> QED
  BY ZenonT(60), <1>4, <1>5, <1>8, <1>9 DEF p, u, v

\* Request::from_frame undoes into_frame, for the three kinds of request.
THEOREM ParseUndoesIntoFrame ==
  ASSUME NEW r \in Request, r.type # "Frame", Encodable(ScriptFrame(r))
  PROVE  ~BadRequest(ScriptFrame(r)) /\ RequestOf(ScriptFrame(r)) = r
<1> DEFINE f == ScriptFrame(r)
<1>1. \/ /\ r = [type |-> "Produce", correlation_id |-> r.correlation_id, topic |-> r.topic,
                 partition |-> r.partition, payload |-> r.payload]
         /\ r.type = "Produce"
      \/ /\ r = [type |-> "ProduceBatch", correlation_id |-> r.correlation_id,
                 topic |-> r.topic, partition |-> r.partition, payloads |-> r.payloads]
         /\ r.type = "ProduceBatch" /\ r.payloads \in Seq(Seq(Byte))
      \/ /\ r = [type |-> "Fetch", correlation_id |-> r.correlation_id, topic |-> r.topic,
                 partition |-> r.partition, offset |-> r.offset, max_bytes |-> r.max_bytes]
         /\ r.type = "Fetch" /\ r.offset \in 0..MaxInt /\ r.max_bytes \in 0..MaxInt
  <2> DEFINE B == Seq(Byte)
             C == Seq(B)
             I == 0..MaxInt
             X == Frame
  <2>1. r \in [type : {"Produce"}, correlation_id : I, topic : B, partition : I, payload : B]
         \cup [type : {"ProduceBatch"}, correlation_id : I, topic : B, partition : I,
               payloads : C]
         \cup [type : {"Fetch"}, correlation_id : I, topic : B, partition : I,
               offset : I, max_bytes : I]
         \cup [type : {"Frame"}, correlation_id : I, frame : X]
    BY ZenonT(60) DEF Request
  <2> HIDE DEF B, C, I, X
  <2>2. \/ /\ r = [type |-> "Produce", correlation_id |-> r.correlation_id, topic |-> r.topic,
                   partition |-> r.partition, payload |-> r.payload]
           /\ r.type = "Produce"
        \/ /\ r = [type |-> "ProduceBatch", correlation_id |-> r.correlation_id,
                   topic |-> r.topic, partition |-> r.partition, payloads |-> r.payloads]
           /\ r.type = "ProduceBatch" /\ r.payloads \in C
        \/ /\ r = [type |-> "Fetch", correlation_id |-> r.correlation_id, topic |-> r.topic,
                   partition |-> r.partition, offset |-> r.offset, max_bytes |-> r.max_bytes]
           /\ r.type = "Fetch" /\ r.offset \in I /\ r.max_bytes \in I
    BY SMTT(60), <2>1
  <2> QED
    BY ZenonT(60), <2>2 DEF C, B, I
<1>2. CASE r.type = "Produce"
  <2>1. f = FrameFor("Produce", r, r.payload)
    BY ZenonT(60), <1>2 DEF ScriptFrame, RequestFrame, ProduceFrame
  <2>2. /\ f.api_key = "Produce" /\ f.correlation_id = r.correlation_id /\ f.topic = r.topic
        /\ f.partition = r.partition /\ f.payload = r.payload
    BY SMTT(60), <2>1, FrameForFields
  <2> HIDE DEF f
  <2>3. ~BadRequest(f)
    BY SMTT(60), <2>2 DEF BadRequest
  <2>4. RequestOf(f) = [type |-> "Produce", correlation_id |-> f.correlation_id,
                        topic |-> f.topic, partition |-> f.partition, payload |-> f.payload]
    BY ZenonT(60), <2>2 DEF RequestOf
  <2>5. r = [type |-> "Produce", correlation_id |-> r.correlation_id, topic |-> r.topic,
             partition |-> r.partition, payload |-> r.payload]
    BY SMTT(60), <1>1, <1>2
  <2> QED
    BY ZenonT(60), <2>2, <2>3, <2>4, <2>5 DEF f
<1>3. CASE r.type = "ProduceBatch"
  <2> DEFINE w == BatchBytes(r.payloads)
  <2>1. f = FrameFor("ProduceBatch", r, w)
    BY ZenonT(60), <1>3 DEF ScriptFrame, RequestFrame, BatchFrame
  <2>2. /\ f.api_key = "ProduceBatch" /\ f.correlation_id = r.correlation_id
        /\ f.topic = r.topic /\ f.partition = r.partition /\ f.payload = w
    BY SMTT(60), <2>1, FrameForFields
  <2>3. /\ r.payloads \in Seq(Seq(Byte))
        /\ r = [type |-> "ProduceBatch", correlation_id |-> r.correlation_id,
                topic |-> r.topic, partition |-> r.partition, payloads |-> r.payloads]
    BY SMTT(60), <1>1, <1>3
  <2>4. Len(w) <= MaxInt
    <3>1. f.payload \in Seq(Byte) /\ f.topic \in Seq(Byte)
      BY DEF Encodable, Frame
    <3>2. Len(f.payload) \in Nat /\ Len(f.topic) \in Nat
      BY ZenonT(60), <3>1, LenProperties
    <3>3. BodyLen(f) = 17 + Len(f.topic) + Len(f.payload)
      BY ZenonT(60), <3>2, BodyLenSum
    <3>4. BodyLen(f) <= MaxInt
      BY DEF Encodable
    <3> HIDE DEF f, w
    <3> QED
      <4>1. \A t, n \in Nat : 17 + t + n <= MaxInt => n <= MaxInt
        BY SMTT(60) DEF MaxInt
      <4> QED
        BY ZenonT(60), <2>2, <3>2, <3>3, <3>4, <4>1
  <2>5. BatchOK(w) /\ BatchEnd(w).payloads = r.payloads
    BY ZenonT(60), <2>3, <2>4, BatchUndone
  <2> HIDE DEF f, w
  <2>6. ~BadRequest(f)
    BY SMTT(60), <2>2, <2>5 DEF BadRequest
  <2>7. RequestOf(f) = [type |-> "ProduceBatch", correlation_id |-> f.correlation_id,
                        topic |-> f.topic, partition |-> f.partition,
                        payloads |-> BatchEnd(f.payload).payloads]
    BY SMT, <2>2 DEF RequestOf
  <2> QED
    BY ZenonT(60), <2>2, <2>3, <2>5, <2>6, <2>7 DEF f
<1>4. CASE r.type = "Fetch"
  <2> DEFINE w == U64(r.offset) \o U32(r.max_bytes)
  <2>1. f = FrameFor("Fetch", r, w)
    BY ZenonT(60), <1>4 DEF ScriptFrame, RequestFrame, FetchFrame
  <2> HIDE DEF f, w
  <2>2. /\ f.api_key = "Fetch" /\ f.correlation_id = r.correlation_id
        /\ f.topic = r.topic /\ f.partition = r.partition /\ f.payload = w
    BY SMT, <2>1, FrameForFields
  <2>3. /\ r.offset \in 0..MaxInt /\ r.max_bytes \in 0..MaxInt
        /\ r = [type |-> "Fetch", correlation_id |-> r.correlation_id, topic |-> r.topic,
                partition |-> r.partition, offset |-> r.offset, max_bytes |-> r.max_bytes]
    <3> DEFINE I == 0..MaxInt
    <3> HIDE DEF I
    <3>1. /\ r.offset \in I /\ r.max_bytes \in I
          /\ r = [type |-> "Fetch", correlation_id |-> r.correlation_id, topic |-> r.topic,
                  partition |-> r.partition, offset |-> r.offset, max_bytes |-> r.max_bytes]
      BY SMT, <1>1, <1>4 DEF I
    <3> QED
      BY ZenonT(60), <3>1 DEF I
  <2>4. Len(w) = 12 /\ Get64(w, 1) = r.offset /\ Get32(w, 9) = r.max_bytes
    BY ZenonT(60), <2>3, FetchPayload DEF w
  <2>5. ~BadRequest(f)
    BY SMTT(60), <2>2, <2>4 DEF BadRequest
  <2>6. RequestOf(f) = [type |-> "Fetch", correlation_id |-> f.correlation_id,
                        topic |-> f.topic, partition |-> f.partition,
                        offset |-> Get64(f.payload, 1), max_bytes |-> Get32(f.payload, 9)]
    BY SMT, <2>2 DEF RequestOf
  <2> QED
    BY ZenonT(60), <2>2, <2>3, <2>4, <2>5, <2>6 DEF f
<1> QED
  BY ZenonT(60), <1>1, <1>2, <1>3, <1>4

-----------------------------------------------------------------------------
\* Records.

Optional == {Absent} \cup Seq(Byte)

\* What Record::encode writes for a key or a value.
LEMMA OptType ==
  ASSUME NEW x \in Optional
  PROVE  OptLen(x) \in Nat /\ OptBytes(x) \in Seq(Byte) /\ Len(OptBytes(x)) = 4 + OptLen(x)
<1>1. CASE x = Absent
  <2>1. OptLen(x) = 0 /\ OptBytes(x) = MaxU32
    BY Zenon, <1>1 DEF OptLen, OptBytes
  <2>2. MaxU32 \in Seq(Byte) /\ Len(MaxU32) = 4
    BY SMT DEF MaxU32, Byte
  <2> QED
    BY SMTT(60), <2>1, <2>2
<1>2. CASE x # Absent
  <2>1. x \in Seq(Byte)
    BY Zenon, <1>2 DEF Optional
  <2>2. OptLen(x) = Len(x) /\ OptBytes(x) = U32(Len(x)) \o x
    BY ZenonT(60), <1>2 DEF OptLen, OptBytes
  <2>3. Len(x) \in Nat
    BY ZenonT(60), <2>1, LenProperties
  <2>4. U32(Len(x)) \in Seq(Byte) /\ Len(U32(Len(x))) = 4
    BY ZenonT(60), <2>3, U32Type
  <2>5. U32(Len(x)) \o x \in Seq(Byte) /\ Len(U32(Len(x)) \o x) = Len(U32(Len(x))) + Len(x)
    BY ZenonT(60), <2>1, <2>4, Join
  <2> QED
    BY ZenonT(60), <2>2, <2>3, <2>4, <2>5
<1> QED
  BY ZenonT(60), <1>1, <1>2

\* No length below 2^31 is taken for u32::MAX.
LEMMA LengthNotMax ==
  ASSUME NEW n \in Nat, n <= MaxInt
  PROVE  U32(n) # MaxU32
<1>1. U32(n)[1] = Hi(Upper(n))
  BY ZenonT(60), U32Type
<1>2. Hi(Upper(n)) # 255
  BY SMT DEF Hi, Upper, MaxInt
<1>3. MaxU32[1] = 255
  BY SMT DEF MaxU32
<1> QED
  BY SMTT(60), <1>1, <1>2, <1>3

\* Record::decode reads a key or a value back, None included.
LEMMA OptUndone ==
  ASSUME NEW x \in Optional, NEW e \in Seq(Byte), NEW p \in Nat, At(e, p, OptBytes(x)),
         p + 4 + OptLen(x) <= Len(e), Len(e) <= MaxInt
  PROVE  OptAt(e, p + 1) = x
<1> DEFINE s == OptBytes(x)
           l == OptLen(x)
<1>1. l \in Nat /\ s \in Seq(Byte) /\ Len(s) = 4 + l /\ Len(e) \in Nat
  BY ZenonT(60), OptType, LenProperties
<1>2. /\ p + (4 + l) = p + 4 + l /\ (p + 1) + 3 = p + 4 /\ p + 4 <= Len(e)
      /\ (p + 1) + 4 = (p + 4) + 1 /\ (p + 1) + 3 + l = (p + 4) + l /\ p + 4 \in Nat
      /\ l <= MaxInt /\ (p + 4) + l <= Len(e)
  <2> HIDE DEF l
  <2>1. p + 4 + l <= Len(e)
    BY DEF l
  <2> QED
    BY SMTT(60), <1>1, <2>1 DEF MaxInt
<1>3. CASE x = Absent
  <2>1. s = MaxU32 /\ Len(MaxU32) = 4 /\ MaxU32 \in Seq(Byte)
    <3>1. Len(MaxU32) = 4
      BY SMT DEF MaxU32
    <3> QED
      BY ZenonT(60), <1>1, <1>3, <3>1 DEF OptBytes
  <2>2. SubSeq(e, p + 1, p + Len(MaxU32)) = MaxU32
    BY ZenonT(60), <1>2, <2>1, AtSubSeq
  <2>3. SubSeq(e, p + 1, (p + 1) + 3) = MaxU32
    BY ZenonT(60), <1>2, <2>1, <2>2
  <2> QED
    BY ZenonT(60), <1>3, <2>3 DEF OptAt
<1>4. CASE x # Absent
  <2> DEFINE u == U32(Len(x))
  <2>1. x \in Seq(Byte) /\ s = u \o x /\ l = Len(x)
    BY ZenonT(60), <1>4 DEF Optional, OptLen, OptBytes
  <2>2. u \in Seq(Byte) /\ Len(u) = 4
    BY ZenonT(60), <1>1, <2>1, U32Type
  <2>3. u # MaxU32
    BY ZenonT(60), <1>1, <1>2, <2>1, LengthNotMax
  <2>4. At(e, p, u) /\ At(e, p + 4, x)
    BY ZenonT(60), <2>1, <2>2, AtJoin
  <2>5. SubSeq(e, p + 1, p + Len(u)) = u
    BY ZenonT(60), <1>2, <2>2, <2>4, AtSubSeq
  <2>6. SubSeq(e, p + 1, (p + 1) + 3) # MaxU32
    BY ZenonT(60), <1>2, <2>2, <2>3, <2>5
  <2>7. Get32(e, p + 1) = l
    BY ZenonT(60), <1>1, <1>2, <2>1, <2>4, AtGet32
  <2>8. SubSeq(e, (p + 4) + 1, (p + 4) + Len(x)) = x
    BY ZenonT(60), <1>2, <2>1, <2>4, AtSubSeq
  <2>9. SubSeq(e, (p + 1) + 4, (p + 1) + 3 + Get32(e, p + 1)) = x
    BY ZenonT(60), <1>2, <2>1, <2>7, <2>8
  <2> QED
    BY ZenonT(60), <2>6, <2>9 DEF OptAt
<1> QED
  BY ZenonT(60), <1>3, <1>4

\* The fields of a record.
LEMMA RecordFields ==
  ASSUME NEW r \in StoredRecord
  PROVE  /\ r.offset \in Nat /\ r.offset <= MaxInt
         /\ r.timestamp_ms \in Nat /\ r.timestamp_ms <= MaxInt
         /\ r.key \in Optional /\ r.value \in Optional
         /\ r = [offset |-> r.offset, timestamp_ms |-> r.timestamp_ms,
                 key |-> r.key, value |-> r.value]
<1> DEFINE I == 0..MaxInt
           O == Optional
<1>1. r \in [offset : I, timestamp_ms : I, key : O, value : O]
  BY Zenon DEF StoredRecord, Optional
<1>2. \A n \in I : n \in Nat /\ n <= MaxInt
  BY SMTT(60)
<1> HIDE DEF I, O
<1>3. /\ r.offset \in I /\ r.timestamp_ms \in I /\ r.key \in O /\ r.value \in O
      /\ r = [offset |-> r.offset, timestamp_ms |-> r.timestamp_ms,
              key |-> r.key, value |-> r.value]
  BY SMTT(60), <1>1
<1> QED
  BY ZenonT(60), <1>2, <1>3 DEF O

\* How long Record::encode makes a record.
RecordSize(r) == 28 + OptLen(r.key) + OptLen(r.value)

\* Where Record::encode puts the fields of a record, wherever the record is.
LEMMA RecordLayout ==
  ASSUME NEW r \in StoredRecord
  PROVE  /\ RecordBytes(r) \in Seq(Byte) /\ Len(RecordBytes(r)) = RecordSize(r)
         /\ OptLen(r.key) \in Nat /\ OptLen(r.value) \in Nat
         /\ RecordSize(r) \in Nat /\ RecordSize(r) >= 28
         /\ \A e : \A p \in Nat : At(e, p, RecordBytes(r)) =>
              /\ At(e, p, U32(RecordSize(r)))
              /\ At(e, p + 4, U64(r.offset)) /\ At(e, p + 12, U64(r.timestamp_ms))
              /\ At(e, p + 20, OptBytes(r.key))
              /\ At(e, p + 24 + OptLen(r.key), OptBytes(r.value))
<1> DEFINE kl == OptLen(r.key)
           vl == OptLen(r.value)
           z == RecordSize(r)
           a == U32(z)
           b == U64(r.offset)
           c == U64(r.timestamp_ms)
           d == OptBytes(r.key)
           g == OptBytes(r.value)
<1>1. /\ r.offset \in Nat /\ r.timestamp_ms \in Nat /\ r.key \in Optional
      /\ r.value \in Optional
  BY ZenonT(60), RecordFields
<1>2. /\ kl \in Nat /\ d \in Seq(Byte) /\ Len(d) = 4 + kl
      /\ vl \in Nat /\ g \in Seq(Byte) /\ Len(g) = 4 + vl
  BY ZenonT(60), <1>1, OptType
<1>3. \A x, y \in Nat : /\ 4 + 8 + 8 + 4 + x + 4 + y = 28 + x + y
                        /\ 28 + x + y \in Nat /\ 28 + x + y >= 28
                        /\ 4 + 8 = 12 /\ 12 + 8 = 20 /\ 20 + (4 + x) = 24 + x
                        /\ (24 + x) + (4 + y) = 28 + x + y
  BY SMT
<1>4. z = 28 + kl + vl /\ z \in Nat /\ z >= 28
  BY ZenonT(60), <1>2, <1>3 DEF RecordSize
<1>5. RecordBytes(r) = (((a \o b) \o c) \o d) \o g
  BY ZenonT(60), <1>2, <1>3, <1>4 DEF RecordBytes
<1> HIDE DEF kl, vl, z
<1>6. /\ a \in Seq(Byte) /\ Len(a) = 4 /\ b \in Seq(Byte) /\ Len(b) = 8
      /\ c \in Seq(Byte) /\ Len(c) = 8
  BY ZenonT(60), <1>1, <1>4, U32Type, U64Type
<1> HIDE DEF a, b, c, d, g
<1> DEFINE ab == a \o b
           abc == ab \o c
           abcd == abc \o d
           all == abcd \o g
<1>7. ab \in Seq(Byte) /\ Len(ab) = 12
  <2>1. ab \in Seq(Byte) /\ Len(ab) = Len(a) + Len(b)
    BY ZenonT(60), <1>6, Join
  <2> QED
    BY ZenonT(60), <1>2, <1>3, <1>6, <2>1
<1> HIDE DEF ab
<1>8. abc \in Seq(Byte) /\ Len(abc) = 20
  <2>1. abc \in Seq(Byte) /\ Len(abc) = Len(ab) + Len(c)
    BY ZenonT(60), <1>6, <1>7, Join
  <2> QED
    BY ZenonT(60), <1>2, <1>3, <1>6, <1>7, <2>1
<1> HIDE DEF abc
<1>9. abcd \in Seq(Byte) /\ Len(abcd) = 24 + kl
  <2>1. abcd \in Seq(Byte) /\ Len(abcd) = Len(abc) + Len(d)
    BY ZenonT(60), <1>2, <1>8, Join
  <2> QED
    BY ZenonT(60), <1>2, <1>3, <1>8, <2>1
<1> HIDE DEF abcd
<1>10. all \in Seq(Byte) /\ Len(all) = z
  <2>1. all \in Seq(Byte) /\ Len(all) = Len(abcd) + Len(g)
    BY ZenonT(60), <1>2, <1>9, Join
  <2>2. (24 + kl) + (4 + vl) = z
    BY ZenonT(60), <1>2, <1>3, <1>4
  <2> QED
    BY ZenonT(60), <1>2, <1>9, <2>1, <2>2
<1>11. RecordBytes(r) = all
  BY Zenon, <1>5 DEF ab, abc, abcd
<1>12. ASSUME NEW e, NEW p \in Nat, At(e, p, all)
       PROVE  /\ At(e, p, a) /\ At(e, p + 4, b) /\ At(e, p + 12, c) /\ At(e, p + 20, d)
              /\ At(e, p + (24 + kl), g)
  <2>1. At(e, p, abcd) /\ At(e, p + (24 + kl), g)
    BY ZenonT(60), <1>2, <1>9, <1>12, AtJoin
  <2>2. At(e, p, abc) /\ At(e, p + 20, d)
    BY ZenonT(60), <1>2, <1>8, <2>1, AtJoin DEF abcd
  <2>3. At(e, p, ab) /\ At(e, p + 12, c)
    BY ZenonT(60), <1>6, <1>7, <2>2, AtJoin DEF abc
  <2>4. At(e, p, a) /\ At(e, p + 4, b)
    BY ZenonT(60), <1>6, <2>3, AtJoin DEF ab
  <2> QED
    BY ZenonT(60), <2>1, <2>2, <2>3, <2>4
<1> HIDE DEF all
<1>13. \A p \in Nat : p + (24 + kl) = p + 24 + kl
  BY SMTT(60), <1>2
<1>14. ASSUME NEW e, NEW p \in Nat, At(e, p, RecordBytes(r))
       PROVE  /\ At(e, p, a) /\ At(e, p + 4, b) /\ At(e, p + 12, c) /\ At(e, p + 20, d)
              /\ At(e, p + 24 + kl, g)
  BY ZenonT(60), <1>11, <1>12, <1>13, <1>14
<1> QED
  BY ZenonT(60), <1>2, <1>4, <1>10, <1>11, <1>14 DEF a, b, c, d, g, kl, vl, z

\* Record::decode finds the record that Record::encode wrote in front, whole.
LEMMA RecordUndone ==
  ASSUME NEW r \in StoredRecord, NEW e \in Seq(Byte), At(e, 0, RecordBytes(r)),
         RecordSize(r) <= Len(e), Len(e) <= MaxInt
  PROVE  HasRecord(e) /\ RecordOf(e) = r /\ RecordEnd(e) = RecordSize(r)
<1> DEFINE kl == OptLen(r.key)
           vl == OptLen(r.value)
           z == RecordSize(r)
<1>1. /\ r.offset \in Nat /\ r.offset <= MaxInt
      /\ r.timestamp_ms \in Nat /\ r.timestamp_ms <= MaxInt
      /\ r.key \in Optional /\ r.value \in Optional
      /\ r = [offset |-> r.offset, timestamp_ms |-> r.timestamp_ms,
              key |-> r.key, value |-> r.value]
  BY ZenonT(60), RecordFields
<1>2. kl \in Nat /\ vl \in Nat /\ z \in Nat /\ z >= 28 /\ Len(e) \in Nat /\ z = 28 + kl + vl
  BY ZenonT(60), RecordLayout, LenProperties DEF RecordSize
<1>3. 0 \in Nat /\ 0 + 1 = 1 /\ 4 + 1 = 5 /\ 12 + 1 = 13 /\ 20 + 1 = 21
      /\ 0 + 4 = 4 /\ 0 + 12 = 12 /\ 0 + 20 = 20 /\ 0 + 24 = 24
      /\ 4 \in Nat /\ 12 \in Nat /\ 20 \in Nat
  BY SMT
<1>4. /\ At(e, 0, U32(z)) /\ At(e, 4, U64(r.offset)) /\ At(e, 12, U64(r.timestamp_ms))
      /\ At(e, 20, OptBytes(r.key)) /\ At(e, 24 + kl, OptBytes(r.value))
  <2>1. /\ At(e, 0, U32(z)) /\ At(e, 0 + 4, U64(r.offset))
        /\ At(e, 0 + 12, U64(r.timestamp_ms)) /\ At(e, 0 + 20, OptBytes(r.key))
        /\ At(e, 0 + 24 + kl, OptBytes(r.value))
    BY ZenonT(60), <1>3, RecordLayout
  <2> QED
    BY ZenonT(60), <1>3, <2>1
<1> HIDE DEF kl, vl, z
<1>5. /\ z <= MaxInt /\ 20 + 4 + kl <= Len(e) /\ (24 + kl) + 4 + vl <= Len(e)
      /\ (24 + kl) + 1 = 25 + kl /\ 24 + kl \in Nat /\ z \in 28..Len(e) /\ Len(e) >= 4
  <2>1. z <= Len(e)
    BY DEF z
  <2> QED
    BY SMTT(60), <1>2, <2>1 DEF MaxInt
<1>6. Get32(e, 1) = z
  <2>1. Get32(e, 0 + 1) = z
    BY ZenonT(60), <1>2, <1>3, <1>4, <1>5, AtGet32
  <2> QED
    BY ZenonT(60), <1>3, <2>1
<1>7. Get64(e, 5) = r.offset
  <2>1. Get64(e, 4 + 1) = r.offset
    BY ZenonT(60), <1>1, <1>3, <1>4, AtGet64
  <2> QED
    BY Zenon, <1>3, <2>1
<1>8. Get64(e, 13) = r.timestamp_ms
  <2>1. Get64(e, 12 + 1) = r.timestamp_ms
    BY ZenonT(60), <1>1, <1>3, <1>4, AtGet64
  <2> QED
    BY Zenon, <1>3, <2>1
<1>9. OptAt(e, 21) = r.key
  <2>1. OptAt(e, 20 + 1) = r.key
    BY ZenonT(60), <1>1, <1>3, <1>4, <1>5, OptUndone DEF kl
  <2> QED
    BY Zenon, <1>3, <2>1
<1>10. OptAt(e, 25 + OptLen(OptAt(e, 21))) = r.value
  <2>1. OptAt(e, (24 + kl) + 1) = r.value
    BY ZenonT(60), <1>1, <1>4, <1>5, OptUndone DEF vl
  <2> QED
    BY ZenonT(60), <1>5, <1>9, <2>1 DEF kl
<1>11. RecordOf(e) = r
  BY ZenonT(60), <1>1, <1>7, <1>8, <1>9, <1>10 DEF RecordOf
<1>12. RecordEnd(e) = z
  BY ZenonT(60), <1>2, <1>11 DEF RecordEnd, kl, vl
<1>13. HasRecord(e)
  BY ZenonT(60), <1>5, <1>6 DEF HasRecord
<1> QED
  BY ZenonT(60), <1>11, <1>12, <1>13 DEF z

\* The records of a fetch payload, encoded.
RecordPiece(rs) == [k \in 1..Len(rs) |-> RecordBytes(rs[k])]

\* The buffer handle_fetch's response fills.
LEMMA FetchGlued ==
  ASSUME NEW rs, Len(rs) \in Nat
  PROVE  Glued(FetchBuffer(rs), Len(rs), U32(Len(rs)), RecordPiece(rs))
<1> DEFINE n == Len(rs)
           x == U32(n)
           P(h) == h = [k \in 0..n |-> IF k = 0 THEN x ELSE h[k - 1] \o RecordBytes(rs[k])]
<1>1. ASSUME NEW h PROVE P(h) <=> Glued(h, n, x, RecordPiece(rs))
  <2>1. ASSUME NEW k \in 0..n
        PROVE  (IF k = 0 THEN x ELSE h[k - 1] \o RecordBytes(rs[k])) =
               (IF k = 0 THEN x ELSE h[k - 1] \o RecordPiece(rs)[k])
    <3>1. k # 0 => k \in 1..n
      BY SMT
    <3> QED
      BY ZenonT(60), <3>1 DEF RecordPiece
  <2>2. [k \in 0..n |-> IF k = 0 THEN x ELSE h[k - 1] \o RecordBytes(rs[k])] =
        [k \in 0..n |-> IF k = 0 THEN x ELSE h[k - 1] \o RecordPiece(rs)[k]]
    BY ZenonT(60), <2>1
  <2> QED
    BY ZenonT(60), <2>2 DEF Glued
<1>2. FetchBuffer(rs) = CHOOSE h : P(h)
  BY ZenonT(60) DEF FetchBuffer
<1>3. \E h : Glued(h, n, x, RecordPiece(rs))
  BY Zenon, GlueExists
<1> HIDE DEF P
<1>4. \E h : P(h)
  BY Zenon, <1>1, <1>3
<1>5. P(FetchBuffer(rs))
  BY Zenon, <1>2, <1>4
<1> QED
  BY Zenon, <1>1, <1>5

\* Where the count and the records of a fetch payload are.
LEMMA FetchLayout ==
  ASSUME NEW rs \in Seq(StoredRecord)
  PROVE  LET n == Len(rs)
             w == FetchBytes(rs)
             e(k) == Len(FetchBuffer(rs)[k])
         IN  /\ n \in Nat /\ w \in Seq(Byte) /\ n <= Len(w)
             /\ e(0) = 4 /\ e(n) = Len(w) /\ At(w, 0, U32(n))
             /\ \A k \in 0..n : e(k) \in Nat /\ e(k) <= Len(w)
             /\ \A k \in 1..n : /\ rs[k] \in StoredRecord /\ e(k) = e(k - 1) + RecordSize(rs[k])
                                /\ At(w, e(k - 1), RecordBytes(rs[k]))
<1> DEFINE n == Len(rs)
           h == FetchBuffer(rs)
           x == U32(n)
           piece == RecordPiece(rs)
           w == FetchBytes(rs)
           len == [k \in 0..n |-> Len(h[k])]
<1>1. n \in Nat /\ \A k \in 1..n : rs[k] \in StoredRecord
  BY SMTT(60), LenProperties, ElementOfSeq
<1>2. Glued(h, n, x, piece) /\ w = h[n]
  BY ZenonT(60), <1>1, FetchGlued DEF FetchBytes
<1>3. x \in Seq(Byte) /\ Len(x) = 4
  BY ZenonT(60), <1>1, U32Type
<1>4. ASSUME NEW k \in 1..n
      PROVE  /\ piece[k] = RecordBytes(rs[k]) /\ piece[k] \in Seq(Byte)
             /\ Len(piece[k]) = RecordSize(rs[k])
             /\ RecordSize(rs[k]) \in Nat /\ RecordSize(rs[k]) >= 28
  <2>1. rs[k] \in StoredRecord
    BY Zenon, <1>1
  <2>2. piece[k] = RecordBytes(rs[k])
    BY Zenon DEF RecordPiece
  <2> QED
    BY ZenonT(60), <2>1, <2>2, RecordLayout
<1> HIDE DEF n, h, x, piece, w
<1>5. /\ h[0] = x
      /\ \A k \in 0..n : h[k] \in Seq(Byte) /\ Len(h[k]) \in Nat /\ Starts(h[n], h[k])
      /\ \A k \in 1..n : /\ Len(h[k]) = Len(h[k - 1]) + Len(piece[k])
                         /\ At(h[n], Len(h[k - 1]), piece[k])
  <2>1. \A k \in 1..n : piece[k] \in Seq(Byte)
    BY ZenonT(60), <1>4
  <2>2. n \in Nat /\ x \in Seq(Byte) /\ Glued(h, n, x, piece)
    BY ZenonT(60), <1>1, <1>2, <1>3
  <2>3. /\ h[0] = x
        /\ \A k \in 0..n : h[k] \in Seq(Byte) /\ Len(h[k]) \in Nat /\ Starts(h[n], h[k])
        /\ \A k \in 1..n : /\ h[k] = h[k - 1] \o piece[k]
                           /\ Len(h[k]) = Len(h[k - 1]) + Len(piece[k])
                           /\ At(h[n], Len(h[k - 1]), piece[k])
    BY ZenonT(60), <2>1, <2>2, GlueFacts
  <2> QED
    BY ZenonT(60), <2>3
<1>6. \A k \in 0..n : k <= Len(h[k]) /\ Len(h[k]) <= Len(h[n])
  <2>1. \A k \in 0..n : len[k] \in Nat
    BY ZenonT(60), <1>5
  <2>2. ASSUME NEW k \in 1..n PROVE len[k] >= len[k - 1] + 1
    <3>1. k \in 0..n /\ k - 1 \in 0..n
      BY SMTT(60), <1>1
    <3> DEFINE z == RecordSize(rs[k])
    <3>2. len[k] = len[k - 1] + z /\ len[k - 1] \in Nat /\ z \in Nat /\ z >= 28
      BY ZenonT(60), <1>4, <1>5, <3>1
    <3> HIDE DEF len, z
    <3> QED
      BY SMTT(60), <3>2
  <2>3. \A k \in 0..n : k <= len[k] /\ len[k] <= len[n]
    <3> HIDE DEF len
    <3> QED
      BY ZenonT(60), <1>1, <2>1, <2>2, GlueLength
  <2>4. n \in 0..n
    BY SMTT(60), <1>1
  <2> QED
    BY ZenonT(60), <2>3, <2>4
<1>7. 0 \in 0..n /\ n \in 0..n
  BY SMT, <1>1
<1>8. At(w, 0, U32(n))
  <2>1. Starts(w, x)
    BY ZenonT(60), <1>2, <1>5, <1>7
  <2>2. \A k \in 1..Len(x) : 0 + k = k
    BY SMTT(60), <1>3
  <2> QED
    BY ZenonT(60), <2>1, <2>2 DEF Starts, At, x
<1>9. ASSUME NEW k \in 1..n
      PROVE  /\ Len(h[k]) = Len(h[k - 1]) + RecordSize(rs[k])
             /\ At(w, Len(h[k - 1]), RecordBytes(rs[k]))
  BY ZenonT(60), <1>2, <1>4, <1>5
<1>10. w \in Seq(Byte) /\ n <= Len(w) /\ Len(h[0]) = 4 /\ Len(h[n]) = Len(w)
  BY ZenonT(60), <1>2, <1>3, <1>5, <1>6, <1>7
<1>11. \A k \in 0..n : Len(h[k]) \in Nat /\ Len(h[k]) <= Len(w)
  BY ZenonT(60), <1>2, <1>5, <1>6
<1> QED
  BY ZenonT(60), <1>1, <1>8, <1>9, <1>10, <1>11 DEF n, h, w

\* The state of a reader of a fetch payload after k records.
RecordState(rs, k) ==
  [records |-> SubSeq(rs, 1, k), rest |-> Rest(FetchBytes(rs), Len(FetchBuffer(rs)[k]))]

\* One record further.
LEMMA RecordTurn ==
  ASSUME NEW rs \in Seq(StoredRecord), Len(FetchBytes(rs)) <= MaxInt, NEW k \in 1..Len(rs)
  PROVE  TakeRecord(RecordState(rs, k - 1)) = RecordState(rs, k)
<1> DEFINE w == FetchBytes(rs)
           n == Len(rs)
           r == rs[k]
           z == RecordSize(r)
           c == Len(FetchBuffer(rs)[k - 1])
           d == Len(FetchBuffer(rs)[k])
           ms == SubSeq(rs, 1, k - 1)
           e == Rest(w, c)
           st == RecordState(rs, k - 1)
<1>1. n \in Nat
  BY ZenonT(60), FetchLayout
<1>2. k \in 0..n /\ k - 1 \in 0..n
  BY SMT, <1>1
<1>3. /\ w \in Seq(Byte) /\ c \in Nat /\ c <= Len(w) /\ d \in Nat /\ d <= Len(w)
      /\ r \in StoredRecord /\ d = c + z /\ At(w, c, RecordBytes(r))
  BY ZenonT(60), <1>2, FetchLayout
<1>4. Append(ms, r) = SubSeq(rs, 1, k)
  BY ZenonT(60), OneMore
<1>5. z \in Nat /\ RecordBytes(r) \in Seq(Byte) /\ Len(RecordBytes(r)) = z
  BY ZenonT(60), <1>3, RecordLayout
<1>6. Len(w) \in Nat /\ Len(w) <= MaxInt
  BY ZenonT(60), <1>3, LenProperties
<1>7. st = [records |-> ms, rest |-> e]
  BY Zenon DEF RecordState
<1>8. RecordState(rs, k) = [records |-> SubSeq(rs, 1, k), rest |-> Rest(w, d)]
  BY Zenon DEF RecordState
<1> HIDE DEF w, n, r, z, c, d, ms, st
<1>9. /\ c \in 0..Len(w) /\ c + 0 = c /\ c + 0 + z <= Len(w) /\ 0 \in Nat
      /\ z \in 0..(Len(w) - c) /\ z <= Len(w) - c /\ Len(w) - c <= MaxInt
  BY SMTT(60), <1>3, <1>5, <1>6 DEF MaxInt
<1>10. e \in Seq(Byte) /\ Len(e) = Len(w) - c
  BY ZenonT(60), <1>3, <1>9, RestBytes
<1>11. At(e, 0, RecordBytes(r))
  <2>1. At(w, c + 0, RecordBytes(r)) /\ c + 0 + Len(RecordBytes(r)) <= Len(w)
    BY ZenonT(60), <1>3, <1>5, <1>9
  <2> QED
    BY ZenonT(60), <1>3, <1>5, <1>9, <2>1, RestAt
<1>12. SubSeq(e, z + 1, Len(e)) = Rest(w, d)
  BY ZenonT(60), <1>3, <1>9, RestOfRest
<1> HIDE DEF e
<1>13. HasRecord(e) /\ RecordOf(e) = r /\ RecordEnd(e) = z
  BY ZenonT(60), <1>3, <1>9, <1>10, <1>11, RecordUndone DEF z
<1>14. st.records = ms /\ st.rest = e
  BY SMTT(60), <1>7
<1>15. TakeRecord(st) = [records |-> Append(ms, r), rest |-> Rest(w, d)]
  BY ZenonT(60), <1>12, <1>13, <1>14 DEF TakeRecord
<1> QED
  BY ZenonT(60), <1>4, <1>8, <1>15 DEF st

\* Record::decode, called again and again on the payload of a fetch response.
LEMMA RecordRun ==
  ASSUME NEW rs \in Seq(StoredRecord), Len(FetchBytes(rs)) <= MaxInt
  PROVE  /\ Get32(FetchBytes(rs), 1) = Len(rs)
         /\ \A k \in 0..Len(rs) : RecordLoop(FetchBytes(rs))[k] = RecordState(rs, k)
<1> DEFINE w == FetchBytes(rs)
           n == Len(rs)
           x == [records |-> <<>>, rest |-> SubSeq(w, 5, Len(w))]
           F == [k \in 0..n |-> RecordState(rs, k)]
           N == Get32(w, 1)
           P(g) == g = [k \in 0..N |-> IF k = 0 THEN x ELSE TakeRecord(g[k - 1])]
           L == RecordLoop(w)
<1>1. /\ n \in Nat /\ w \in Seq(Byte) /\ n <= Len(w) /\ At(w, 0, U32(n))
      /\ Len(FetchBuffer(rs)[0]) = 4
  BY Zenon, FetchLayout
<1>2. N = n
  <2>1. n <= MaxInt /\ 0 \in Nat /\ 0 + 1 = 1
    <3>1. Len(w) \in Nat /\ Len(w) <= MaxInt
      BY ZenonT(60), <1>1, LenProperties
    <3> HIDE DEF w, n
    <3> QED
      BY SMTT(60), <1>1, <3>1 DEF MaxInt
  <2>2. Get32(w, 0 + 1) = n
    BY ZenonT(60), <1>1, <2>1, AtGet32
  <2> QED
    BY ZenonT(60), <2>1, <2>2
<1>3. RecordState(rs, 0) = x
  <2>1. SubSeq(rs, 1, 0) = <<>>
    BY SMTT(60)
  <2>2. 4 + 1 = 5
    BY SMTT(60)
  <2>3. Rest(w, 4) = SubSeq(w, 5, Len(w))
    BY ZenonT(60), <2>2 DEF Rest
  <2> QED
    BY ZenonT(60), <1>1, <2>1, <2>3 DEF RecordState
<1>4. ASSUME NEW k \in 1..n PROVE TakeRecord(RecordState(rs, k - 1)) = RecordState(rs, k)
  BY ZenonT(60), RecordTurn
<1>5. L = CHOOSE g : P(g)
  BY Zenon DEF RecordLoop
<1> HIDE DEF n, x, N, L
<1>6. P(F)
  <2>1. ASSUME NEW k \in 0..n
        PROVE  F[k] = IF k = 0 THEN x ELSE TakeRecord(F[k - 1])
    <3>1. CASE k = 0
      BY ZenonT(60), <1>3, <3>1
    <3>2. CASE k # 0
      <4>1. k \in 1..n /\ k - 1 \in 0..n
        BY SMTT(60), <1>1, <3>2
      <4> QED
        BY ZenonT(60), <1>4, <3>2, <4>1
    <3> QED
      BY ZenonT(60), <3>1, <3>2
  <2>2. F = [k \in 0..n |-> F[k]]
    BY Zenon
  <2> HIDE DEF F
  <2>3. F = [k \in 0..n |-> IF k = 0 THEN x ELSE TakeRecord(F[k - 1])]
    BY ZenonT(60), <2>1, <2>2
  <2> QED
    BY ZenonT(60), <1>2, <2>3
<1>7. P(L)
  <2> HIDE DEF P, F
  <2> QED
    BY ZenonT(60), <1>5, <1>6
<1> DEFINE T == {m \in Nat : m <= n => L[m] = RecordState(rs, m)}
<1>8. 0 \in T
  <2>1. 0 \in 0..n /\ 0 \in Nat
    BY SMT, <1>1
  <2> QED
    BY ZenonT(60), <1>2, <1>3, <1>7, <2>1
<1>9. ASSUME NEW m \in Nat, m \in T PROVE m + 1 \in T
  <2> SUFFICES ASSUME m + 1 <= n PROVE L[m + 1] = RecordState(rs, m + 1)
    OBVIOUS
  <2>1. m <= n /\ m + 1 \in 1..n /\ m + 1 \in 0..n /\ m + 1 # 0 /\ (m + 1) - 1 = m
    BY SMTT(60), <1>1
  <2>2. L[m + 1] = TakeRecord(L[m])
    BY ZenonT(60), <1>2, <1>7, <2>1
  <2>3. L[m] = RecordState(rs, m)
    BY ZenonT(60), <1>9, <2>1
  <2> QED
    BY ZenonT(60), <1>4, <2>1, <2>2, <2>3
<1> HIDE DEF T
<1>10. \A m \in Nat : m \in T
  BY ZenonT(60), <1>8, <1>9, Counting
<1>11. \A k \in 0..n : k \in Nat /\ k <= n
  BY SMTT(60), <1>1
<1>12. \A k \in 0..n : L[k] = RecordState(rs, k)
  BY ZenonT(60), <1>10, <1>11 DEF T
<1> QED
  BY ZenonT(60), <1>2, <1>12 DEF n, N, L

\* A client that calls Record::decode until the payload of a fetch response is
\* used up gets the records handle_fetch put in, keys and values included.
THEOREM RecordsUndone ==
  ASSUME NEW rs \in Seq(StoredRecord), Len(FetchBytes(rs)) <= MaxInt
  PROVE  RecordsIn(FetchBytes(rs)) = rs
<1>1. Len(rs) \in Nat
  BY LenProperties
<1>2. Len(rs) \in 0..Len(rs)
  BY SMT, <1>1
<1>3. RecordsIn(FetchBytes(rs)) = RecordState(rs, Len(rs)).records
  BY ZenonT(60), <1>2, RecordRun DEF RecordsIn
<1>4. RecordState(rs, Len(rs)).records = SubSeq(rs, 1, Len(rs))
  BY SMT DEF RecordState
<1>5. SubSeq(rs, 1, Len(rs)) = rs
  <2> DEFINE B == StoredRecord
  <2>1. rs \in Seq(B)
    OBVIOUS
  <2> HIDE DEF B
  <2> QED
    BY SMTT(60), <2>1
<1> QED
  BY ZenonT(60), <1>3, <1>4, <1>5
=============================================================================
