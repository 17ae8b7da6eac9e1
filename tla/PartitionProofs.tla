--------------------------- MODULE PartitionProofs ---------------------------
(***************************************************************************)
(* Proofs about module Partition, for every set of blobs, every length they *)
(* may have, every segment size and every choice of requests.               *)
(***************************************************************************)
EXTENDS Partition, SequenceTheorems, WellFoundedInduction, TLAPS

-----------------------------------------------------------------------------
\* Lengths and positions.

\* A record is a natural number of bytes long, and never empty on disk.
LEMMA RecordLenNat ==
  ASSUME NEW k \in Field, NEW v \in Field
  PROVE  RecordLen(k, v) \in Nat /\ RecordLen(k, v) > 0
BY BlobAssumption DEF RecordLen, FieldLen, Overhead, Field

\* A record ends after it starts.
LEMMA EndNat ==
  ASSUME NEW r \in Placed
  PROVE  End(r) \in Nat /\ End(r) > r.at
BY RecordLenNat DEF End, Placed

\* The length of a log file is a natural number.
LEMMA FileLenNat ==
  ASSUME NEW log \in Seq(Placed)
  PROVE  FileLen(log) \in Nat
BY EndNat DEF FileLen

\* So is the position the next staged record gets.
LEMMA PositionNat ==
  ASSUME NEW seg \in Segment, NEW staged \in Seq(Placed)
  PROVE  Position(seg, staged) \in Nat
BY EndNat DEF Position, Segment

\* The record staged next is a record.
LEMMA StageType ==
  ASSUME NEW seg \in Segment, NEW staged \in Seq(Placed), NEW k \in Field, NEW v \in Field
  PROVE  Stage(seg, staged, k, v) \in Placed
<1>1. Position(seg, staged) \in Nat
  BY Zenon, PositionNat
<1>2. seg.next + Len(staged) \in Nat
  BY LenProperties DEF Segment
<1> QED
  BY Zenon, <1>1, <1>2 DEF Stage, Placed

\* Every non-empty set of naturals has a least element.
LEMMA LeastNat ==
  ASSUME NEW T \in SUBSET Nat, T # {}
  PROVE  \E m \in T : \A k \in T : m <= k
<1>1. PICK m \in T : \A k \in T : ~ (<<k, m>> \in OpToRel(<, Nat))
  BY Zenon, WFMin, NatLessThanWellFounded
<1>2. ASSUME NEW k \in T PROVE m <= k
  <2>1. <<k, m>> \in Nat \X Nat /\ ~ (<<k, m>> \in OpToRel(<, Nat))
    BY Zenon, <1>1
  <2>2. ~ (<<k, m>>[1] < <<k, m>>[2])
    BY Zenon, <2>1 DEF OpToRel
  <2> QED
    BY <2>2
<1> QED
  BY Zenon, <1>2

-----------------------------------------------------------------------------
\* Writing to one segment.

\* What IndexExact, OffsetsDense and FilesPacked say of each segment alone.
SegmentOK(seg) == SegmentIndexExact(seg) /\ SegmentDense(seg) /\ SegmentPacked(seg)

\* A segment that was just created is in order.
LEMMA NewSegmentOK ==
  ASSUME NEW base \in Nat
  PROVE  /\ NewSegment(base) \in Segment
         /\ SegmentOK(NewSegment(base))
         /\ StagedFor(NewSegment(base), <<>>)
<1> DEFINE seg == NewSegment(base)
<1>1. seg \in Segment
  BY DEF NewSegment, Segment
<1>2. /\ seg.log = <<>> /\ seg.entries = <<>> /\ seg.size = 0
      /\ seg.base = base /\ seg.next = base
  BY Zenon DEF NewSegment
<1> HIDE DEF seg
<1>3. SegmentOK(seg) /\ StagedFor(seg, <<>>)
  BY <1>2, LimitAssumption DEF SegmentOK, SegmentIndexExact, SegmentDense, SegmentPacked,
     StagedFor, FileLen, Position
<1> QED
  BY Zenon, <1>1, <1>3 DEF seg

\* Staging one more record that fits keeps the staged records consistent with
\* the segment they are staged for.
LEMMA StageOK ==
  ASSUME NEW seg \in Segment, NEW staged \in Seq(Placed), NEW k \in Field, NEW v \in Field,
         StagedFor(seg, staged),
         Position(seg, staged) + RecordLen(k, v) <= MaxSegmentBytes
  PROVE  StagedFor(seg, Append(staged, Stage(seg, staged, k, v)))
<1> DEFINE r == Stage(seg, staged, k, v)
           new == Append(staged, r)
<1>1. r \in Placed
  BY Zenon, StageType
<1>2. /\ r.at = Position(seg, staged) /\ r.offset = seg.next + Len(staged)
      /\ r.key = k /\ r.value = v
  BY Zenon DEF Stage
<1> HIDE DEF r
<1>3. /\ new \in Seq(Placed) /\ Len(new) = Len(staged) + 1 /\ Len(staged) \in Nat
      /\ DOMAIN new = 1 .. Len(staged) + 1 /\ DOMAIN staged = 1 .. Len(staged)
      /\ \A j \in 1 .. Len(staged) : new[j] = staged[j]
      /\ new[Len(staged) + 1] = r
      /\ new # <<>>
  BY <1>1, AppendProperties, LenProperties
<1> HIDE DEF new
<1>4. \A j \in DOMAIN new : new[j].offset = seg.next + j - 1
  <2>1. seg.next \in Nat
    BY Zenon DEF Segment
  <2>2. \A j \in 1 .. Len(staged) : staged[j].offset = seg.next + j - 1
    BY Zenon, <1>3 DEF StagedFor
  <2> QED
    BY <1>2, <1>3, <2>1, <2>2
<1>5. new[1].at = seg.size
  <2>1. CASE staged = <<>>
    BY <1>2, <1>3, <2>1 DEF Position
  <2>2. CASE staged # <<>>
    BY <1>3, <2>2, EmptySeq DEF StagedFor
  <2> QED
    BY Zenon, <2>1, <2>2
<1>6. ASSUME NEW j \in 1 .. Len(new) - 1 PROVE new[j + 1].at = End(new[j])
  <2> Len(staged) \in Nat /\ j \in 1 .. Len(staged)
    BY <1>3
  <2>1. CASE j = Len(staged)
    BY <1>2, <1>3, <2>1 DEF Position
  <2>2. CASE j # Len(staged)
    <3>1. j \in 1 .. Len(staged) - 1 /\ j \in 1 .. Len(staged) /\ j + 1 \in 1 .. Len(staged)
      BY <2>2
    <3>2. staged[j + 1].at = End(staged[j])
      BY Zenon, <3>1 DEF StagedFor
    <3> QED
      BY Zenon, <1>3, <3>1, <3>2
  <2> QED
    BY Zenon, <2>1, <2>2
<1>7. Position(seg, new) <= MaxSegmentBytes
  BY Zenon, <1>2, <1>3 DEF Position, End
<1> QED
  BY Zenon, <1>4, <1>5, <1>6, <1>7 DEF StagedFor, new, r

\* In a segment whose size is the length of its file, the bytes go where the
\* segment believes they go.
LEMMA WrittenIsStaged ==
  ASSUME NEW seg \in Segment, NEW staged \in Seq(Placed), seg.size = FileLen(seg.log)
  PROVE  Written(seg, staged) = staged
<1>1. FileLen(seg.log) \in Nat /\ seg.size \in Nat
  BY Zenon, FileLenNat DEF Segment
<1>2. ASSUME NEW i \in DOMAIN staged
      PROVE  [staged[i] EXCEPT !.at = FileLen(seg.log) + (@ - seg.size)] = staged[i]
  <2>1. staged[i] \in Placed
    BY Zenon, LenProperties, ElementOfSeq
  <2>2. FileLen(seg.log) + (staged[i].at - seg.size) = staged[i].at
    BY <1>1, <2>1 DEF Placed
  <2> QED
    BY Zenon, <2>1, <2>2 DEF Placed
<1>3. staged = [i \in DOMAIN staged |-> staged[i]]
  BY Zenon, LenProperties
<1> QED
  BY <1>2, <1>3, Zenon DEF Written

\* The index entries of the staged records form a sequence of the same length.
LEMMA IndexedType ==
  ASSUME NEW staged \in Seq(Placed)
  PROVE  /\ Indexed(staged) \in Seq(IndexEntry)
         /\ Len(Indexed(staged)) = Len(staged)
         /\ \A i \in 1 .. Len(staged) :
              Indexed(staged)[i] = [offset |-> staged[i].offset, position |-> staged[i].at]
<1>1. Len(staged) \in Nat /\ DOMAIN staged = 1 .. Len(staged)
  BY Zenon, LenProperties
<1>2. ASSUME NEW i \in 1 .. Len(staged)
      PROVE  [offset |-> staged[i].offset, position |-> staged[i].at] \in IndexEntry
  <2>1. staged[i] \in Placed
    BY Zenon, ElementOfSeq
  <2> QED
    BY Zenon, <2>1 DEF Placed, IndexEntry
<1> QED
  BY <1>1, <1>2 DEF Indexed

\* A write extends the log by the staged records and leaves the segment in order.
LEMMA WriteOK ==
  ASSUME NEW seg \in Segment, SegmentOK(seg),
         NEW staged \in Seq(Placed), staged # <<>>, StagedFor(seg, staged)
  PROVE  /\ Write(seg, staged) \in Segment
         /\ SegmentOK(Write(seg, staged))
         /\ Write(seg, staged).base = seg.base
         /\ Write(seg, staged).next = seg.next + Len(staged)
         /\ Write(seg, staged).log = seg.log \o staged
         /\ Write(seg, staged).log # <<>>
<1> DEFINE new == Write(seg, staged)
           n == Len(seg.log)
<1>1. /\ seg.log \in Seq(Placed) /\ seg.entries \in Seq(IndexEntry)
      /\ seg.base \in Nat /\ seg.size \in Nat /\ seg.next \in Nat
  BY Zenon DEF Segment
<1>2. seg.size = FileLen(seg.log)
  BY Zenon DEF SegmentOK, SegmentPacked
<1>3. /\ new.log = seg.log \o staged
      /\ new.entries = seg.entries \o Indexed(staged)
      /\ new.size = Position(seg, staged)
      /\ new.next = seg.next + Len(staged)
      /\ new.base = seg.base
  BY ZenonT(60), <1>2, WrittenIsStaged DEF Write, Segment
<1>4. /\ n \in Nat /\ Len(staged) \in Nat \ {0}
      /\ new.log \in Seq(Placed) /\ new.entries \in Seq(IndexEntry)
      /\ Len(new.log) = n + Len(staged)
      /\ DOMAIN new.log = 1 .. n + Len(staged)
      /\ \A j \in 1 .. n : new.log[j] = seg.log[j]
      /\ \A j \in 1 .. Len(staged) : new.log[n + j] = staged[j]
  BY <1>1, <1>3, IndexedType, ConcatProperties, LenProperties, EmptySeq
<1>5. new \in Segment
  <2>1. new.size \in Nat /\ new.next \in Nat
    BY SMTT(60), <1>1, <1>3, <1>4, PositionNat
  <2> QED
    BY ZenonT(60), <1>3, <1>4, <2>1 DEF Write, Segment
<1> HIDE DEF new, n
<1>6. /\ Len(seg.entries) = n /\ Len(new.entries) = n + Len(staged)
      /\ \A j \in 1 .. n : new.entries[j] = seg.entries[j]
      /\ \A j \in 1 .. Len(staged) :
           new.entries[n + j] = [offset |-> staged[j].offset, position |-> staged[j].at]
  <2> DEFINE old == seg.entries
             more == Indexed(staged)
  <2>1. /\ old \in Seq(IndexEntry) /\ Len(old) = n
        /\ more \in Seq(IndexEntry) /\ Len(more) = Len(staged)
        /\ new.entries = old \o more
    BY Zenon, <1>1, <1>3, IndexedType DEF SegmentOK, SegmentIndexExact, n
  <2> HIDE DEF old, more
  <2>2. /\ Len(new.entries) = n + Len(staged)
        /\ \A j \in 1 .. n + Len(staged) : new.entries[j] =
             IF j <= n THEN old[j] ELSE more[j - n]
    <3>1. /\ Len(old \o more) = Len(old) + Len(more)
          /\ \A j \in 1 .. Len(old) + Len(more) : (old \o more)[j] =
               IF j <= Len(old) THEN old[j] ELSE more[j - Len(old)]
      <4>1. old \in Seq(IndexEntry) /\ more \in Seq(IndexEntry)
        BY Zenon, <2>1
      <4> QED
        BY Zenon, <4>1, ConcatProperties
    <3> QED
      BY <2>1, <3>1, Zenon
  <2>3. ASSUME NEW j \in 1 .. n PROVE new.entries[j] = old[j]
    <3> j \in 1 .. n + Len(staged) /\ j <= n
      BY <1>4
    <3> QED
      BY Zenon, <2>2
  <2>4. ASSUME NEW j \in 1 .. Len(staged) PROVE new.entries[n + j] = more[j]
    <3> n + j \in 1 .. n + Len(staged) /\ ~ (n + j <= n) /\ (n + j) - n = j
      BY <1>4
    <3> QED
      BY Zenon, <2>2
  <2> QED
    BY ZenonT(60), <2>1, <2>2, <2>3, <2>4, IndexedType DEF old, more
<1>7. SegmentIndexExact(new)
  <2>1. ASSUME NEW j \in 1 .. n + Len(staged)
        PROVE  new.entries[j] = [offset |-> new.log[j].offset, position |-> new.log[j].at]
    <3>1. CASE j <= n
      <4>1. j \in 1 .. n /\ j \in DOMAIN seg.log
        BY <1>1, <1>4, <3>1, LenProperties DEF n
      <4>2. seg.entries[j] = [offset |-> seg.log[j].offset, position |-> seg.log[j].at]
        BY Zenon, <4>1 DEF SegmentOK, SegmentIndexExact
      <4> QED
        BY Zenon, <1>4, <1>6, <4>1, <4>2
    <3>2. CASE j > n
      <4> DEFINE i == j - n
      <4>1. i \in 1 .. Len(staged) /\ j = n + i
        BY <1>4, <3>2
      <4> HIDE DEF i
      <4> QED
        BY SMTT(60), <1>4, <1>6, <4>1
    <3> QED
      BY <1>4, <3>1, <3>2
  <2> QED
    BY Zenon, <1>4, <1>6, <2>1 DEF SegmentIndexExact
<1>8. SegmentDense(new)
  <2>1. seg.next = seg.base + n /\ \A j \in 1 .. n : seg.log[j].offset = seg.base + j - 1
    BY Zenon, <1>1, LenProperties DEF SegmentOK, SegmentDense, n
  <2>2. \A j \in 1 .. Len(staged) : staged[j].offset = seg.next + j - 1
    BY Zenon, LenProperties DEF StagedFor
  <2>3. ASSUME NEW j \in 1 .. n + Len(staged) PROVE new.log[j].offset = seg.base + j - 1
    <3>1. CASE j <= n
      <4>1. j \in 1 .. n
        BY <1>4, <3>1
      <4> QED
        BY Zenon, <1>4, <2>1, <4>1
    <3>2. CASE j > n
      <4> DEFINE i == j - n
      <4>1. i \in 1 .. Len(staged) /\ j = n + i
        BY <1>4, <3>2
      <4> HIDE DEF i
      <4>2. new.log[j].offset = seg.next + i - 1
        BY Zenon, <1>4, <2>2, <4>1
      <4>3. seg.next = seg.base + n /\ seg.base \in Nat /\ n \in Nat /\ i \in Nat
        <5>1. i \in Nat
          BY SMT, <1>4, <4>1
        <5> QED
          BY Zenon, <1>1, <1>4, <2>1, <5>1
      <4>4. \A x, y, z \in Nat : (x + y) + z - 1 = x + (y + z) - 1
        BY SMT
      <4>5. (seg.base + n) + i - 1 = seg.base + (n + i) - 1
        BY Zenon, <4>3, <4>4
      <4> QED
        BY Zenon, <4>1, <4>2, <4>3, <4>5
    <3> QED
      BY <1>4, <3>1, <3>2
  <2>4. seg.next + Len(staged) = seg.base + (n + Len(staged))
    BY <1>1, <1>4, <2>1
  <2> QED
    BY Zenon, <1>3, <1>4, <2>3, <2>4 DEF SegmentDense
<1>9. SegmentPacked(new)
  <2> DEFINE last == n + Len(staged)
  <2>1. /\ last \in 1 .. last /\ new.log # <<>>
        /\ new.log[last] = staged[Len(staged)]
    BY <1>4, EmptySeq
  <2>2. new.size = FileLen(new.log) /\ new.size <= MaxSegmentBytes
    BY Zenon, <1>3, <1>4, <2>1 DEF FileLen, Position, StagedFor
  <2>3. staged[1].at = seg.size
    BY Zenon DEF StagedFor
  <2>4. new.log[1].at = 0
    <3>1. CASE n = 0
      <4>1. seg.size = 0
        BY Zenon, <1>1, <1>2, <3>1, EmptySeq DEF FileLen, n
      <4> QED
        BY <1>4, <2>3, <3>1, <4>1
    <3>2. CASE n # 0
      <4>1. seg.log # <<>> /\ 1 \in 1 .. n
        BY <1>4, <3>2 DEF n
      <4>2. seg.log[1].at = 0
        BY Zenon, <4>1 DEF SegmentOK, SegmentPacked
      <4> QED
        BY Zenon, <1>4, <4>1, <4>2
    <3> QED
      BY Zenon, <3>1, <3>2
  <2>5. ASSUME NEW j \in 1 .. last - 1 PROVE new.log[j + 1].at = End(new.log[j])
    <3>1. CASE j < n
      <4>1. j \in 1 .. n - 1 /\ j \in 1 .. n /\ j + 1 \in 1 .. n
        BY <1>4, <3>1
      <4>2. seg.log[j + 1].at = End(seg.log[j])
        BY Zenon, <4>1 DEF SegmentOK, SegmentPacked, n
      <4> QED
        BY Zenon, <1>4, <4>1, <4>2
    <3>2. CASE j = n
      <4>1. n \in 1 .. n /\ seg.log # <<>> /\ 1 \in 1 .. Len(staged)
        BY <1>1, <1>4, <3>2, EmptySeq DEF n
      <4>2. new.log[n] = seg.log[n] /\ new.log[n + 1] = staged[1]
        BY Zenon, <1>4, <4>1
      <4>3. seg.size = End(seg.log[n])
        BY Zenon, <1>2, <4>1 DEF FileLen, n
      <4> QED
        BY Zenon, <2>3, <3>2, <4>2, <4>3
    <3>3. CASE j > n
      <4> DEFINE i == j - n
      <4>1. /\ i \in 1 .. Len(staged) - 1 /\ i \in 1 .. Len(staged) /\ i + 1 \in 1 .. Len(staged)
            /\ j = n + i /\ j + 1 = n + (i + 1)
        BY <1>4, <3>3
      <4> HIDE DEF i
      <4>2. staged[i + 1].at = End(staged[i])
        BY Zenon, <4>1 DEF StagedFor
      <4> QED
        BY Zenon, <1>4, <4>1, <4>2
    <3> QED
      BY <1>4, <3>1, <3>2, <3>3
  <2> QED
    BY Zenon, <1>4, <2>1, <2>2, <2>4, <2>5 DEF SegmentPacked
<1> QED
  BY <1>3, <1>4, <1>5, <1>7, <1>8, <1>9, EmptySeq DEF SegmentOK, new

-----------------------------------------------------------------------------
\* Replacing the active segment and adding a new one.

\* What IndexExact, OffsetsDense and FilesPacked say together.
SegmentsOK(segs) ==
  /\ segs \in Seq(Segment) /\ segs # <<>>
  /\ segs[1].base = 0
  /\ \A i \in 1 .. Len(segs) : SegmentOK(segs[i])
  /\ \A i \in 1 .. Len(segs) - 1 :
       segs[i].log # <<>> /\ segs[i + 1].base = segs[i].next

\* SegmentsOK is the part of the invariant that is about the segments.
LEMMA SegmentsOKEquiv ==
  ASSUME segments \in Seq(Segment), segments # <<>>
  PROVE  SegmentsOK(segments) <=> IndexExact /\ OffsetsDense /\ FilesPacked
<1>1. DOMAIN segments = 1 .. Len(segments)
  BY Zenon, LenProperties
<1> QED
  BY Zenon, <1>1 DEF SegmentsOK, SegmentOK, IndexExact, OffsetsDense, FilesPacked

\* The active segment is a segment in order.
LEMMA ActiveOK ==
  ASSUME NEW segs, SegmentsOK(segs)
  PROVE  /\ Len(segs) \in Nat \ {0} /\ Len(segs) \in 1 .. Len(segs)
         /\ segs[Len(segs)] \in Segment /\ SegmentOK(segs[Len(segs)])
<1>1. Len(segs) \in Nat \ {0}
  BY Zenon, EmptySeq DEF SegmentsOK
<1>2. Len(segs) \in 1 .. Len(segs)
  BY <1>1
<1> QED
  BY Zenon, <1>1, <1>2, ElementOfSeq DEF SegmentsOK

\* Replacing the active segment by one with the same base keeps the order.
LEMMA ReplaceActive ==
  ASSUME NEW segs, SegmentsOK(segs), NEW new \in Segment, SegmentOK(new),
         new.base = segs[Len(segs)].base
  PROVE  LET res == [segs EXCEPT ![Len(segs)] = new]
         IN  SegmentsOK(res) /\ Len(res) = Len(segs) /\ res[Len(segs)] = new
<1> DEFINE res == [segs EXCEPT ![Len(segs)] = new]
           n == Len(segs)
<1>1. n \in Nat \ {0} /\ n \in 1 .. n /\ segs \in Seq(Segment)
  BY Zenon, ActiveOK DEF SegmentsOK
<1>2. /\ res \in Seq(Segment) /\ Len(res) = n
      /\ \A i \in 1 .. n : res[i] = IF i = n THEN new ELSE segs[i]
  BY <1>1, ExceptSeq
<1> HIDE DEF res, n
<1>3. res # <<>>
  BY Zenon, <1>1, <1>2
<1>4. res[1].base = 0
  <2>1. 1 \in 1 .. n
    BY <1>1
  <2> QED
    BY Zenon, <1>2, <2>1 DEF SegmentsOK, n
<1>5. \A i \in 1 .. n : SegmentOK(res[i])
  BY Zenon, <1>2 DEF SegmentsOK, n
<1>6. ASSUME NEW i \in 1 .. n - 1
      PROVE  res[i].log # <<>> /\ res[i + 1].base = res[i].next
  <2>1. i \in 1 .. n /\ i + 1 \in 1 .. n /\ i # n
    BY <1>1
  <2>2. segs[i].log # <<>> /\ segs[i + 1].base = segs[i].next
    BY Zenon DEF SegmentsOK, n
  <2> QED
    BY Zenon, <1>2, <2>1, <2>2 DEF n
<1> QED
  BY Zenon, <1>1, <1>2, <1>3, <1>4, <1>5, <1>6 DEF SegmentsOK, res, n

\* So does adding a segment at the next offset of an active segment that holds
\* a record.
LEMMA AddActive ==
  ASSUME NEW segs, SegmentsOK(segs), NEW new \in Segment, SegmentOK(new),
         segs[Len(segs)].log # <<>>, new.base = segs[Len(segs)].next
  PROVE  /\ SegmentsOK(Append(segs, new))
         /\ Len(Append(segs, new)) = Len(segs) + 1
         /\ Append(segs, new)[Len(segs) + 1] = new
<1> DEFINE res == Append(segs, new)
           n == Len(segs)
<1>1. n \in Nat \ {0} /\ segs \in Seq(Segment)
  BY Zenon, ActiveOK DEF SegmentsOK
<1>2. /\ res \in Seq(Segment) /\ Len(res) = n + 1
      /\ \A i \in 1 .. n : res[i] = segs[i]
      /\ res[n + 1] = new
  BY <1>1, AppendProperties
<1> HIDE DEF res, n
<1>3. res # <<>>
  BY <1>1, <1>2
<1>4. res[1].base = 0
  <2>1. 1 \in 1 .. n
    BY <1>1
  <2> QED
    BY Zenon, <1>2, <2>1 DEF SegmentsOK
<1>5. ASSUME NEW i \in 1 .. n + 1 PROVE SegmentOK(res[i])
  <2>1. i \in 1 .. n \/ i = n + 1
    BY <1>1
  <2> QED
    BY Zenon, <1>2, <2>1 DEF SegmentsOK, n
<1>6. ASSUME NEW i \in 1 .. n
      PROVE  res[i].log # <<>> /\ res[i + 1].base = res[i].next
  <2>1. CASE i = n
    BY Zenon, <1>2, <2>1 DEF n
  <2>2. CASE i # n
    <3>1. i \in 1 .. n - 1 /\ i + 1 \in 1 .. n
      BY <1>1, <2>2
    <3>2. segs[i].log # <<>> /\ segs[i + 1].base = segs[i].next
      BY Zenon, <3>1 DEF SegmentsOK, n
    <3> QED
      BY Zenon, <1>2, <3>1, <3>2
  <2> QED
    BY Zenon, <2>1, <2>2
<1>7. Len(res) - 1 = n
  BY <1>1, <1>2
<1> QED
  BY Zenon, <1>2, <1>3, <1>4, <1>5, <1>6, <1>7 DEF SegmentsOK, res, n

-----------------------------------------------------------------------------
\* Finding records.

\* The records of a packed file do not overlap: an earlier one ends before a
\* later one starts.  (By a least counterexample: no induction is needed.)
LEMMA RecordsApart ==
  ASSUME NEW seg \in Segment, SegmentPacked(seg),
         NEW i \in 1 .. Len(seg.log), NEW j \in 1 .. Len(seg.log), i < j
  PROVE  End(seg.log[i]) <= seg.log[j].at
<1> DEFINE log == seg.log
           n == Len(log)
           Bad == {b \in 1 .. n : \E a \in 1 .. b - 1 : End(log[a]) > log[b].at}
<1>1. log \in Seq(Placed) /\ n \in Nat
  BY Zenon, LenProperties DEF Segment
<1>2. ASSUME NEW a \in 1 .. n PROVE log[a] \in Placed /\ log[a].at \in Nat /\ End(log[a]) \in Nat
                                      /\ log[a].at < End(log[a])
  <2>1. log[a] \in Placed
    BY Zenon, <1>1, ElementOfSeq
  <2>2. log[a].at \in Nat
    BY Zenon, <2>1 DEF Placed
  <2> QED
    BY Zenon, <2>1, <2>2, EndNat
<1>3. \A a \in 1 .. n - 1 : log[a + 1].at = End(log[a])
  BY Zenon DEF SegmentPacked
<1> HIDE DEF log, n
<1>4. Bad = {}
  <2> SUFFICES ASSUME Bad # {} PROVE FALSE
    OBVIOUS
  <2>1. Bad \in SUBSET Nat
    BY <1>1
  <2>2. PICK b \in Bad : \A c \in Bad : b <= c
    BY Zenon, <2>1, LeastNat
  <2>3. PICK a \in 1 .. b - 1 : End(log[a]) > log[b].at
    OBVIOUS
  <2>4. /\ b \in 1 .. n /\ b - 1 \in 1 .. n /\ b - 1 \in 1 .. n - 1 /\ (b - 1) + 1 = b
        /\ a \in 1 .. n
    BY <1>1
  <2>5. log[b].at = End(log[b - 1])
    BY Zenon, <1>3, <2>4
  <2>6. CASE a = b - 1
    BY SMTT(60), <1>2, <2>3, <2>4, <2>5, <2>6
  <2>7. CASE a # b - 1
    <3>1. a \in 1 .. (b - 1) - 1
      BY <1>1, <2>7
    <3>2. b - 1 \notin Bad
      <4>1. b \in Nat /\ ~ (b <= b - 1)
        BY SMT, <2>4
      <4> QED
        BY Zenon, <2>2, <4>1
    <3>3. ~ (End(log[a]) > log[b - 1].at)
      BY Zenon, <2>4, <3>1, <3>2
    <3> QED
      BY SMTT(60), <1>2, <2>3, <2>4, <2>5, <3>3
  <2> QED
    BY Zenon, <2>6, <2>7
<1>5. ~ (End(log[i]) > log[j].at)
  <2>1. i \in 1 .. j - 1 /\ i \in 1 .. n /\ j \in 1 .. n
    BY <1>1 DEF n, log
  <2> QED
    BY Zenon, <1>4, <2>1
<1> QED
  BY <1>2, <1>5 DEF n, log

\* An offset of the segment is located by the index at its own record and at
\* no other.
LEMMA LocatedOK ==
  ASSUME NEW seg \in Segment, SegmentOK(seg), NEW o \in Nat, InSegment(seg, o)
  PROVE  LET j == o - seg.base + 1
         IN  j \in 1 .. Len(seg.log) /\ seg.log[j].offset = o /\ Located(seg, o) = {j}
<1> DEFINE n == Len(seg.log)
           j == o - seg.base + 1
<1>1. /\ n \in Nat /\ seg.log \in Seq(Placed) /\ seg.base \in Nat
      /\ DOMAIN seg.log = 1 .. n
  BY Zenon, LenProperties DEF Segment
<1>2. /\ seg.next = seg.base + n
      /\ \A i \in 1 .. n : seg.log[i].offset = seg.base + i - 1
  BY Zenon, <1>1 DEF SegmentOK, SegmentDense
<1>3. /\ seg.entries \in Seq(IndexEntry) /\ Len(seg.entries) = n
      /\ \A i \in 1 .. n :
           seg.entries[i] = [offset |-> seg.log[i].offset, position |-> seg.log[i].at]
  BY Zenon, <1>1 DEF SegmentOK, SegmentIndexExact, Segment
<1>4. DOMAIN seg.entries = 1 .. n
  BY Zenon, <1>3, LenProperties
<1>5. j \in 1 .. n
  BY <1>1, <1>2 DEF InSegment
<1> HIDE DEF n
<1>6. seg.log[j].offset = o
  <2>1. seg.log[j].offset = seg.base + j - 1
    BY Zenon, <1>2, <1>5
  <2>2. \A x, y \in Nat : x + (y - x + 1) - 1 = y
    BY SMT
  <2>3. seg.base + j - 1 = o
    BY Zenon, <1>1, <2>2
  <2> QED
    BY Zenon, <2>1, <2>3
<1> HIDE DEF j
<1>7. ASSUME NEW i \in 1 .. n PROVE i \in Located(seg, o) <=> i = j
  <2>1. CASE i = j
    BY Zenon, <1>1, <1>3, <1>4, <1>5, <1>6, <2>1 DEF Located
  <2>2. CASE i # j
    <3> SUFFICES ASSUME i \in Located(seg, o) PROVE FALSE
      BY Zenon, <2>2
    <3>1. PICK e \in 1 .. n : seg.entries[e] = [offset |-> o, position |-> seg.log[i].at]
      BY Zenon, <1>4 DEF Located
    <3>2. seg.log[e].offset = o /\ seg.log[e].at = seg.log[i].at
      <4> DEFINE x == [offset |-> seg.log[e].offset, position |-> seg.log[e].at]
                 y == [offset |-> o, position |-> seg.log[i].at]
      <4>1. x = y
        BY <1>3, <3>1, Zenon
      <4>2. x.offset = y.offset /\ x.position = y.position
        BY <4>1, Zenon
      <4> QED
        BY Zenon, <4>2
    <3>3. e = j
      <4>1. seg.log[e].offset = seg.base + e - 1
        BY Zenon, <1>2
      <4> QED
        BY SMTT(60), <1>1, <3>2, <4>1 DEF j
    <3>4. seg.log[i] \in Placed /\ seg.log[j] \in Placed
      BY Zenon, <1>1, <1>5, ElementOfSeq DEF n
    <3>5. /\ End(seg.log[i]) > seg.log[i].at /\ End(seg.log[j]) > seg.log[j].at
          /\ seg.log[i].at \in Nat /\ seg.log[j].at \in Nat
          /\ End(seg.log[i]) \in Nat /\ End(seg.log[j]) \in Nat
      BY ZenonT(60), <3>4, EndNat DEF Placed
    <3>6. i < j \/ j < i
      BY SMTT(60), <1>1, <1>5, <2>2
    <3>7. End(seg.log[i]) <= seg.log[j].at \/ End(seg.log[j]) <= seg.log[i].at
      BY Zenon, <1>5, <3>6, RecordsApart DEF SegmentOK, n
    <3> QED
      BY <3>2, <3>3, <3>5, <3>7
  <2> QED
    BY Zenon, <2>1, <2>2
<1>8. Located(seg, o) \subseteq 1 .. n
  BY Zenon, <1>1 DEF Located
<1> QED
  BY Zenon, <1>5, <1>6, <1>7, <1>8 DEF n, j

\* The binary search over the base offsets finds the segment an offset belongs
\* to: the first one is at 0, so there always is one.
LEMMA SegmentForOK ==
  ASSUME SegmentsOK(segments), NEW o \in Nat
  PROVE  /\ SegmentFor(o) \in 1 .. Len(segments)
         /\ segments[SegmentFor(o)].base <= o
         /\ SegmentFor(o) < Len(segments) => o < segments[SegmentFor(o) + 1].base
<1> DEFINE n == Len(segments)
           P(i) == segments[i].base <= o /\ (i < n => o < segments[i + 1].base)
           T == {i \in 1 .. n : i = n \/ o < segments[i + 1].base}
<1>1. /\ n \in Nat \ {0} /\ segments \in Seq(Segment) /\ segments[1].base = 0
      /\ DOMAIN segments = 1 .. n
  BY Zenon, ActiveOK, LenProperties DEF SegmentsOK
<1>2. \A i \in 1 .. n : segments[i].base \in Nat
  <2>1. \A i \in 1 .. n : segments[i] \in Segment
    BY Zenon, <1>1, ElementOfSeq
  <2> QED
    BY Zenon, <2>1 DEF Segment
<1> HIDE DEF n
<1>3. PICK m \in T : \A k \in T : m <= k
  <2>1. T \in SUBSET Nat /\ n \in T
    BY <1>1
  <2> QED
    BY Zenon, <2>1, LeastNat
<1>4. segments[m].base <= o
  <2>1. CASE m = 1
    BY <1>1, <2>1
  <2>2. CASE m # 1
    <3>1. m - 1 \in 1 .. n /\ m - 1 # n /\ (m - 1) + 1 = m /\ ~ (m <= m - 1)
      BY <1>1, <2>2
    <3>2. m - 1 \notin T
      BY Zenon, <1>3, <3>1
    <3>3. ~ (o < segments[m].base)
      BY Zenon, <3>1, <3>2
    <3> QED
      BY <1>2, <3>3
  <2> QED
    BY Zenon, <2>1, <2>2
<1>5. m \in 1 .. n /\ P(m)
  BY <1>1, <1>4
<1>6. SegmentFor(o) = CHOOSE i \in 1 .. n : P(i)
  BY <1>1 DEF SegmentFor, n
<1> HIDE DEF P
<1>7. SegmentFor(o) \in 1 .. n /\ P(SegmentFor(o))
  BY <1>5, <1>6, Zenon
<1> QED
  BY Zenon, <1>7 DEF P, n

\* read_batch stops after the first record it takes or later.
LEMMA StopAtOK ==
  ASSUME NEW log \in Seq(Placed), NEW j \in 1 .. Len(log), NEW budget \in Nat
  PROVE  LET k == StopAt(log, j, budget)
         IN  /\ k \in j + 1 .. Len(log) + 1
             /\ k <= Len(log) => End(log[k]) - log[j].at > budget
             /\ \A i \in j + 1 .. k - 1 : End(log[i]) - log[j].at <= budget
<1> DEFINE n == Len(log)
           Over(i) == End(log[i]) - log[j].at > budget
           P(k) == /\ k <= n => Over(k)
                   /\ \A i \in j + 1 .. k - 1 : End(log[i]) - log[j].at <= budget
           T == {k \in j + 1 .. n + 1 : k <= n => Over(k)}
<1>1. n \in Nat /\ j \in Nat
  BY LenProperties
<1>2. ASSUME NEW i \in 1 .. n PROVE End(log[i]) - log[j].at \in Int
  <2>1. log[i] \in Placed /\ log[j] \in Placed
    BY Zenon, ElementOfSeq
  <2>2. log[j].at \in Nat
    BY Zenon, <2>1 DEF Placed
  <2> QED
    BY <2>1, <2>2, EndNat
<1> HIDE DEF n
<1>3. PICK m \in T : \A k \in T : m <= k
  <2>1. T \in SUBSET Nat /\ n + 1 \in T
    BY <1>1 DEF n
  <2> QED
    BY Zenon, <2>1, LeastNat
<1>4. ASSUME NEW i \in j + 1 .. m - 1 PROVE End(log[i]) - log[j].at <= budget
  <2>1. i \in j + 1 .. n + 1 /\ i <= n /\ i \in 1 .. n /\ ~ (m <= i)
    BY <1>1
  <2>2. i \notin T
    BY Zenon, <1>3, <2>1
  <2>3. ~ Over(i)
    BY Zenon, <2>1, <2>2
  <2> QED
    BY SMTT(60), <1>2, <2>1, <2>3
<1>5. m \in j + 1 .. n + 1 /\ P(m)
  BY Zenon, <1>4
<1>6. StopAt(log, j, budget) = CHOOSE k \in j + 1 .. n + 1 : P(k)
  BY Zenon DEF StopAt, n
<1> HIDE DEF P
<1>7. StopAt(log, j, budget) \in j + 1 .. n + 1 /\ P(StopAt(log, j, budget))
  BY <1>5, <1>6, ZenonT(60)
<1> QED
  BY Zenon, <1>7 DEF P, n

\* A first record that exceeds the buffer is over the budget, so nothing else fits.
LEMMA CutOffStops ==
  ASSUME NEW seg \in Segment, SegmentOK(seg), NEW j \in 1 .. Len(seg.log),
         NEW budget \in Nat, CutOff(seg.log[j], budget)
  PROVE  StopAt(seg.log, j, budget) = j + 1
<1> DEFINE log == seg.log
           n == Len(log)
           k == StopAt(log, j, budget)
<1>1. log \in Seq(Placed) /\ n \in Nat
  BY Zenon, LenProperties DEF Segment
<1>2. \A i \in 1 .. n - 1 : log[i + 1].at = End(log[i])
  BY Zenon DEF SegmentOK, SegmentPacked
<1>3. k \in j + 1 .. n + 1 /\ \A i \in j + 1 .. k - 1 : End(log[i]) - log[j].at <= budget
  BY ZenonT(60), <1>1, StopAtOK
<1> HIDE DEF log, n, k
<1> SUFFICES ASSUME k # j + 1 PROVE FALSE
  BY Zenon DEF log, k
<1>4. j \in 1 .. n
  BY Zenon DEF log, n
<1>5. j \in 1 .. n - 1 /\ j + 1 \in 1 .. n /\ j + 1 \in j + 1 .. k - 1
  BY SMTT(60), <1>1, <1>3, <1>4
<1> DEFINE len(i) == RecordLen(log[i].key, log[i].value)
           low == log[j].at
           high == log[j + 1].at
<1>6. /\ low \in Nat /\ len(j) \in Nat /\ high = low + len(j)
      /\ len(j + 1) \in Nat /\ (high + len(j + 1)) - low <= budget
  <2>1. log[j] \in Placed /\ log[j + 1] \in Placed
    BY ZenonT(60), <1>1, <1>4, <1>5, ElementOfSeq DEF n
  <2>2. low \in Nat /\ len(j) \in Nat /\ len(j + 1) \in Nat
    BY ZenonT(60), <2>1, RecordLenNat DEF Placed
  <2>3. high = End(log[j])
    BY Zenon, <1>2, <1>5
  <2>4. End(log[j + 1]) - low <= budget
    BY Zenon, <1>3, <1>5
  <2> QED
    BY ZenonT(60), <2>2, <2>3, <2>4 DEF End
<1>7. len(j) > budget
  BY Zenon DEF CutOff, log
<1> HIDE DEF len, low, high
<1> QED
  BY SMTT(60), <1>6, <1>7

\* What read_batch takes from a segment are consecutive records of its log, the
\* one asked for first; where the buffer cuts that one off, it alone.
LEMMA ReadBatchOK ==
  ASSUME NEW seg \in Segment, SegmentOK(seg), NEW o \in Nat, NEW budget \in Nat,
         InSegment(seg, o)
  PROVE  LET j == o - seg.base + 1
             k == StopAt(seg.log, j, budget)
             rs == SegmentReadBatch(seg, o, budget)
         IN  /\ rs \in Seq(Placed) /\ Len(rs) = k - j /\ Len(rs) > 0
             /\ k \in j + 1 .. Len(seg.log) + 1
             /\ \A i \in 1 .. Len(rs) : rs[i] = seg.log[j + i - 1]
<1> DEFINE j == o - seg.base + 1
           k == StopAt(seg.log, j, budget)
           rs == SegmentReadBatch(seg, o, budget)
           sub == SubSeq(seg.log, j, k - 1)
<1>1. j \in 1 .. Len(seg.log) /\ Located(seg, o) = {j}
  BY Zenon, LocatedOK
<1>2. seg.log \in Seq(Placed) /\ Len(seg.log) \in Nat
  BY Zenon, LenProperties DEF Segment
<1> HIDE DEF j
<1>3. k \in j + 1 .. Len(seg.log) + 1
  BY ZenonT(60), <1>1, <1>2, StopAtOK
<1>4. (CHOOSE i \in Located(seg, o) : TRUE) = j
  BY Zenon, <1>1
<1>5. CASE CutOff(seg.log[j], budget)
  <2>1. rs = <<seg.log[j]>>
    BY ZenonT(60), <1>1, <1>4, <1>5 DEF SegmentReadBatch, Whole
  <2>2. k = j + 1
    BY Zenon, <1>1, <1>5, CutOffStops
  <2>3. seg.log[j] \in Placed
    BY ZenonT(60), <1>1, <1>2, ElementOfSeq
  <2> DEFINE r == seg.log[j]
  <2> HIDE DEF r, k
  <2>4. <<r>> \in Seq(Placed) /\ Len(<<r>>) = 1 /\ <<r>>[1] = r
    BY SMTT(60), <2>3 DEF r
  <2>5. k - j = 1 /\ 1 > 0 /\ \A i \in 1 .. 1 : i = 1 /\ j + i - 1 = j
    BY SMTT(60), <1>1, <1>2, <2>2
  <2>6. \A i \in 1 .. 1 : <<r>>[i] = seg.log[j + i - 1]
    BY Zenon, <2>4, <2>5 DEF r
  <2> QED
    BY Zenon, <1>3, <2>1, <2>4, <2>5, <2>6 DEF j, k, r
<1>6. CASE ~CutOff(seg.log[j], budget)
  <2>1. rs = sub
    BY ZenonT(60), <1>1, <1>4, <1>6 DEF SegmentReadBatch
  <2> HIDE DEF k, rs
  <2>2. \A i \in j .. k - 1 : seg.log[i] \in Placed
    BY SMTT(60), <1>1, <1>2, <1>3, ElementOfSeq
  <2>3. /\ sub \in Seq(Placed) /\ Len(sub) = IF j <= k - 1 THEN (k - 1) - j + 1 ELSE 0
        /\ \A i \in 1 .. (k - 1) - j + 1 : sub[i] = seg.log[j + i - 1]
    <3>1. j \in Int /\ k - 1 \in Int
      BY SMTT(60), <1>1, <1>2, <1>3
    <3> QED
      BY SMTT(60), <2>2, <3>1, SubSeqProperties
  <2> HIDE DEF sub
  <2>4. (k - 1) - j + 1 = k - j /\ j <= k - 1 /\ k - j > 0
    BY SMTT(60), <1>1, <1>2, <1>3
  <2> QED
    BY Zenon, <1>3, <2>1, <2>3, <2>4 DEF j, k, rs
<1> QED
  BY Zenon, <1>5, <1>6

\* Whatever is asked of a segment, read_batch returns a sequence of records.
LEMMA ReadBatchType ==
  ASSUME NEW seg \in Segment, SegmentOK(seg), NEW o \in Nat, NEW budget \in Nat
  PROVE  SegmentReadBatch(seg, o, budget) \in Seq(Placed)
<1>1. CASE InSegment(seg, o)
  BY Zenon, <1>1, ReadBatchOK
<1>2. CASE ~InSegment(seg, o)
  BY SMTT(60), <1>2 DEF SegmentReadBatch
<1> QED
  BY Zenon, <1>1, <1>2

-----------------------------------------------------------------------------
\* The inductive invariant.

\* What the invariant says of the segments before a step, in terms of SegmentsOK.
LEMMA Unfold ==
  ASSUME IInv
  PROVE  /\ SegmentsOK(segments)
         /\ Active \in Segment /\ SegmentOK(Active) /\ NextOffset \in Nat
BY Zenon, SegmentsOKEquiv, ActiveOK DEF IInv, TypeOK, Active, NextOffset, Segment

\* The conjuncts of the invariant about segments after a step, from SegmentsOK.
LEMMA FoldNext ==
  ASSUME SegmentsOK(segments')
  PROVE  /\ segments' \in Seq(Segment) /\ segments' # <<>>
         /\ IndexExact' /\ OffsetsDense' /\ FilesPacked'
<1>1. segments' \in Seq(Segment) /\ segments' # <<>>
  BY Zenon DEF SegmentsOK
<1>2. DOMAIN segments' = 1 .. Len(segments')
  BY Zenon, <1>1, LenProperties
<1> QED
  BY Zenon, <1>1, <1>2 DEF SegmentsOK, SegmentOK, IndexExact, OffsetsDense, FilesPacked

\* The invariant holds when the partition is opened.
LEMMA InitIInv == Init => IInv
<1> SUFFICES ASSUME Init PROVE IInv
  OBVIOUS
<1> DEFINE seg == NewSegment(0)
<1>1. seg \in Segment /\ SegmentOK(seg) /\ seg.base = 0
  BY Zenon, NewSegmentOK DEF NewSegment
<1> HIDE DEF seg
<1>2. segments = <<seg>>
  BY Zenon DEF Init, seg
<1>3. segments \in Seq(Segment) /\ segments # <<>> /\ Len(segments) = 1 /\ segments[1] = seg
  BY <1>1, <1>2
<1>4. SegmentsOK(segments)
  BY <1>1, <1>3 DEF SegmentsOK
<1>5. IndexExact /\ OffsetsDense /\ FilesPacked
  BY Zenon, <1>3, <1>4, SegmentsOKEquiv
<1>6. TypeOK
  <2>1. batch \in BatchLocals
    BY DEF Init, NoBatch, BatchLocals
  <2>2. fetch \in FetchLocals
    BY DEF Init, NoFetch, FetchLocals
  <2>3. reply \in Replies
    BY Zenon DEF Init, NoReply, Reply, Replies
  <2> QED
    BY Zenon, <1>3, <2>1, <2>2, <2>3 DEF Init, TypeOK
<1>7. StagedConsistent
  BY Zenon DEF Init, StagedConsistent, NoBatch
<1> QED
  BY Zenon, <1>5, <1>6, <1>7 DEF IInv

\* The locals between two operations have their types.
LEMMA IdleTypes ==
  ASSUME Idle, IInv
  PROVE  batch' \in BatchLocals /\ batch'.staged = <<>> /\ fetch' \in FetchLocals
         /\ phase' = "idle" /\ buffer' \in ReadBuffers
<1>1. NoBatch \in BatchLocals /\ NoBatch.staged = <<>>
  BY SMTT(60) DEF NoBatch, BatchLocals
<1>2. NoFetch \in FetchLocals
  BY DEF NoFetch, FetchLocals
<1> QED
  BY Zenon, <1>1, <1>2 DEF Idle, IInv, TypeOK

\* An acknowledgement has its type.
LEMMA AckTypes ==
  ASSUME NEW k \in Field, NEW v \in Field, NEW o \in Nat, Ack(o, k, v), IInv
  PROVE  reply' \in Replies /\ acked' \subseteq [offset : Nat, key : Field, value : Field]
BY DEF Ack, Reply, Replies, IInv, TypeOK

\* Partition::append without rotation.
LEMMA ProduceIInv ==
  ASSUME NEW k \in Field, NEW v \in Field, IInv, Produce(k, v)
  PROVE  IInv'
<1> DEFINE staged == <<Stage(Active, <<>>, k, v)>>
           new == Write(Active, staged)
<1>1. SegmentsOK(segments) /\ Active \in Segment /\ SegmentOK(Active) /\ NextOffset \in Nat
  BY Zenon, Unfold
<1>2. staged \in Seq(Placed) /\ staged # <<>> /\ StagedFor(Active, staged)
  <2>1. <<>> \in Seq(Placed) /\ StagedFor(Active, <<>>)
    BY <1>1 DEF StagedFor, Position, SegmentOK, SegmentPacked
  <2>2. Position(Active, <<>>) + RecordLen(k, v) <= MaxSegmentBytes
    BY SMTT(60), <1>1, RecordLenNat, LimitAssumption
       DEF Produce, TooLarge, SegmentFull, Position, Segment
  <2>3. Stage(Active, <<>>, k, v) \in Placed
    BY Zenon, <1>1, <2>1, StageType
  <2>4. StagedFor(Active, Append(<<>>, Stage(Active, <<>>, k, v)))
    BY ZenonT(60), <1>1, <2>1, <2>2, StageOK
  <2>5. Append(<<>>, Stage(Active, <<>>, k, v)) = staged
    OBVIOUS
  <2> QED
    BY SMTT(60), <2>3, <2>4, <2>5
<1> HIDE DEF staged
<1>3. new \in Segment /\ SegmentOK(new) /\ new.base = Active.base
  BY Zenon, <1>1, <1>2, WriteOK
<1>4. segments' = [segments EXCEPT ![Len(segments)] = new]
  BY Zenon DEF Produce, SetActive, staged
<1> HIDE DEF new
<1>5. SegmentsOK(segments')
  BY ZenonT(60), <1>1, <1>3, <1>4, ReplaceActive DEF Active
<1>6. TypeOK'
  BY Zenon, <1>1, <1>5, FoldNext, IdleTypes, AckTypes DEF TypeOK, Produce
<1>7. StagedConsistent'
  BY Zenon, IdleTypes DEF StagedConsistent, Produce
<1> QED
  BY Zenon, <1>5, <1>6, <1>7, FoldNext DEF IInv

\* Partition::append with rotation.  The full segment holds a record, so the
\* new segment has another base offset.
LEMMA ProduceRotateIInv ==
  ASSUME NEW k \in Field, NEW v \in Field, IInv, ProduceRotate(k, v)
  PROVE  IInv'
<1> DEFINE seg == NewSegment(NextOffset)
           staged == <<Stage(seg, <<>>, k, v)>>
           new == Write(seg, staged)
<1>1. SegmentsOK(segments) /\ Active \in Segment /\ SegmentOK(Active) /\ NextOffset \in Nat
  BY Zenon, Unfold
<1>2. /\ seg \in Segment /\ SegmentOK(seg) /\ StagedFor(seg, <<>>)
      /\ seg.base = NextOffset /\ seg.size = 0 /\ <<>> \in Seq(Placed)
  BY <1>1, NewSegmentOK DEF NewSegment
<1> HIDE DEF seg
<1>3. staged \in Seq(Placed) /\ staged # <<>> /\ StagedFor(seg, staged)
  <2>1. Position(seg, <<>>) + RecordLen(k, v) <= MaxSegmentBytes
    BY <1>2, RecordLenNat, LimitAssumption DEF ProduceRotate, TooLarge, Position
  <2>2. Stage(seg, <<>>, k, v) \in Placed
    BY Zenon, <1>2, StageType
  <2>3. StagedFor(seg, Append(<<>>, Stage(seg, <<>>, k, v)))
    BY Zenon, <1>2, <2>1, StageOK
  <2>4. Append(<<>>, Stage(seg, <<>>, k, v)) = staged
    OBVIOUS
  <2> QED
    BY SMTT(60), <2>2, <2>3, <2>4
<1> HIDE DEF staged
<1>4. new \in Segment /\ SegmentOK(new) /\ new.base = NextOffset
  BY Zenon, <1>2, <1>3, WriteOK
<1>5. segments' = Append(segments, new)
  BY Zenon DEF ProduceRotate, seg, staged
<1> HIDE DEF new
<1>6. Active.log # <<>>
  BY SMTT(60), <1>1 DEF ProduceRotate, SegmentFull, SegmentOK, SegmentPacked, FileLen, Segment
<1>7. SegmentsOK(segments')
  BY ZenonT(60), <1>1, <1>4, <1>5, <1>6, AddActive DEF Active, NextOffset
<1>8. TypeOK'
  BY ZenonT(60), <1>1, <1>7, FoldNext, IdleTypes, AckTypes DEF TypeOK, ProduceRotate
<1>9. StagedConsistent'
  BY ZenonT(60), IdleTypes DEF StagedConsistent, ProduceRotate
<1> QED
  BY Zenon, <1>7, <1>8, <1>9, FoldNext DEF IInv

\* Partition::append of a message no segment can hold.
LEMMA ProduceTooLargeIInv ==
  ASSUME NEW k \in Field, NEW v \in Field, IInv, ProduceTooLarge(k, v)
  PROVE  IInv'
<1>1. SegmentsOK(segments')
  BY Zenon, Unfold DEF ProduceTooLarge
<1>2. reply' \in Replies
  BY Zenon DEF ProduceTooLarge, Reply, Replies
<1>3. TypeOK'
  BY Zenon, <1>1, <1>2, FoldNext, IdleTypes DEF TypeOK, ProduceTooLarge, IInv
<1>4. StagedConsistent'
  BY Zenon, IdleTypes DEF StagedConsistent, ProduceTooLarge
<1> QED
  BY Zenon, <1>1, <1>3, <1>4, FoldNext DEF IInv

\* Entering append_batch.
LEMMA BeginBatchIInv ==
  ASSUME NEW payloads \in Batches, IInv, BeginBatch(payloads)
  PROVE  IInv'
<1>1. SegmentsOK(segments) /\ Active \in Segment /\ SegmentOK(Active) /\ NextOffset \in Nat
  BY Zenon, Unfold
<1>2. SegmentsOK(segments')
  BY Zenon, <1>1 DEF BeginBatch
<1>3. payloads \in Seq(Blob)
  BY Zenon, InputAssumption
<1>4. batch' = [request |-> payloads, from |-> NextOffset, rest |-> payloads,
                staged |-> <<>>, base |-> None]
  BY Zenon DEF BeginBatch, NoBatch
<1>5. TypeOK'
  <2>1. batch' \in BatchLocals
    BY <1>1, <1>3, <1>4 DEF BatchLocals
  <2>2. fetch' \in FetchLocals
    BY DEF BeginBatch, NoFetch, FetchLocals
  <2>3. reply' \in Replies
    BY Zenon DEF BeginBatch, NoReply, Reply, Replies
  <2> QED
    BY Zenon, <1>2, <2>1, <2>2, <2>3, FoldNext DEF TypeOK, BeginBatch, IInv
<1>6. StagedConsistent'
  <2>1. StagedFor(Active, <<>>)
    BY <1>1 DEF StagedFor, Position, SegmentOK, SegmentPacked
  <2>2. Active' = Active /\ phase' = "batch"
    BY Zenon DEF Active, BeginBatch
  <2>3. batch'.staged = <<>> /\ batch'.rest = payloads /\ Len(payloads) \in Nat
    BY Zenon, <1>3, <1>4, LenProperties
  <2> QED
    BY SMTT(60), <2>1, <2>2, <2>3 DEF StagedConsistent
<1> QED
  BY Zenon, <1>2, <1>5, <1>6, FoldNext DEF IInv

\* In the for loop, the payload at hand is a blob and what is staged is
\* consistent.
LEMMA PayloadType ==
  ASSUME IInv, HasPayload
  PROVE  /\ Payload \in Blob /\ Payload \in Field /\ None \in Field
         /\ batch.staged \in Seq(Placed) /\ batch.rest \in Seq(Blob)
         /\ Len(batch.staged) \in Nat /\ Len(batch.rest) \in Nat
         /\ Len(batch.staged) + 1 \in 1 .. Len(batch.rest)
         /\ StagedFor(Active, batch.staged)
<1>1. batch.staged \in Seq(Placed) /\ batch.rest \in Seq(Blob)
  BY Zenon DEF IInv, TypeOK, BatchLocals
<1>2. Len(batch.staged) \in Nat /\ Len(batch.rest) \in Nat
  BY Zenon, <1>1, LenProperties
<1>3. Len(batch.staged) + 1 \in 1 .. Len(batch.rest)
  BY <1>2 DEF HasPayload
<1>4. Payload \in Blob
  BY Zenon, <1>1, <1>3, ElementOfSeq DEF Payload
<1> QED
  BY Zenon, <1>1, <1>2, <1>3, <1>4 DEF Field, HasPayload, IInv, StagedConsistent

\* One iteration of the for loop of Segment::append_batch.
LEMMA StagePayloadIInv ==
  ASSUME IInv, StagePayload
  PROVE  IInv'
<1> DEFINE r == Stage(Active, batch.staged, None, Payload)
           new == Append(batch.staged, r)
<1>1. SegmentsOK(segments) /\ Active \in Segment /\ SegmentOK(Active)
  BY Zenon, Unfold
<1>2. SegmentsOK(segments') /\ HasPayload
  BY Zenon, <1>1 DEF StagePayload
<1>3. r \in Placed
  BY Zenon, <1>1, <1>2, PayloadType, StageType
<1>4. StagedFor(Active, new)
  <2>1. Position(Active, batch.staged) + RecordLen(None, Payload) <= MaxSegmentBytes
    BY Zenon DEF StagePayload, Fits
  <2> QED
    BY Zenon, <1>1, <1>2, <2>1, PayloadType, StageOK
<1>5. r.key = None /\ r.value = Payload
  BY Zenon DEF Stage
<1>6. batch' = [batch EXCEPT !.staged = new]
  BY Zenon DEF StagePayload
<1> HIDE DEF r
<1>7. /\ new \in Seq(Placed) /\ Len(new) = Len(batch.staged) + 1
      /\ DOMAIN new = 1 .. Len(batch.staged) + 1
      /\ \A j \in 1 .. Len(batch.staged) : new[j] = batch.staged[j]
      /\ new[Len(batch.staged) + 1] = r
  BY SMTT(60), <1>2, <1>3, PayloadType, AppendProperties, LenProperties
<1> HIDE DEF new
<1>8. TypeOK'
  <2>1. batch' \in BatchLocals
    BY ZenonT(60), <1>6, <1>7 DEF IInv, TypeOK, BatchLocals
  <2> QED
    BY Zenon, <1>2, <2>1, FoldNext DEF TypeOK, StagePayload, IInv
<1>9. StagedConsistent'
  <2>1. batch \in BatchLocals
    BY Zenon DEF IInv, TypeOK
  <2>2. batch'.staged = new /\ batch'.rest = batch.rest
    BY Zenon, <1>6, <2>1 DEF BatchLocals
  <2>3. Active' = Active /\ phase' = "batch"
    BY Zenon DEF Active, StagePayload, HasPayload
  <2>4. Len(new) <= Len(batch.rest)
    BY SMTT(60), <1>2, <1>7, PayloadType
  <2>5. ASSUME NEW j \in DOMAIN new PROVE new[j].key = None /\ new[j].value = batch.rest[j]
    <3>1. j \in 1 .. Len(batch.staged) \/ j = Len(batch.staged) + 1
      BY SMTT(60), <1>2, <1>7, PayloadType
    <3>2. ASSUME NEW i \in 1 .. Len(batch.staged)
          PROVE  batch.staged[i].key = None /\ batch.staged[i].value = batch.rest[i]
      <4>1. i \in DOMAIN batch.staged
        BY Zenon, <1>2, PayloadType, LenProperties
      <4> QED
        BY Zenon, <1>2, <4>1 DEF IInv, StagedConsistent, HasPayload
    <3> QED
      BY Zenon, <1>5, <1>7, <3>1, <3>2 DEF Payload
  <2> QED
    BY Zenon, <1>4, <2>2, <2>3, <2>4, <2>5 DEF StagedConsistent
<1> QED
  BY Zenon, <1>2, <1>8, <1>9, FoldNext DEF IInv

\* append_batch meets a payload no segment can hold.
LEMMA BatchTooLargeIInv ==
  ASSUME IInv, BatchTooLarge
  PROVE  IInv'
<1>1. SegmentsOK(segments')
  BY Zenon, Unfold DEF BatchTooLarge
<1>2. batch' \in BatchLocals /\ batch'.staged = <<>>
  <2>1. batch \in BatchLocals /\ <<>> \in Seq(Placed)
    BY DEF IInv, TypeOK
  <2>2. batch' = [batch EXCEPT !.staged = <<>>]
    BY Zenon DEF BatchTooLarge
  <2> QED
    BY Zenon, <2>1, <2>2 DEF BatchLocals
<1>3. reply' \in Replies
  BY Zenon DEF BatchTooLarge, Reply, Replies
<1>4. TypeOK'
  BY Zenon, <1>1, <1>2, <1>3, FoldNext DEF TypeOK, BatchTooLarge, IInv
<1>5. StagedConsistent'
  BY Zenon, <1>2 DEF StagedConsistent, BatchTooLarge
<1> QED
  BY Zenon, <1>1, <1>4, <1>5, FoldNext DEF IInv

\* append_batch writes a chunk, and rotates if payloads are left.
LEMMA WriteChunkIInv ==
  ASSUME IInv, WriteChunk
  PROVE  IInv'
<1> DEFINE new == Write(Active, batch.staged)
           segs == SetActive(new)
           rest == SplitOff(batch.rest, Len(batch.staged))
<1>1. /\ SegmentsOK(segments) /\ Active \in Segment /\ SegmentOK(Active)
      /\ NextOffset \in Nat
  BY Zenon, Unfold
<1>2. /\ batch \in BatchLocals /\ batch.staged \in Seq(Placed) /\ batch.rest \in Seq(Blob)
      /\ batch.staged # <<>> /\ StagedFor(Active, batch.staged) /\ phase' = "batch"
  BY Zenon DEF IInv, TypeOK, BatchLocals, WriteChunk, StagedConsistent
<1>3. /\ new \in Segment /\ SegmentOK(new) /\ new.base = Active.base /\ new.log # <<>>
  BY Zenon, <1>1, <1>2, WriteOK
<1>4. new.next \in Nat
  BY Zenon, <1>3 DEF Segment
<1>5. rest \in Seq(Blob)
  <2>1. Len(batch.rest) \in Nat /\ Len(batch.staged) \in Nat
    BY Zenon, <1>2, LenProperties
  <2>2. \A i \in Len(batch.staged) + 1 .. Len(batch.rest) : batch.rest[i] \in Blob
    BY SMTT(60), <1>2, <2>1, ElementOfSeq
  <2> QED
    BY SMTT(60), <2>1, <2>2, SubSeqProperties DEF SplitOff
<1>6. /\ segments' = IF rest = <<>> THEN segs ELSE Append(segs, NewSegment(new.next))
      /\ batch' = [batch EXCEPT !.rest = rest, !.staged = <<>>,
                                !.base = IF @ = None THEN NextOffset ELSE @]
  BY Zenon DEF WriteChunk
<1>7. UNCHANGED <<phase, fetch, reply, acked, buffer>>
  BY Zenon DEF WriteChunk
<1> HIDE DEF new, rest
<1>8. /\ SegmentsOK(segs) /\ Len(segs) = Len(segments) /\ segs[Len(segs)] = new
  BY ZenonT(60), <1>1, <1>3, ReplaceActive DEF Active, SetActive
<1> HIDE DEF segs
<1>9. /\ SegmentsOK(segments')
      /\ segments'[Len(segments')] \in Segment
      /\ StagedFor(segments'[Len(segments')], <<>>)
  <2>1. CASE rest = <<>>
    <3>1. segments' = segs
      BY Zenon, <1>6, <2>1
    <3>2. StagedFor(new, <<>>)
      BY <1>3 DEF StagedFor, Position, SegmentOK, SegmentPacked
    <3> QED
      BY Zenon, <1>3, <1>8, <3>1, <3>2
  <2>2. CASE rest # <<>>
    <3> DEFINE next == NewSegment(new.next)
    <3>1. segments' = Append(segs, next)
      BY Zenon, <1>6, <2>2
    <3>2. /\ next \in Segment /\ SegmentOK(next) /\ StagedFor(next, <<>>)
          /\ next.base = new.next
      BY Zenon, <1>4, NewSegmentOK DEF NewSegment
    <3> HIDE DEF next
    <3>3. /\ SegmentsOK(Append(segs, next)) /\ Len(Append(segs, next)) = Len(segs) + 1
          /\ Append(segs, next)[Len(segs) + 1] = next
      BY Zenon, <1>3, <1>8, <3>2, AddActive
    <3> QED
      BY Zenon, <3>1, <3>2, <3>3
  <2> QED
    BY Zenon, <2>1, <2>2
<1>10. /\ batch' \in BatchLocals /\ batch'.staged = <<>> /\ batch'.rest = rest
  <2>1. (IF batch.base = None THEN NextOffset ELSE batch.base) \in Nat \cup {None}
    BY Zenon, <1>1, <1>2 DEF BatchLocals
  <2>2. <<>> \in Seq(Placed)
    BY SMTT(60)
  <2> QED
    BY ZenonT(60), <1>2, <1>5, <1>6, <2>1, <2>2 DEF BatchLocals
<1>11. TypeOK'
  BY Zenon, <1>7, <1>9, <1>10, FoldNext DEF TypeOK, IInv
<1>12. StagedConsistent'
  <2>1. Active' = segments'[Len(segments')]
    BY Zenon DEF Active
  <2>2. Len(rest) \in Nat
    BY Zenon, <1>5, LenProperties
  <2> QED
    BY SMTT(60), <1>2, <1>9, <1>10, <2>1, <2>2 DEF StagedConsistent
<1> QED
  BY Zenon, <1>9, <1>11, <1>12, FoldNext DEF IInv

\* append_batch rotates before it staged anything: the segment is not empty,
\* because the payload would fit into an empty one.
LEMMA BatchRotateIInv ==
  ASSUME IInv, BatchRotate
  PROVE  IInv'
<1> DEFINE new == NewSegment(NextOffset)
<1>1. /\ SegmentsOK(segments) /\ Active \in Segment /\ SegmentOK(Active)
      /\ NextOffset \in Nat
  BY Zenon, Unfold
<1>2. /\ new \in Segment /\ SegmentOK(new) /\ StagedFor(new, <<>>)
      /\ new.base = NextOffset
  BY Zenon, <1>1, NewSegmentOK DEF NewSegment
<1>3. /\ segments' = Append(segments, new) /\ batch.staged = <<>> /\ HasPayload
      /\ UNCHANGED <<phase, batch, fetch, reply, acked, buffer>>
  BY Zenon DEF BatchRotate, Rotated
<1> HIDE DEF new
<1>4. Active.log # <<>>
  <2>1. RecordLen(None, Payload) \in Nat
    BY Zenon, <1>3, PayloadType, RecordLenNat
  <2>2. Active.size + RecordLen(None, Payload) > MaxSegmentBytes
        /\ RecordLen(None, Payload) <= MaxSegmentBytes /\ Active.size \in Nat
    BY SMTT(60), <1>1, <1>3, <2>1, LimitAssumption DEF BatchRotate, Fits, TooLarge, Position, Segment
  <2>3. Active.size # 0
    BY SMTT(60), <2>1, <2>2, LimitAssumption
  <2> QED
    BY Zenon, <1>1, <2>3 DEF SegmentOK, SegmentPacked, FileLen
<1>5. /\ SegmentsOK(segments') /\ Active' = new
  BY ZenonT(60), <1>1, <1>2, <1>3, <1>4, AddActive DEF Active, NextOffset
<1>6. TypeOK'
  BY Zenon, <1>3, <1>5, FoldNext DEF TypeOK, IInv
<1>7. StagedConsistent'
  BY Zenon, <1>2, <1>3, <1>5 DEF StagedConsistent, IInv
<1> QED
  BY Zenon, <1>5, <1>6, <1>7, FoldNext DEF IInv

\* append_batch returns.
LEMMA BatchDoneIInv ==
  ASSUME IInv, BatchDone
  PROVE  IInv'
<1> DEFINE base == IF batch.base = None THEN NextOffset ELSE batch.base
<1>1. SegmentsOK(segments') /\ NextOffset \in Nat
  BY Zenon, Unfold DEF BatchDone
<1>2. /\ batch \in BatchLocals /\ batch.request \in Seq(Blob) /\ batch.rest = <<>>
      /\ batch.staged \in Seq(Placed) /\ Len(batch.staged) <= Len(batch.rest)
  BY ZenonT(60) DEF IInv, TypeOK, BatchLocals, BatchDone, StagedConsistent
<1>3. base \in Nat
  BY Zenon, <1>1, <1>2 DEF BatchLocals
<1>4. /\ reply' = Reply("batch", "Ok", base)
      /\ acked' = acked \cup
           {[offset |-> base + j - 1, key |-> None, value |-> batch.request[j]] :
              j \in DOMAIN batch.request}
      /\ phase' = "idle" /\ UNCHANGED <<segments, batch, fetch, buffer>>
  BY Zenon DEF BatchDone
<1> HIDE DEF base
<1>5. reply' \in Replies
  BY Zenon, <1>3, <1>4 DEF Reply, Replies
<1>6. acked' \subseteq [offset : Nat, key : Field, value : Field]
  <2>1. ASSUME NEW j \in DOMAIN batch.request
        PROVE  [offset |-> base + j - 1, key |-> None, value |-> batch.request[j]]
                 \in [offset : Nat, key : Field, value : Field]
    <3>1. j \in 1 .. Len(batch.request) /\ Len(batch.request) \in Nat
      BY Zenon, <1>2, LenProperties
    <3>2. batch.request[j] \in Blob
      BY Zenon, <1>2, <3>1, ElementOfSeq
    <3>3. base + j - 1 \in Nat
      BY SMTT(60), <1>3, <3>1
    <3> QED
      BY Zenon, <3>2, <3>3 DEF Field
  <2> QED
    BY Zenon, <1>4, <2>1 DEF IInv, TypeOK
<1>7. TypeOK'
  BY ZenonT(60), <1>1, <1>4, <1>5, <1>6, FoldNext DEF TypeOK, IInv
<1>8. StagedConsistent'
  <2>1. batch.staged = <<>>
    BY SMTT(60), <1>2, EmptySeq
  <2> QED
    BY Zenon, <1>4, <2>1 DEF StagedConsistent
<1> QED
  BY Zenon, <1>1, <1>7, <1>8, FoldNext DEF IInv

\* Entering read_batch.
LEMMA BeginFetchIInv ==
  ASSUME NEW o \in 0 .. MaxOffset, NEW max \in Budgets, IInv, BeginFetch(o, max)
  PROVE  IInv'
<1>1. SegmentsOK(segments) /\ o \in Nat /\ max \in Nat
  BY SMTT(60), Unfold, LimitAssumption, InputAssumption
<1>2. SegmentsOK(segments')
  BY Zenon, <1>1 DEF BeginFetch
<1>3. SegmentFor(o) \in Nat
  BY SMTT(60), <1>1, ActiveOK, SegmentForOK
<1>4. /\ fetch' \in FetchLocals
  BY SMTT(60), <1>1, <1>3 DEF BeginFetch, FetchLocals
<1>5. batch' \in BatchLocals /\ batch'.staged = <<>>
  BY SMTT(60) DEF BeginFetch, NoBatch, BatchLocals
<1>6. reply' \in Replies
  BY Zenon DEF BeginFetch, NoReply, Reply, Replies
<1>7. TypeOK'
  BY Zenon, <1>2, <1>4, <1>5, <1>6, FoldNext DEF TypeOK, BeginFetch, IInv
<1>8. StagedConsistent'
  BY Zenon, <1>5 DEF StagedConsistent, BeginFetch
<1> QED
  BY Zenon, <1>2, <1>7, <1>8, FoldNext DEF IInv

\* What the loop of read_batch gets from a segment.
LEMMA RecordsType ==
  ASSUME IInv, Fetching
  PROVE  /\ Records \in Seq(Placed) /\ Bytes(Records) \in Int
         /\ fetch.seg \in 1 .. Len(segments) /\ Len(segments) \in Nat
         /\ fetch \in FetchLocals
<1>1. SegmentsOK(segments) /\ segments \in Seq(Segment) /\ fetch \in FetchLocals
  BY Zenon, Unfold DEF IInv, TypeOK
<1>2. fetch.seg \in 1 .. Len(segments) /\ Len(segments) \in Nat
  BY Zenon, <1>1, LenProperties DEF Fetching
<1>3. segments[fetch.seg] \in Segment /\ SegmentOK(segments[fetch.seg])
  BY Zenon, <1>1, <1>2, ElementOfSeq DEF SegmentsOK
<1>4. fetch.offset \in Nat /\ fetch.budget \in Nat
  BY Zenon, <1>1 DEF FetchLocals
<1>5. Records \in Seq(Placed)
  BY ZenonT(60), <1>3, <1>4, ReadBatchType DEF Records
<1>6. Bytes(Records) \in Int
  <2>1. CASE Records = <<>>
    BY <2>1 DEF Bytes
  <2>2. CASE Records # <<>>
    <3>1. Len(Records) \in 1 .. Len(Records) /\ 1 \in 1 .. Len(Records)
      BY <1>5, <2>2, EmptySeq
    <3>2. Records[Len(Records)] \in Placed /\ Records[1] \in Placed
      BY Zenon, <1>5, <3>1, ElementOfSeq
    <3>3. End(Records[Len(Records)]) \in Nat /\ Records[1].at \in Nat
      BY Zenon, <3>2, EndNat DEF Placed
    <3> QED
      BY <2>2, <3>3 DEF Bytes
  <2> QED
    BY Zenon, <2>1, <2>2
<1> QED
  BY Zenon, <1>1, <1>2, <1>5, <1>6

\* One iteration of the loop of read_batch.
LEMMA FetchSegmentIInv ==
  ASSUME IInv, FetchSegment
  PROVE  IInv'
<1>1. /\ SegmentsOK(segments) /\ SegmentsOK(segments') /\ Fetching
      /\ UNCHANGED <<segments, phase, batch, reply, acked, buffer>>
  BY Zenon, Unfold DEF FetchSegment
<1>2. /\ Records \in Seq(Placed) /\ Bytes(Records) \in Int
      /\ fetch.seg \in 1 .. Len(segments) /\ Len(segments) \in Nat
      /\ fetch \in FetchLocals
  BY Zenon, <1>1, RecordsType
<1> DEFINE offset == IF fetch.seg < Len(segments) THEN segments[fetch.seg + 1].base
                     ELSE IF Records = <<>> THEN fetch.offset
                     ELSE Records[Len(Records)].offset + 1
<1>3. offset \in Nat
  <2>1. CASE fetch.seg < Len(segments)
    <3>1. fetch.seg + 1 \in 1 .. Len(segments) /\ segments \in Seq(Segment)
      BY SMTT(60), <1>1, <1>2, <2>1 DEF SegmentsOK
    <3>2. segments[fetch.seg + 1] \in Segment
      BY Zenon, <3>1, ElementOfSeq
    <3> QED
      BY Zenon, <2>1, <3>2 DEF Segment
  <2>2. CASE ~ (fetch.seg < Len(segments)) /\ Records = <<>>
    BY Zenon, <1>2, <2>2 DEF FetchLocals
  <2>3. CASE ~ (fetch.seg < Len(segments)) /\ Records # <<>>
    <3>1. Len(Records) \in 1 .. Len(Records)
      BY SMTT(60), <1>2, <2>3, EmptySeq
    <3>2. Records[Len(Records)] \in Placed
      BY Zenon, <1>2, <3>1, ElementOfSeq
    <3> QED
      BY SMTT(60), <2>3, <3>2 DEF Placed
  <2> QED
    BY Zenon, <2>1, <2>2, <2>3
<1>4. fetch.budget - Bytes(Records) \in Nat
  BY SMTT(60), <1>2 DEF FetchSegment, WithinBudget, FetchLocals
<1>5. fetch.results \o Records \in Seq(Placed)
  <2>1. fetch.results \in Seq(Placed)
    BY Zenon, <1>2 DEF FetchLocals
  <2> QED
    BY Zenon, <1>2, <2>1, ConcatProperties
<1>6. fetch' = [fetch EXCEPT !.results = @ \o Records, !.budget = @ - Bytes(Records),
                             !.seg = @ + 1, !.offset = offset]
  BY Zenon DEF FetchSegment, Advanced
<1> HIDE DEF offset
<1>7. fetch' \in FetchLocals
  <2>1. fetch.seg + 1 \in Nat
    BY SMTT(60), <1>2
  <2> QED
    BY ZenonT(60), <1>2, <1>3, <1>4, <1>5, <1>6, <2>1 DEF FetchLocals
<1>8. TypeOK'
  BY Zenon, <1>1, <1>7, FoldNext DEF TypeOK, IInv
<1>9. StagedConsistent'
  BY Zenon, <1>1 DEF StagedConsistent, IInv, Fetching
<1> QED
  BY Zenon, <1>1, <1>8, <1>9, FoldNext DEF IInv

\* read_batch meets a record over its budget.
LEMMA FetchOversizedIInv ==
  ASSUME IInv, FetchOversized
  PROVE  IInv'
<1>1. /\ SegmentsOK(segments') /\ Fetching /\ phase = "fetch" /\ phase' = "idle"
      /\ UNCHANGED <<segments, batch, acked, buffer>>
  BY Zenon, Unfold DEF FetchOversized, Fetching
<1>2. Records \in Seq(Placed) /\ fetch \in FetchLocals
  BY Zenon, <1>1, RecordsType
<1>3. fetch' \in FetchLocals
  BY Zenon, <1>2 DEF FetchOversized, FetchLocals
<1>4. reply' \in Replies
  BY Zenon DEF FetchOversized, Reply, Replies
<1>5. TypeOK'
  BY ZenonT(60), <1>1, <1>3, <1>4, FoldNext DEF TypeOK, IInv
<1>6. StagedConsistent'
  BY Zenon, <1>1 DEF StagedConsistent, IInv
<1> QED
  BY Zenon, <1>1, <1>5, <1>6, FoldNext DEF IInv

\* read_batch returns.
LEMMA FetchDoneIInv ==
  ASSUME IInv, FetchDone
  PROVE  IInv'
<1>1. /\ SegmentsOK(segments') /\ phase = "fetch" /\ phase' = "idle"
      /\ UNCHANGED <<segments, batch, fetch, acked, buffer>>
  BY Zenon, Unfold DEF FetchDone
<1>2. reply' \in Replies
  BY Zenon DEF FetchDone, Reply, Replies
<1>3. TypeOK'
  BY ZenonT(60), <1>1, <1>2, FoldNext DEF TypeOK, IInv
<1>4. StagedConsistent'
  BY Zenon, <1>1 DEF StagedConsistent, IInv
<1> QED
  BY Zenon, <1>1, <1>3, <1>4, FoldNext DEF IInv

-----------------------------------------------------------------------------
\* Opening the partition again.

\* Loading the files of a segment gives the segment back.
LEMMA LoadIsIdentity ==
  ASSUME NEW seg \in Segment, SegmentOK(seg)
  PROVE  LoadSegment(seg) = seg
<1>1. /\ seg.log \in Seq(Placed) /\ seg.entries \in Seq(IndexEntry)
      /\ seg.base \in Nat /\ Len(seg.log) \in Nat /\ DOMAIN seg.log = 1 .. Len(seg.log)
  BY Zenon, LenProperties DEF Segment
<1>2. seg.size = FileLen(seg.log)
  BY Zenon DEF SegmentOK, SegmentPacked
<1>3. LoadNext(seg) = seg.next
  <2>1. /\ seg.next = seg.base + Len(seg.log)
        /\ \A j \in 1 .. Len(seg.log) : seg.log[j].offset = seg.base + j - 1
    BY ZenonT(60), <1>1 DEF SegmentOK, SegmentDense
  <2>2. CASE seg.log = <<>>
    BY SMTT(60), <1>1, <2>1, <2>2 DEF LoadNext
  <2>3. CASE seg.log # <<>>
    <3>1. Len(seg.log) \in 1 .. Len(seg.log)
      BY SMTT(60), <1>1, <2>3, EmptySeq
    <3>2. seg.log[Len(seg.log)].offset = seg.base + Len(seg.log) - 1
      BY Zenon, <2>1, <3>1
    <3> QED
      BY SMTT(60), <1>1, <2>1, <2>3, <3>2 DEF LoadNext
  <2> QED
    BY Zenon, <2>2, <2>3
<1>4. (IF seg.entries = <<>> THEN Indexed(seg.log) ELSE seg.entries) = seg.entries
  <2>1. CASE seg.entries = <<>>
    <3>1. seg.log = <<>>
      BY Zenon, <1>1, <2>1, EmptySeq DEF SegmentOK, SegmentIndexExact
    <3>2. Indexed(seg.log) = <<>>
      BY ZenonT(60), <3>1, IndexedType, EmptySeq
    <3> QED
      BY Zenon, <2>1, <3>2
  <2> QED
    BY Zenon, <2>1
<1> QED
  BY ZenonT(60), <1>2, <1>3, <1>4 DEF LoadSegment, Segment

\* Base offsets ascend.
LEMMA BasesAscend ==
  ASSUME NEW segs, SegmentsOK(segs),
         NEW i \in 1 .. Len(segs), NEW j \in 1 .. Len(segs), i < j
  PROVE  segs[i].base < segs[j].base
<1> DEFINE n == Len(segs)
           Bad == {b \in 1 .. n : \E a \in 1 .. b - 1 : ~ (segs[a].base < segs[b].base)}
<1>1. n \in Nat /\ segs \in Seq(Segment)
  BY Zenon, ActiveOK DEF SegmentsOK
<1>2. ASSUME NEW a \in 1 .. n
      PROVE  segs[a].base \in Nat /\ (a \in 1 .. n - 1 => segs[a].base < segs[a + 1].base)
  <2>1. segs[a] \in Segment /\ SegmentOK(segs[a])
    BY Zenon, <1>1, ElementOfSeq DEF SegmentsOK
  <2>2. segs[a].base \in Nat /\ segs[a].log \in Seq(Placed)
    BY Zenon, <2>1 DEF Segment
  <2>3. ASSUME a \in 1 .. n - 1 PROVE segs[a].base < segs[a + 1].base
    <3>1. segs[a].log # <<>> /\ segs[a + 1].base = segs[a].next
      BY Zenon, <2>3 DEF SegmentsOK
    <3>2. Len(segs[a].log) \in Nat \ {0}
      BY Zenon, <2>2, <3>1, EmptySeq
    <3>3. segs[a].next = segs[a].base + Len(segs[a].log)
      BY Zenon, <2>1 DEF SegmentOK, SegmentDense
    <3> QED
      BY SMTT(60), <2>2, <3>1, <3>2, <3>3
  <2> QED
    BY Zenon, <2>2, <2>3
<1> HIDE DEF n
<1>3. Bad = {}
  <2> SUFFICES ASSUME Bad # {} PROVE FALSE
    OBVIOUS
  <2>1. Bad \in SUBSET Nat
    BY SMTT(60), <1>1
  <2>2. PICK b \in Bad : \A c \in Bad : b <= c
    BY Zenon, <2>1, LeastNat
  <2>3. PICK a \in 1 .. b - 1 : ~ (segs[a].base < segs[b].base)
    OBVIOUS
  <2>4. /\ b \in 1 .. n /\ b - 1 \in 1 .. n /\ b - 1 \in 1 .. n - 1 /\ (b - 1) + 1 = b
        /\ a \in 1 .. n /\ ~ (b <= b - 1)
    BY SMTT(60), <1>1
  <2>5. segs[b - 1].base < segs[b].base
    BY Zenon, <1>2, <2>4
  <2>6. CASE a = b - 1
    BY Zenon, <2>3, <2>5, <2>6
  <2>7. CASE a # b - 1
    <3>1. a \in 1 .. (b - 1) - 1
      BY <1>1, <2>7
    <3>2. b - 1 \notin Bad
      BY Zenon, <2>2, <2>4
    <3>3. segs[a].base < segs[b - 1].base
      BY Zenon, <2>4, <3>1, <3>2
    <3>4. segs[a].base \in Nat /\ segs[b - 1].base \in Nat /\ segs[b].base \in Nat
      BY Zenon, <1>2, <2>4
    <3> HIDE DEF Bad
    <3> QED
      BY SMTT(60), <2>3, <2>5, <3>3, <3>4
  <2> QED
    BY Zenon, <2>6, <2>7
<1>4. i \in 1 .. j - 1 /\ j \in 1 .. n
  BY <1>1 DEF n
<1> QED
  BY Zenon, <1>3, <1>4

\* A strictly ascending map of 1 .. n into itself moves nothing.
LEMMA AscendingIsIdentity ==
  ASSUME NEW n \in Nat, NEW p \in [1 .. n -> 1 .. n],
         \A i, j \in 1 .. n : i < j => p[i] < p[j]
  PROVE  \A i \in 1 .. n : p[i] = i
<1> DEFINE Low == {i \in 1 .. n : p[i] < i}
           High == {k \in 0 .. n : \E i \in 1 .. n : k = n - i /\ p[i] > i}
<1>1. \A i \in 1 .. n : p[i] \in 1 .. n
  OBVIOUS
<1>2. Low = {}
  <2> SUFFICES ASSUME Low # {} PROVE FALSE
    OBVIOUS
  <2>1. PICK m \in Low : \A k \in Low : m <= k
    <3>1. Low \in SUBSET Nat
      OBVIOUS
    <3> QED
      BY Zenon, <3>1, LeastNat
  <2>2. m \in 1 .. n /\ p[m] < m /\ p[m] \in 1 .. n
    BY Zenon, <1>1
  <2>3. m - 1 \in 1 .. n /\ m - 1 < m /\ ~ (m <= m - 1)
    BY <2>2
  <2>4. ~ (p[m - 1] < m - 1)
    BY Zenon, <2>1, <2>3
  <2>5. p[m - 1] < p[m] /\ p[m - 1] \in 1 .. n
    BY Zenon, <1>1, <2>2, <2>3
  <2> QED
    BY SMTT(60), <2>2, <2>3, <2>4, <2>5
<1>3. High = {}
  <2> SUFFICES ASSUME High # {} PROVE FALSE
    OBVIOUS
  <2>1. PICK k \in High : \A l \in High : k <= l
    <3>1. High \in SUBSET Nat
      OBVIOUS
    <3> QED
      BY Zenon, <3>1, LeastNat
  <2>2. PICK m \in 1 .. n : k = n - m /\ p[m] > m
    OBVIOUS
  <2>3. p[m] \in 1 .. n /\ m + 1 \in 1 .. n /\ m < m + 1
    BY SMTT(60), <1>1, <2>2
  <2>4. n - (m + 1) \in 0 .. n /\ ~ (k <= n - (m + 1))
    BY <2>2, <2>3
  <2>5. n - (m + 1) \notin High
    BY ZenonT(60), <2>1, <2>4
  <2>6. ~ (p[m + 1] > m + 1)
    BY Zenon, <2>3, <2>4, <2>5
  <2>7. p[m] < p[m + 1] /\ p[m + 1] \in 1 .. n
    BY ZenonT(60), <1>1, <2>2, <2>3
  <2> QED
    BY <2>2, <2>3, <2>6, <2>7
<1> SUFFICES ASSUME NEW i \in 1 .. n PROVE p[i] = i
  OBVIOUS
<1>4. ~ (p[i] < i)
  BY Zenon, <1>2
<1>5. ~ (p[i] > i)
  <2>1. n - i \in 0 .. n
    OBVIOUS
  <2> QED
    BY ZenonT(60), <1>3, <2>1
<1> QED
  BY <1>1, <1>4, <1>5

\* Whatever order the directory lists the segments in, sorting what was loaded
\* restores the partition as it was.
LEMMA ReopenRestores ==
  ASSUME IInv, Reopen
  PROVE  segments' = segments
<1> DEFINE n == Len(segments)
<1>1. /\ SegmentsOK(segments) /\ segments \in Seq(Segment) /\ n \in Nat
      /\ DOMAIN segments = 1 .. n
  BY Zenon, Unfold, LenProperties DEF SegmentsOK
<1>2. \A i \in 1 .. n : segments[i] \in Segment /\ LoadSegment(segments[i]) = segments[i]
  BY Zenon, <1>1, ElementOfSeq, LoadIsIdentity DEF SegmentsOK
<1> HIDE DEF n
<1>3. PICK p \in [1 .. n -> 1 .. n] :
        /\ \A i, j \in 1 .. n : p[i] = p[j] => i = j
        /\ segments' = [i \in 1 .. n |-> LoadSegment(segments[p[i]])]
        /\ SortedByBase(segments')
  BY ZenonT(60), <1>1 DEF Reopen
<1>4. segments' = [i \in 1 .. n |-> segments[p[i]]]
  BY Zenon, <1>2, <1>3
<1>5. ASSUME NEW i \in 1 .. n, NEW j \in 1 .. n, i < j
      PROVE  p[i] < p[j]
  <2>1. segments[p[i]].base <= segments[p[j]].base
    BY SMTT(60), <1>3, <1>4, <1>5 DEF SortedByBase
  <2>2. p[i] # p[j] /\ p[i] \in 1 .. n /\ p[j] \in 1 .. n
    <3>1. i # j
      BY SMTT(60), <1>1, <1>5
    <3> QED
      BY Zenon, <1>3, <3>1
  <2>3. ~ (p[j] < p[i])
    <3> SUFFICES ASSUME p[j] < p[i] PROVE FALSE
      OBVIOUS
    <3>1. segments[p[j]].base < segments[p[i]].base
      BY Zenon, <1>1, <2>2, BasesAscend DEF n
    <3>2. segments[p[j]].base \in Nat /\ segments[p[i]].base \in Nat
      BY Zenon, <1>2, <2>2 DEF Segment
    <3> QED
      BY SMTT(60), <2>1, <3>1, <3>2
  <2> QED
    BY SMTT(60), <1>1, <2>2, <2>3
<1>6. \A i \in 1 .. n : p[i] = i
  BY Zenon, <1>1, <1>5, AscendingIsIdentity
<1>7. segments' = [i \in 1 .. n |-> segments[i]]
  BY Zenon, <1>4, <1>6
<1> QED
  BY SMTT(60), <1>1, <1>7

\* The process ends and the partition is opened again.
LEMMA ReopenIInv ==
  ASSUME IInv, Reopen
  PROVE  IInv'
<1>1. SegmentsOK(segments')
  BY Zenon, Unfold, ReopenRestores
<1>2. batch' \in BatchLocals /\ batch'.staged = <<>> /\ phase' = "idle"
  BY SMTT(60) DEF Reopen, NoBatch, BatchLocals
<1>3. fetch' \in FetchLocals
  BY SMTT(60) DEF Reopen, NoFetch, FetchLocals
<1>4. reply' \in Replies
  BY Zenon DEF Reopen, NoReply, Reply, Replies
<1>5. acked' = acked /\ buffer' = buffer
  BY Zenon DEF Reopen
<1>6. TypeOK'
  BY Zenon, <1>1, <1>2, <1>3, <1>4, <1>5, FoldNext DEF TypeOK, IInv
<1>7. StagedConsistent'
  BY Zenon, <1>2 DEF StagedConsistent
<1> QED
  BY Zenon, <1>1, <1>6, <1>7, FoldNext DEF IInv

-----------------------------------------------------------------------------
\* A step that changes nothing keeps the invariant.
LEMMA StutterIInv ==
  ASSUME IInv, UNCHANGED vars
  PROVE  IInv'
BY Zenon DEF IInv, vars, TypeOK, IndexExact, OffsetsDense, FilesPacked, StagedConsistent, Active

\* Every step of a partition keeps the invariant.
LEMMA NextIInv == IInv /\ [Next]_vars => IInv'
<1> SUFFICES ASSUME IInv, [Next]_vars PROVE IInv'
  OBVIOUS
<1>1. ASSUME NEW m \in Messages,
             Produce(m[1], m[2]) \/ ProduceRotate(m[1], m[2]) \/ ProduceTooLarge(m[1], m[2])
      PROVE  IInv'
  <2>1. m[1] \in Field /\ m[2] \in Field
    BY Zenon, InputAssumption DEF Field
  <2> QED
    BY Zenon, <1>1, <2>1, ProduceIInv, ProduceRotateIInv, ProduceTooLargeIInv
<1>2. ASSUME NEW payloads \in Batches, BeginBatch(payloads) PROVE IInv'
  BY Zenon, <1>2, BeginBatchIInv
<1>3. ASSUME StagePayload \/ BatchTooLarge \/ WriteChunk \/ BatchRotate \/ BatchDone PROVE IInv'
  BY ZenonT(60), <1>3, StagePayloadIInv, BatchTooLargeIInv, WriteChunkIInv, BatchRotateIInv, BatchDoneIInv
<1>4. ASSUME NEW o \in 0 .. MaxOffset, NEW max \in Budgets, BeginFetch(o, max) PROVE IInv'
  BY Zenon, <1>4, BeginFetchIInv
<1>5. ASSUME FetchSegment \/ FetchOversized \/ FetchDone PROVE IInv'
  BY Zenon, <1>5, FetchSegmentIInv, FetchOversizedIInv, FetchDoneIInv
<1>6. ASSUME Reopen PROVE IInv'
  BY Zenon, <1>6, ReopenIInv
<1>7. ASSUME UNCHANGED vars PROVE IInv'
  BY Zenon, <1>7, StutterIInv
<1> QED
  BY ZenonT(60), <1>1, <1>2, <1>3, <1>4, <1>5, <1>6, <1>7 DEF Next

\* The inductive invariant holds in every reachable state.
THEOREM Invariance == Spec => []IInv
BY InitIInv, NextIInv, PTL DEF Spec

\* Every variable keeps its type; the u32 budget of a fetch never underflows.
THEOREM TypeCorrect == Spec => []TypeOK
<1>1. IInv => TypeOK
  BY Zenon DEF IInv
<1> QED
  BY <1>1, Invariance, PTL

\* The index of every segment is exact, whatever was appended in whatever order.
THEOREM IndexIsExact == Spec => []IndexExact
<1>1. IInv => IndexExact
  BY Zenon DEF IInv
<1> QED
  BY <1>1, Invariance, PTL

\* Offsets are dense and base offsets distinct, whatever the sizes of records.
THEOREM OffsetsAreDense == Spec => []OffsetsDense
<1>1. IInv => OffsetsDense
  BY Zenon DEF IInv
<1> QED
  BY <1>1, Invariance, PTL

\* Log files hold their records end to end and stay within segment_max_bytes.
THEOREM FilesArePacked == Spec => []FilesPacked
<1>1. IInv => FilesPacked
  BY Zenon DEF IInv
<1> QED
  BY <1>1, Invariance, PTL
=============================================================================
