----------------------- MODULE PartitionClientProofs ------------------------
(***************************************************************************)
(* What clients see of a partition, proved for every value of the           *)
(* constants: Partition implements OffsetLog, acknowledged records can be   *)
(* read, batches store prefixes, and fetches are faithful.  The proofs rest *)
(* on the invariant of PartitionProofs.                                     *)
(***************************************************************************)
EXTENDS PartitionProofs

-----------------------------------------------------------------------------
\* The records of a list of segments.

StoredIn(segs) ==
  UNION {{View(segs[i].log[j]) : j \in DOMAIN segs[i].log} : i \in DOMAIN segs}

Views(log) == {View(log[j]) : j \in 1 .. Len(log)}

\* The log of a segment is a sequence of records.
LEMMA LogOf ==
  ASSUME NEW segs \in Seq(Segment), NEW i \in 1 .. Len(segs)
  PROVE  /\ segs[i] \in Segment /\ segs[i].log \in Seq(Placed)
         /\ DOMAIN segs[i].log = 1 .. Len(segs[i].log) /\ Len(segs[i].log) \in Nat
<1>1. segs[i] \in Segment
  BY Zenon, ElementOfSeq
<1>2. segs[i].log \in Seq(Placed)
  BY Zenon, <1>1 DEF Segment
<1> QED
  BY Zenon, <1>1, <1>2, LenProperties

\* A record is stored when it is in the log of some segment.
LEMMA StoredInIff ==
  ASSUME NEW segs \in Seq(Segment)
  PROVE  StoredIn(segs) = UNION {Views(segs[i].log) : i \in 1 .. Len(segs)}
<1>1. DOMAIN segs = 1 .. Len(segs)
  BY Zenon, LenProperties
<1>2. \A i \in 1 .. Len(segs) : DOMAIN segs[i].log = 1 .. Len(segs[i].log)
  BY Zenon, LogOf
<1> DEFINE At(i) == {View(segs[i].log[j]) : j \in DOMAIN segs[i].log}
<1>3. \A i \in 1 .. Len(segs) : At(i) = Views(segs[i].log)
  BY Zenon, <1>2 DEF Views
<1>4. StoredIn(segs) = UNION {At(i) : i \in 1 .. Len(segs)}
  BY Zenon, <1>1 DEF StoredIn
<1> HIDE DEF At
<1> QED
  BY Zenon, <1>3, <1>4

\* Writing to the active segment adds the records written.
LEMMA ViewsConcat ==
  ASSUME NEW log \in Seq(Placed), NEW staged \in Seq(Placed)
  PROVE  Views(log \o staged) = Views(log) \cup Views(staged)
<1> DEFINE n == Len(log)
           m == Len(staged)
           all == log \o staged
<1>1. n \in Nat /\ m \in Nat
  BY Zenon, LenProperties
<1>2. /\ Len(all) = n + m
      /\ \A j \in 1 .. n : all[j] = log[j]
      /\ \A j \in 1 .. m : all[n + j] = staged[j]
  BY ConcatProperties, <1>1
<1> HIDE DEF n, m, all
<1>3. ASSUME NEW j \in 1 .. n + m
      PROVE  View(all[j]) \in Views(log) \cup Views(staged)
  <2>1. CASE j \in 1 .. n
    BY Zenon, <1>2, <2>1 DEF Views, n
  <2>2. CASE j \notin 1 .. n
    <3>1. j - n \in 1 .. m /\ n + (j - n) = j
      BY <1>1, <2>2
    <3>2. all[j] = staged[j - n]
      BY Zenon, <1>2, <3>1
    <3> QED
      BY Zenon, <3>1, <3>2 DEF Views, m
  <2> QED
    BY Zenon, <2>1, <2>2
<1>4. ASSUME NEW j \in 1 .. n
      PROVE  View(log[j]) \in Views(all)
  <2>1. j \in 1 .. n + m
    BY <1>1
  <2> QED
    BY Zenon, <1>2, <2>1 DEF Views
<1>5. ASSUME NEW j \in 1 .. m
      PROVE  View(staged[j]) \in Views(all)
  <2>1. n + j \in 1 .. n + m
    BY <1>1
  <2> QED
    BY Zenon, <1>2, <2>1 DEF Views
<1>6. Views(all) \subseteq Views(log) \cup Views(staged)
  BY Zenon, <1>2, <1>3 DEF Views
<1>7. Views(log) \subseteq Views(all) /\ Views(staged) \subseteq Views(all)
  BY Zenon, <1>4, <1>5 DEF Views, n, m
<1> QED
  BY Zenon, <1>6, <1>7 DEF all

\* Extending the active segment's log adds exactly the staged records.
LEMMA StoredInReplace ==
  ASSUME NEW segs, SegmentsOK(segs), NEW new \in Segment, NEW staged \in Seq(Placed),
         new.log = segs[Len(segs)].log \o staged
  PROVE  StoredIn([segs EXCEPT ![Len(segs)] = new]) = StoredIn(segs) \cup Views(staged)
<1> DEFINE n == Len(segs)
           res == [segs EXCEPT ![n] = new]
<1>1. segs \in Seq(Segment) /\ n \in 1 .. n /\ n \in Nat
  BY Zenon, ActiveOK DEF SegmentsOK
<1>2. res \in Seq(Segment) /\ Len(res) = n /\ res[n] = new
      /\ \A i \in 1 .. n : i # n => res[i] = segs[i]
  BY <1>1, ExceptSeq
<1>3. Views(new.log) = Views(segs[n].log) \cup Views(staged)
  BY Zenon, <1>1, LogOf, ViewsConcat
<1> HIDE DEF n, res
<1>4. StoredIn(segs) = UNION {Views(segs[i].log) : i \in 1 .. n}
  BY Zenon, <1>1, StoredInIff DEF n
<1>5. StoredIn(res) = UNION {Views(res[i].log) : i \in 1 .. n}
  BY Zenon, <1>2, StoredInIff
<1>6. \A i \in 1 .. n : Views(res[i].log) =
        IF i = n THEN Views(segs[n].log) \cup Views(staged) ELSE Views(segs[i].log)
  BY Zenon, <1>2, <1>3
<1>7. StoredIn(res) = StoredIn(segs) \cup Views(staged)
  <2>1. ASSUME NEW r
        PROVE  r \in StoredIn(res) <=> r \in StoredIn(segs) \/ r \in Views(staged)
    <3>1. r \in StoredIn(segs) <=> \E i \in 1 .. n : r \in Views(segs[i].log)
      BY Zenon, <1>4
    <3>2. r \in StoredIn(res) <=> \E i \in 1 .. n : r \in Views(res[i].log)
      BY Zenon, <1>5
    <3> QED
      BY Zenon, <1>1, <1>6, <3>1, <3>2
  <2> QED
    BY Zenon, <2>1
<1> QED
  BY Zenon, <1>7 DEF res, n

\* Adding a segment adds its records.
LEMMA StoredInAppend ==
  ASSUME NEW segs \in Seq(Segment), NEW new \in Segment
  PROVE  StoredIn(Append(segs, new)) = StoredIn(segs) \cup Views(new.log)
<1> DEFINE n == Len(segs)
           res == Append(segs, new)
<1>1. n \in Nat
  BY Zenon, LenProperties
<1>2. /\ res \in Seq(Segment) /\ Len(res) = n + 1 /\ res[n + 1] = new
      /\ \A i \in 1 .. n : res[i] = segs[i]
  BY AppendProperties
<1> HIDE DEF n, res
<1>3. StoredIn(segs) = UNION {Views(segs[i].log) : i \in 1 .. n}
  BY Zenon, StoredInIff DEF n
<1>4. StoredIn(res) = UNION {Views(res[i].log) : i \in 1 .. n + 1}
  BY Zenon, <1>2, StoredInIff
<1>5. \A i \in 1 .. n : Views(res[i].log) = Views(segs[i].log)
  BY Zenon, <1>2
<1>6. 1 .. n + 1 = (1 .. n) \cup {n + 1}
  BY <1>1
<1>7. StoredIn(res) = StoredIn(segs) \cup Views(new.log)
  BY SMTT(60), <1>2, <1>3, <1>4, <1>5, <1>6
<1> QED
  BY Zenon, <1>7 DEF res

\* Every stored record has an offset below the next one, and lies in a segment
\* at the place its offset says.
LEMMA StoredAt ==
  ASSUME NEW segs, SegmentsOK(segs), NEW r \in StoredIn(segs)
  PROVE  \E i \in 1 .. Len(segs) :
           LET j == r.offset - segs[i].base + 1
           IN  /\ r.offset \in Nat /\ InSegment(segs[i], r.offset)
               /\ j \in 1 .. Len(segs[i].log) /\ r = View(segs[i].log[j])
<1>1. segs \in Seq(Segment)
  BY Zenon DEF SegmentsOK
<1>2. PICK i \in 1 .. Len(segs) : r \in Views(segs[i].log)
  BY <1>1, StoredInIff
<1>3. /\ segs[i] \in Segment /\ segs[i].log \in Seq(Placed) /\ segs[i].base \in Nat
      /\ DOMAIN segs[i].log = 1 .. Len(segs[i].log) /\ Len(segs[i].log) \in Nat
      /\ SegmentDense(segs[i])
  BY Zenon, <1>1, LogOf DEF SegmentsOK, SegmentOK, Segment
<1>4. PICK j \in 1 .. Len(segs[i].log) : r = View(segs[i].log[j])
  BY Zenon, <1>2 DEF Views
<1>5. r.offset = segs[i].log[j].offset
  BY Zenon, <1>4 DEF View
<1>6. r.offset = segs[i].base + j - 1 /\ segs[i].next = segs[i].base + Len(segs[i].log)
  BY Zenon, <1>3, <1>5 DEF SegmentDense
<1>7. /\ r.offset \in Nat /\ InSegment(segs[i], r.offset)
      /\ r.offset - segs[i].base + 1 = j
  BY SMTT(60), <1>3, <1>6 DEF InSegment
<1> QED
  BY ZenonT(60), <1>4, <1>7

\* Every stored offset is below the next one to be given out.
LEMMA StoredBelowNext ==
  ASSUME NEW segs, SegmentsOK(segs), NEW r \in StoredIn(segs)
  PROVE  r.offset \in Nat /\ r.offset < segs[Len(segs)].next
<1> DEFINE n == Len(segs)
<1>1. PICK i \in 1 .. n : r.offset \in Nat /\ InSegment(segs[i], r.offset)
  BY Zenon, StoredAt
<1>2. n \in Nat /\ n \in 1 .. n /\ segs \in Seq(Segment)
  BY Zenon, ActiveOK DEF SegmentsOK
<1>3. \A k \in 1 .. n : segs[k].base \in Nat /\ segs[k].next \in Nat
                        /\ segs[k].base <= segs[k].next
  <2> SUFFICES ASSUME NEW k \in 1 .. n
               PROVE  segs[k].base \in Nat /\ segs[k].next \in Nat
                        /\ segs[k].base <= segs[k].next
    OBVIOUS
  <2>1. segs[k] \in Segment /\ Len(segs[k].log) \in Nat
    BY Zenon, <1>2, LogOf
  <2>2. segs[k].next = segs[k].base + Len(segs[k].log)
    BY Zenon DEF SegmentsOK, SegmentOK, SegmentDense
  <2> QED
    BY <2>1, <2>2 DEF Segment
<1>4. CASE i = n
  BY Zenon, <1>1, <1>4 DEF InSegment
<1>5. CASE i # n
  <2>1. i \in 1 .. n - 1 /\ i + 1 \in 1 .. n
    BY SMTT(60), <1>2, <1>5
  <2>2. segs[i + 1].base = segs[i].next
    BY Zenon, <2>1 DEF SegmentsOK
  <2>3. segs[i + 1].base <= segs[n].base
    <3>1. CASE i + 1 = n
      BY SMTT(60), <1>3, <2>1, <3>1
    <3>2. CASE i + 1 < n
      <4>1. segs[i + 1].base < segs[n].base
        BY ZenonT(60), <1>2, <2>1, <3>2, BasesAscend
      <4> QED
        BY SMTT(60), <1>2, <1>3, <2>1, <4>1
    <3> QED
      BY SMTT(60), <1>2, <2>1, <3>1, <3>2
  <2>4. r.offset < segs[i].next
    BY Zenon, <1>1 DEF InSegment
  <2> QED
    BY SMTT(60), <1>1, <1>2, <1>3, <2>1, <2>2, <2>3, <2>4
<1> QED
  BY Zenon, <1>1, <1>4, <1>5

-----------------------------------------------------------------------------
\* What a step does to the stored records.

\* The records of `staged' are added at the next offsets.
Grows(staged) ==
  /\ staged \in Seq(Placed) /\ staged # <<>>
  /\ \A j \in 1 .. Len(staged) : staged[j].offset = NextOffset + j - 1
  /\ Stored' = Stored \cup Views(staged)
  /\ NextOffset' = NextOffset + Len(staged)

Keeps == Stored' = Stored /\ NextOffset' = NextOffset

\* Stored, in terms of the segments now and after a step.
LEMMA StoredIs == Stored = StoredIn(segments) /\ Stored' = StoredIn(segments')
BY Zenon DEF Stored, StoredIn

\* A step that leaves the segments alone.
LEMMA SameSegmentsKeeps ==
  ASSUME segments' = segments
  PROVE  Keeps
BY Zenon, StoredIs DEF Keeps, NextOffset, Active

\* Partition::append stores one record, as it was given.
LEMMA OneStaged ==
  ASSUME NEW seg \in Segment, NEW k \in Field, NEW v \in Field, StagedFor(seg, <<>>),
         seg.size + RecordLen(k, v) <= MaxSegmentBytes
  PROVE  LET staged == <<Stage(seg, <<>>, k, v)>>
         IN  /\ staged \in Seq(Placed) /\ staged # <<>> /\ Len(staged) = 1
             /\ StagedFor(seg, staged)
             /\ \A j \in 1 .. Len(staged) : staged[j].offset = seg.next + j - 1
             /\ Views(staged) = {[offset |-> seg.next, key |-> k, value |-> v]}
<1> DEFINE r == Stage(seg, <<>>, k, v)
           staged == <<r>>
<1>1. r \in Placed
  BY ZenonT(60), StageType, EmptySeq
<1>2. r.offset = seg.next /\ r.key = k /\ r.value = v /\ seg.next \in Nat
  BY DEF Stage, Segment
<1>3. StagedFor(seg, Append(<<>>, r))
  <2>1. Position(seg, <<>>) = seg.size
    BY Zenon DEF Position
  <2> QED
    BY ZenonT(60), <2>1, StageOK, EmptySeq
<1> HIDE DEF r
<1>4. staged = Append(<<>>, r) /\ Len(staged) = 1 /\ staged[1] = r /\ staged \in Seq(Placed)
  BY <1>1
<1>5. Views(staged) = {View(r)}
  BY <1>4 DEF Views
<1>6. View(r) = [offset |-> seg.next, key |-> k, value |-> v]
  BY Zenon, <1>2 DEF View
<1>7. \A j \in 1 .. Len(staged) : staged[j].offset = seg.next + j - 1
  BY <1>2, <1>4
<1>8. staged # <<>>
  BY Zenon, <1>4, EmptySeq
<1>9. StagedFor(seg, staged)
  BY Zenon, <1>3, <1>4
<1> QED
  BY ZenonT(60), <1>4, <1>5, <1>6, <1>7, <1>8, <1>9 DEF r

\* A write to the active segment, before any rotation.
LEMMA WriteGrows ==
  ASSUME IInv, NEW staged \in Seq(Placed), staged # <<>>, StagedFor(Active, staged)
  PROVE  LET new == Write(Active, staged)
         IN  /\ new \in Segment /\ new.next = NextOffset + Len(staged)
             /\ SegmentsOK(SetActive(new)) /\ Len(SetActive(new)) = Len(segments)
             /\ SetActive(new)[Len(segments)] = new
             /\ StoredIn(SetActive(new)) = Stored \cup Views(staged)
             /\ \A j \in 1 .. Len(staged) : staged[j].offset = NextOffset + j - 1
<1> DEFINE new == Write(Active, staged)
<1>1. SegmentsOK(segments) /\ Active \in Segment /\ SegmentOK(Active)
  BY ZenonT(60), Unfold
<1>2. /\ new \in Segment /\ SegmentOK(new) /\ new.base = Active.base
      /\ new.next = Active.next + Len(staged) /\ new.log = Active.log \o staged
  BY ZenonT(60), <1>1, WriteOK
<1>3. \A j \in 1 .. Len(staged) : staged[j].offset = NextOffset + j - 1
  BY Zenon, LenProperties DEF StagedFor, NextOffset
<1> HIDE DEF new
<1>4. /\ SegmentsOK(SetActive(new)) /\ Len(SetActive(new)) = Len(segments)
      /\ SetActive(new)[Len(segments)] = new
  BY ZenonT(60), <1>1, <1>2, ReplaceActive DEF Active, SetActive
<1>5. StoredIn(SetActive(new)) = Stored \cup Views(staged)
  BY ZenonT(60), <1>1, <1>2, StoredInReplace, StoredIs DEF Active, SetActive
<1> QED
  BY ZenonT(60), <1>2, <1>3, <1>4, <1>5 DEF new, NextOffset

\* Partition::append stores the record it acknowledges.
LEMMA ProduceGrows ==
  ASSUME NEW k \in Field, NEW v \in Field, IInv, Produce(k, v)
  PROVE  \E staged : /\ Grows(staged)
                     /\ Views(staged) = {[offset |-> NextOffset, key |-> k, value |-> v]}
<1> DEFINE staged == <<Stage(Active, <<>>, k, v)>>
           new == Write(Active, staged)
<1>1. SegmentsOK(segments) /\ Active \in Segment /\ SegmentOK(Active) /\ NextOffset \in Nat
  BY Zenon, Unfold
<1>2. StagedFor(Active, <<>>)
  BY <1>1 DEF StagedFor, Position, SegmentOK, SegmentPacked
<1>3. Active.size + RecordLen(k, v) <= MaxSegmentBytes
  BY SMTT(60), <1>1, RecordLenNat, LimitAssumption DEF Produce, TooLarge, SegmentFull, Segment
<1>4. /\ staged \in Seq(Placed) /\ staged # <<>> /\ StagedFor(Active, staged)
      /\ Views(staged) = {[offset |-> NextOffset, key |-> k, value |-> v]}
  BY ZenonT(60), <1>1, <1>2, <1>3, OneStaged DEF NextOffset
<1>5. segments' = SetActive(new)
  BY Zenon DEF Produce
<1> HIDE DEF staged
<1>6. /\ new.next = NextOffset + Len(staged) /\ Len(SetActive(new)) = Len(segments)
      /\ SetActive(new)[Len(segments)] = new
      /\ StoredIn(SetActive(new)) = Stored \cup Views(staged)
      /\ \A j \in 1 .. Len(staged) : staged[j].offset = NextOffset + j - 1
  BY ZenonT(60), <1>4, WriteGrows
<1> HIDE DEF new
<1>7. Active' = new
  BY ZenonT(60), <1>5, <1>6 DEF Active
<1>8. Grows(staged)
  BY ZenonT(60), <1>4, <1>5, <1>6, <1>7, StoredIs DEF Grows, NextOffset
<1> QED
  BY ZenonT(60), <1>4, <1>8

\* A produce that rotates first adds its one record, to the new segment.
LEMMA ProduceRotateGrows ==
  ASSUME NEW k \in Field, NEW v \in Field, IInv, ProduceRotate(k, v)
  PROVE  \E staged : /\ Grows(staged)
                     /\ Views(staged) = {[offset |-> NextOffset, key |-> k, value |-> v]}
<1> DEFINE seg == NewSegment(NextOffset)
           staged == <<Stage(seg, <<>>, k, v)>>
           new == Write(seg, staged)
<1>1. SegmentsOK(segments) /\ NextOffset \in Nat /\ segments \in Seq(Segment)
  BY Zenon, Unfold DEF SegmentsOK
<1>2. /\ seg \in Segment /\ SegmentOK(seg) /\ StagedFor(seg, <<>>)
      /\ seg.next = NextOffset /\ seg.size = 0 /\ seg.log = <<>>
  BY Zenon, <1>1, NewSegmentOK DEF NewSegment
<1>3. segments' = Append(segments, new)
  BY Zenon DEF ProduceRotate
<1> HIDE DEF seg
<1>4. seg.size + RecordLen(k, v) <= MaxSegmentBytes
  BY SMTT(60), <1>2, RecordLenNat, LimitAssumption DEF ProduceRotate, TooLarge
<1>5. /\ staged \in Seq(Placed) /\ staged # <<>> /\ StagedFor(seg, staged)
      /\ \A j \in 1 .. Len(staged) : staged[j].offset = NextOffset + j - 1
      /\ Views(staged) = {[offset |-> NextOffset, key |-> k, value |-> v]}
  BY <1>2, <1>4, OneStaged
<1> HIDE DEF staged
<1>6. /\ new \in Segment /\ new.next = NextOffset + Len(staged) /\ new.log = <<>> \o staged
  BY ZenonT(60), <1>2, <1>5, WriteOK
<1>7. new.log = staged
  BY ZenonT(60), <1>5, <1>6, ConcatEmptySeq
<1> HIDE DEF new
<1>8. Active' = new
  BY <1>1, <1>3, <1>6, AppendProperties DEF Active
<1>9. Stored' = Stored \cup Views(staged)
  BY Zenon, <1>1, <1>3, <1>6, <1>7, StoredInAppend, StoredIs
<1>10. Grows(staged)
  BY Zenon, <1>5, <1>6, <1>8, <1>9 DEF Grows, NextOffset
<1> QED
  BY Zenon, <1>5, <1>10

\* A chunk of append_batch stores what was staged.
LEMMA WriteChunkGrows ==
  ASSUME IInv, WriteChunk
  PROVE  Grows(batch.staged)
<1> DEFINE staged == batch.staged
           new == Write(Active, staged)
           segs == SetActive(new)
           rest == SplitOff(batch.rest, Len(staged))
<1>1. staged \in Seq(Placed) /\ staged # <<>> /\ StagedFor(Active, staged)
  BY Zenon DEF IInv, TypeOK, BatchLocals, WriteChunk, StagedConsistent
<1>2. segments' = IF rest = <<>> THEN segs ELSE Append(segs, NewSegment(new.next))
  BY Zenon DEF WriteChunk
<1> HIDE DEF staged, rest
<1>3. /\ new \in Segment /\ new.next = NextOffset + Len(staged)
      /\ SegmentsOK(segs) /\ Len(segs) = Len(segments) /\ segs[Len(segments)] = new
      /\ StoredIn(segs) = Stored \cup Views(staged)
      /\ \A j \in 1 .. Len(staged) : staged[j].offset = NextOffset + j - 1
  BY Zenon, <1>1, WriteGrows
<1> HIDE DEF new, segs
<1>4. StoredIn(segments') = StoredIn(segs) /\ Active'.next = new.next
  <2>1. CASE rest = <<>>
    BY Zenon, <1>2, <1>3, <2>1 DEF Active
  <2>2. CASE rest # <<>>
    <3> DEFINE next == NewSegment(new.next)
    <3>1. new.next \in Nat /\ segs \in Seq(Segment)
      BY Zenon, <1>3 DEF Segment, SegmentsOK
    <3>2. next \in Segment /\ next.log = <<>> /\ next.next = new.next
      BY Zenon, <3>1, NewSegmentOK DEF NewSegment
    <3>3. segments' = Append(segs, next)
      BY Zenon, <1>2, <2>2
    <3> HIDE DEF next
    <3>4. Views(next.log) = {}
      BY <3>2, EmptySeq DEF Views
    <3>5. StoredIn(Append(segs, next)) = StoredIn(segs)
      BY ZenonT(60), <3>1, <3>2, <3>4, StoredInAppend
    <3>6. Active' = next
      BY SMTT(60), <3>1, <3>2, <3>3, AppendProperties DEF Active
    <3> QED
      BY ZenonT(60), <3>2, <3>3, <3>5, <3>6
  <2> QED
    BY Zenon, <2>1, <2>2
<1>5. Grows(staged)
  BY Zenon, <1>1, <1>3, <1>4, StoredIs DEF Grows, NextOffset
<1> QED
  BY Zenon, <1>5 DEF staged

\* A rotation stores nothing.
LEMMA BatchRotateKeeps ==
  ASSUME IInv, BatchRotate
  PROVE  Keeps
<1> DEFINE new == NewSegment(NextOffset)
<1>1. segments \in Seq(Segment) /\ NextOffset \in Nat
  BY Zenon, Unfold DEF SegmentsOK
<1>2. new \in Segment /\ new.log = <<>> /\ new.next = NextOffset
  BY Zenon, <1>1, NewSegmentOK DEF NewSegment
<1>3. segments' = Append(segments, new)
  BY Zenon DEF BatchRotate, Rotated
<1> HIDE DEF new
<1>4. Views(new.log) = {}
  BY SMTT(60), <1>2, EmptySeq DEF Views
<1>5. Active' = new
  BY SMTT(60), <1>1, <1>2, <1>3, AppendProperties DEF Active
<1> QED
  BY ZenonT(60), <1>1, <1>2, <1>3, <1>4, <1>5, StoredInAppend, StoredIs DEF Keeps, NextOffset

-----------------------------------------------------------------------------
\* Partition implements OffsetLog.

\* Records added at the next offsets are a write of OffsetLog.
LEMMA GrowsIsWrite ==
  ASSUME IInv, NEW staged, Grows(staged)
  PROVE  Log!Write
<1> DEFINE m == Len(staged)
           new == Stored' \ Stored
<1>1. SegmentsOK(segments) /\ NextOffset \in Nat
  BY Zenon, Unfold
<1>2. /\ staged \in Seq(Placed) /\ m \in Nat /\ m > 0
      /\ \A j \in 1 .. m : staged[j].offset = NextOffset + j - 1
      /\ Stored' = Stored \cup Views(staged)
      /\ NextOffset' = NextOffset + m
  BY SMTT(60), EmptySeq DEF Grows
<1>3. \A r \in Stored : r.offset \in Nat /\ r.offset < NextOffset
  BY ZenonT(60), <1>1, StoredBelowNext, StoredIs DEF NextOffset, Active
<1> HIDE DEF m
<1>4. \A j \in 1 .. m : View(staged[j]).offset = NextOffset + j - 1
  BY Zenon, <1>2 DEF View
<1>5. Views(staged) = {View(staged[j]) : j \in 1 .. m}
  BY Zenon DEF Views, m
<1>6. new = {View(staged[j]) : j \in 1 .. m}
  <2>1. \A j \in 1 .. m : View(staged[j]) \notin Stored
    <3> SUFFICES ASSUME NEW j \in 1 .. m, View(staged[j]) \in Stored PROVE FALSE
      OBVIOUS
    <3>1. View(staged[j]).offset < NextOffset
      BY Zenon, <1>3
    <3> QED
      BY SMTT(60), <1>1, <1>4, <3>1
  <2> QED
    BY ZenonT(60), <1>2, <1>5, <2>1
<1> HIDE DEF new
<1>7. NextOffset' > NextOffset
  BY SMTT(60), <1>1, <1>2
<1>8. {r.offset : r \in new} = NextOffset .. NextOffset' - 1
  <2>1. {r.offset : r \in new} = {NextOffset + j - 1 : j \in 1 .. m}
    BY Zenon, <1>4, <1>6
  <2>2. {NextOffset + j - 1 : j \in 1 .. m} = NextOffset .. NextOffset + m - 1
    <3>1. \A j \in 1 .. m : NextOffset + j - 1 \in NextOffset .. NextOffset + m - 1
      BY SMTT(60), <1>1, <1>2
    <3>2. ASSUME NEW o \in NextOffset .. NextOffset + m - 1
          PROVE  \E j \in 1 .. m : o = NextOffset + j - 1
      <4>1. o - NextOffset + 1 \in 1 .. m /\ o = NextOffset + (o - NextOffset + 1) - 1
        BY SMTT(60), <1>1, <1>2
      <4> QED
        BY Zenon, <4>1
    <3> QED
      BY Zenon, <3>1, <3>2
  <2>3. NextOffset' - 1 = NextOffset + m - 1
    BY SMTT(60), <1>1, <1>2
  <2> QED
    BY <2>1, <2>2, <2>3, ZenonT(60)
<1>9. \A r, s \in new : r.offset = s.offset => r = s
  <2> SUFFICES ASSUME NEW r \in new, NEW s \in new, r.offset = s.offset PROVE r = s
    OBVIOUS
  <2>1. PICK i \in 1 .. m : r = View(staged[i])
    BY Zenon, <1>6
  <2>2. PICK j \in 1 .. m : s = View(staged[j])
    BY Zenon, <1>6
  <2>3. NextOffset + i - 1 = NextOffset + j - 1
    BY Zenon, <1>4, <2>1, <2>2
  <2>4. i = j
    BY SMTT(60), <1>1, <1>2, <2>3
  <2> QED
    BY ZenonT(60), <2>1, <2>2, <2>4
<1>10. Stored \subseteq Stored'
  BY Zenon, <1>2
<1> QED
  BY ZenonT(60), <1>7, <1>8, <1>9, <1>10 DEF Log!Write, Log!Written, new

\* Every step stores records at the next offsets or stores nothing.
LEMMA StepGrowsOrKeeps ==
  ASSUME IInv, [Next]_vars
  PROVE  Keeps \/ \E staged : Grows(staged)
<1>1. ASSUME NEW m \in Messages,
             Produce(m[1], m[2]) \/ ProduceRotate(m[1], m[2]) \/ ProduceTooLarge(m[1], m[2])
      PROVE  Keeps \/ \E staged : Grows(staged)
  <2>1. m[1] \in Field /\ m[2] \in Field
    BY Zenon, InputAssumption DEF Field
  <2>2. CASE Produce(m[1], m[2])
    BY ZenonT(60), <2>1, <2>2, ProduceGrows
  <2>3. CASE ProduceRotate(m[1], m[2])
    BY ZenonT(60), <2>1, <2>3, ProduceRotateGrows
  <2>4. CASE ProduceTooLarge(m[1], m[2])
    BY Zenon, <2>4, SameSegmentsKeeps DEF ProduceTooLarge
  <2> QED
    BY ZenonT(60), <1>1, <2>2, <2>3, <2>4
<1>2. ASSUME NEW payloads \in Batches, BeginBatch(payloads) PROVE Keeps
  BY Zenon, <1>2, SameSegmentsKeeps DEF BeginBatch
<1>3. ASSUME StagePayload \/ BatchTooLarge \/ BatchDone PROVE Keeps
  BY ZenonT(60), <1>3, SameSegmentsKeeps DEF StagePayload, BatchTooLarge, BatchDone
<1>4. ASSUME WriteChunk PROVE Grows(batch.staged)
  BY Zenon, <1>4, WriteChunkGrows
<1>5. ASSUME BatchRotate PROVE Keeps
  BY Zenon, <1>5, BatchRotateKeeps
<1>6. ASSUME NEW o \in 0 .. MaxOffset, NEW max \in Budgets, BeginFetch(o, max) PROVE Keeps
  BY Zenon, <1>6, SameSegmentsKeeps DEF BeginFetch
<1>7. ASSUME FetchSegment \/ FetchOversized \/ FetchDone PROVE Keeps
  BY ZenonT(60), <1>7, SameSegmentsKeeps DEF FetchSegment, FetchOversized, FetchDone
<1>8. ASSUME Reopen PROVE Keeps
  BY ZenonT(60), <1>8, ReopenRestores, SameSegmentsKeeps
<1>9. ASSUME UNCHANGED vars PROVE Keeps
  BY ZenonT(60), <1>9, SameSegmentsKeeps DEF vars
<1> QED
  BY ZenonT(60), <1>1, <1>2, <1>3, <1>4, <1>5, <1>6, <1>7, <1>8, <1>9 DEF Next

\* Partition implements OffsetLog: offsets are handed out one by one, without a
\* hole, and nothing stored is ever changed or dropped, whatever mix of
\* produces, batches, rotations and restarts happens.
THEOREM ImplementsOffsetLog == Spec => IsOffsetLog
<1>1. Init => Log!Init
  <2> SUFFICES ASSUME Init PROVE Stored = {} /\ NextOffset = 0
    BY Zenon DEF Log!Init
  <2> DEFINE s == NewSegment(0)
  <2>1. segments = <<s>>
    BY Zenon DEF Init
  <2>2. s \in Segment /\ s.log = <<>> /\ s.next = 0
    BY Zenon, NewSegmentOK DEF NewSegment
  <2> HIDE DEF s
  <2>3. segments \in Seq(Segment) /\ Len(segments) = 1 /\ segments[1] = s
    BY SMTT(60), <2>1, <2>2
  <2>4. Views(s.log) = {}
    BY SMTT(60), <2>2, EmptySeq DEF Views
  <2>5. Stored = {}
    BY SMTT(60), <2>3, <2>4, StoredIs, StoredInIff
  <2> QED
    BY ZenonT(60), <2>2, <2>3, <2>5 DEF NextOffset, Active
<1>2. IInv /\ [Next]_vars => [Log!Write]_(Log!vars)
  <2> SUFFICES ASSUME IInv, [Next]_vars PROVE [Log!Write]_(Log!vars)
    OBVIOUS
  <2>1. CASE Keeps
    BY Zenon, <2>1 DEF Keeps, Log!vars
  <2>2. CASE \E staged : Grows(staged)
    BY Zenon, <2>2, GrowsIsWrite
  <2> QED
    BY ZenonT(60), <2>1, <2>2, StepGrowsOrKeeps
<1> QED
  BY <1>1, <1>2, Invariance, PTL DEF Spec, IsOffsetLog, Log!Spec

-----------------------------------------------------------------------------
\* Reading what is stored.

\* Later segments start at larger offsets.
LEMMA BasesMonotone ==
  ASSUME NEW segs, SegmentsOK(segs),
         NEW i \in 1 .. Len(segs), NEW j \in 1 .. Len(segs), i <= j
  PROVE  segs[i].base \in Nat /\ segs[j].base \in Nat /\ segs[i].base <= segs[j].base
<1>1. segs \in Seq(Segment) /\ Len(segs) \in Nat
  BY Zenon, LenProperties DEF SegmentsOK
<1>2. segs[i].base \in Nat /\ segs[j].base \in Nat
  BY ZenonT(60), <1>1, LogOf DEF Segment
<1>3. CASE i = j
  BY SMTT(60), <1>2, <1>3
<1>4. CASE i < j
  BY SMTT(60), <1>2, <1>4, BasesAscend
<1> QED
  BY SMTT(60), <1>1, <1>2, <1>3, <1>4

\* The binary search of a read ends at the segment that holds the offset.
LEMMA SegmentForIs ==
  ASSUME SegmentsOK(segments), NEW o \in Nat, NEW i \in 1 .. Len(segments),
         InSegment(segments[i], o)
  PROVE  SegmentFor(o) = i
<1> DEFINE n == Len(segments)
           s == SegmentFor(o)
<1>1. n \in Nat /\ segments \in Seq(Segment)
  BY Zenon, LenProperties DEF SegmentsOK
<1>2. s \in 1 .. n /\ segments[s].base <= o /\ (s < n => o < segments[s + 1].base)
  BY Zenon, SegmentForOK
<1>3. segments[i].base <= o /\ o < segments[i].next
  BY Zenon DEF InSegment
<1> HIDE DEF s
<1>4. ~ (s < i)
  <2> SUFFICES ASSUME s < i PROVE FALSE
    OBVIOUS
  <2>1. s + 1 \in 1 .. n /\ s + 1 <= i /\ s < n
    BY SMTT(60), <1>1, <1>2
  <2>2. /\ segments[s + 1].base \in Nat /\ segments[i].base \in Nat
        /\ segments[s + 1].base <= segments[i].base
    BY Zenon, <2>1, BasesMonotone
  <2> QED
    BY SMTT(60), <1>2, <1>3, <2>1, <2>2
<1>5. ~ (i < s)
  <2> SUFFICES ASSUME i < s PROVE FALSE
    OBVIOUS
  <2>1. i + 1 \in 1 .. n /\ i + 1 <= s /\ i \in 1 .. n - 1
    BY SMTT(60), <1>1, <1>2
  <2>2. /\ segments[i + 1].base \in Nat /\ segments[s].base \in Nat
        /\ segments[i + 1].base <= segments[s].base
    BY ZenonT(60), <1>2, <2>1, BasesMonotone
  <2>3. segments[i + 1].base = segments[i].next
    BY Zenon, <2>1 DEF SegmentsOK
  <2> QED
    BY SMTT(60), <1>2, <1>3, <2>2, <2>3
<1>6. s = i
  BY SMTT(60), <1>1, <1>2, <1>4, <1>5
<1> QED
  BY Zenon, <1>6 DEF s

\* Partition::read finds every stored record, and only that one.
LEMMA ReadStored ==
  ASSUME IInv, NEW r \in Stored
  PROVE  Read(r.offset) = {r}
<1>1. SegmentsOK(segments) /\ segments \in Seq(Segment)
  BY Zenon, Unfold DEF SegmentsOK
<1>2. PICK i \in 1 .. Len(segments) :
        LET j == r.offset - segments[i].base + 1
        IN  /\ r.offset \in Nat /\ InSegment(segments[i], r.offset)
            /\ j \in 1 .. Len(segments[i].log) /\ r = View(segments[i].log[j])
  BY ZenonT(60), <1>1, StoredAt, StoredIs
<1> DEFINE seg == segments[i]
           j == r.offset - seg.base + 1
<1>3. SegmentFor(r.offset) = i /\ i # 0
  BY SMTT(60), <1>1, <1>2, SegmentForIs, LenProperties
<1>4. seg \in Segment /\ SegmentOK(seg)
  BY Zenon, <1>1, LogOf DEF SegmentsOK
<1>5. seg.log[j].offset = r.offset /\ Located(seg, r.offset) = {j} /\ r = View(seg.log[j])
      /\ InSegment(seg, r.offset)
  BY ZenonT(60), <1>2, <1>4, LocatedOK
<1> HIDE DEF j, seg
<1>6. {k \in Located(seg, r.offset) : seg.log[k].offset = r.offset} = {j}
  BY Zenon, <1>5
<1>7. ReadAt(seg, r.offset) = {r}
  BY Zenon, <1>5, <1>6 DEF ReadAt
<1> QED
  BY Zenon, <1>3, <1>7 DEF Read, seg

-----------------------------------------------------------------------------
\* Batches.

\* Where append_batch stands: `done' payloads are stored, the others are left.
LEMMA BatchFacts ==
  ASSUME IInv, BatchPrefix, BatchBase, phase = "batch"
  PROVE  LET done == NextOffset - batch.from
         IN  /\ batch.request \in Seq(Blob) /\ Len(batch.request) \in Nat
             /\ batch.from \in Nat /\ NextOffset \in Nat
             /\ done \in 0 .. Len(batch.request)
             /\ batch.rest \in Seq(Blob) /\ Len(batch.rest) = Len(batch.request) - done
             /\ \A j \in 1 .. Len(batch.rest) : batch.rest[j] = batch.request[done + j]
             /\ \A j \in 1 .. done :
                  [offset |-> batch.from + j - 1, key |-> None, value |-> batch.request[j]]
                    \in Stored
             /\ reply.op = "none"
             /\ batch.base = IF done = 0 THEN None ELSE batch.from
<1> DEFINE done == NextOffset - batch.from
           L == Len(batch.request)
<1>1. /\ batch.request \in Seq(Blob) /\ batch.rest \in Seq(Blob) /\ batch.from \in Nat
      /\ NextOffset \in Nat /\ L \in Nat /\ Len(batch.rest) \in Nat
  BY ZenonT(60), Unfold, LenProperties DEF IInv, TypeOK, BatchLocals
<1>2. /\ done \in 0 .. L /\ batch.rest = SubSeq(batch.request, done + 1, L)
      /\ \A j \in 1 .. done :
           [offset |-> batch.from + j - 1, key |-> None, value |-> batch.request[j]] \in Stored
  BY Zenon DEF BatchPrefix
<1>3. reply.op = "none" /\ batch.base = IF NextOffset = batch.from THEN None ELSE batch.from
  BY Zenon DEF BatchBase
<1>4. (NextOffset = batch.from) <=> (done = 0)
  BY SMTT(60), <1>1
<1> HIDE DEF done
<1>5. \A i \in done + 1 .. L : batch.request[i] \in Blob
  BY SMTT(60), <1>1, <1>2, ElementOfSeq
<1>6. /\ Len(SubSeq(batch.request, done + 1, L)) = IF done + 1 <= L THEN L - (done + 1) + 1 ELSE 0
      /\ \A i \in 1 .. L - (done + 1) + 1 :
           SubSeq(batch.request, done + 1, L)[i] = batch.request[(done + 1) + i - 1]
  BY SMTT(60), <1>1, <1>2, <1>5, SubSeqProperties
<1>7. Len(batch.rest) = L - done
  BY SMTT(60), <1>1, <1>2, <1>6
<1>8. \A j \in 1 .. L - done : batch.rest[j] = batch.request[done + j]
  <2> SUFFICES ASSUME NEW j \in 1 .. L - done PROVE batch.rest[j] = batch.request[done + j]
    OBVIOUS
  <2>1. j \in 1 .. L - (done + 1) + 1 /\ (done + 1) + j - 1 = done + j
    <3>1. L \in Nat /\ done \in 0 .. L
      BY Zenon, <1>1, <1>2
    <3> HIDE DEF L
    <3> QED
      BY SMT, <3>1
  <2> QED
    BY Zenon, <1>2, <1>6, <2>1
<1>9. \A j \in 1 .. Len(batch.rest) : batch.rest[j] = batch.request[done + j]
  BY Zenon, <1>7, <1>8
<1> QED
  BY ZenonT(60), <1>1, <1>2, <1>3, <1>4, <1>7, <1>9 DEF done

\* A step after which no batch is in progress or answered.
LEMMA NoBatchAfter ==
  ASSUME phase' # "batch", reply'.op # "batch"
  PROVE  BatchPrefix' /\ BatchBase'
BY Zenon DEF BatchPrefix, BatchBase

\* A batch begins.
LEMMA BeginBatchStep ==
  ASSUME NEW payloads \in Batches, IInv, BeginBatch(payloads)
  PROVE  BatchPrefix' /\ BatchBase'
<1>1. payloads \in Seq(Blob) /\ Len(payloads) \in Nat /\ NextOffset \in Nat
  BY Zenon, InputAssumption, LenProperties, Unfold
<1>2. /\ phase' = "batch" /\ reply'.op = "none" /\ segments' = segments
      /\ batch'.request = payloads /\ batch'.rest = payloads /\ batch'.from = NextOffset
      /\ batch'.base = None
  BY Zenon DEF BeginBatch, NoBatch, NoReply, Reply
<1>3. NextOffset' = NextOffset
  BY Zenon, <1>2, SameSegmentsKeeps DEF Keeps
<1>4. NextOffset' - batch'.from = 0
  BY SMTT(60), <1>1, <1>2, <1>3
<1>5. payloads = SubSeq(payloads, 1, Len(payloads))
  BY ZenonT(60), <1>1, SubSeqFull
<1>6. 1 .. 0 = {} /\ 0 + 1 = 1 /\ 0 \in 0 .. Len(payloads)
  BY <1>1
<1>7. BatchPrefix'
  BY ZenonT(60), <1>2, <1>4, <1>5, <1>6 DEF BatchPrefix
<1>8. BatchBase'
  BY ZenonT(60), <1>2, <1>3 DEF BatchBase
<1> QED
  BY Zenon, <1>7, <1>8

\* Staging and rotating store nothing and leave the batch where it stands.
LEMMA BatchWaits ==
  ASSUME IInv, BatchPrefix, BatchBase, StagePayload \/ BatchRotate
  PROVE  BatchPrefix' /\ BatchBase'
<1>1. Keeps
  BY ZenonT(60), SameSegmentsKeeps, BatchRotateKeeps DEF StagePayload
<1>2. /\ phase = "batch" /\ phase' = phase /\ reply' = reply
      /\ batch'.request = batch.request /\ batch'.rest = batch.rest
      /\ batch'.from = batch.from /\ batch'.base = batch.base
  <2>1. batch \in BatchLocals
    BY Zenon DEF IInv, TypeOK
  <2> QED
    BY Zenon, <2>1 DEF StagePayload, BatchRotate, HasPayload, BatchLocals
<1>3. reply.op = "none"
  BY Zenon, <1>2 DEF BatchBase
<1>4. BatchPrefix'
  BY ZenonT(60), <1>1, <1>2, <1>3 DEF BatchPrefix, Keeps
<1>5. BatchBase'
  BY ZenonT(60), <1>1, <1>2, <1>3 DEF BatchBase, Keeps
<1> QED
  BY Zenon, <1>4, <1>5

\* A position past the first d of d + m is one of the m that follow.
LEMMA PastPrefix ==
  ASSUME NEW d \in Nat, NEW m \in Nat, NEW r \in Nat, m <= r,
         NEW j \in 1 .. d + m, j \notin 1 .. d
  PROVE  j \in Int /\ j - d \in 1 .. m /\ j - d \in 1 .. r /\ d + (j - d) = j
OBVIOUS

\* A chunk is written: the prefix grows by what was staged.
LEMMA WriteChunkStep ==
  ASSUME IInv, BatchPrefix, BatchBase, WriteChunk
  PROVE  BatchPrefix' /\ BatchBase'
<1> DEFINE done == NextOffset - batch.from
           m == Len(batch.staged)
           L == Len(batch.request)
<1>1. phase = "batch" /\ phase' = "batch" /\ reply' = reply /\ batch \in BatchLocals
  BY Zenon DEF WriteChunk, IInv, TypeOK
<1>2. /\ batch.request \in Seq(Blob) /\ L \in Nat /\ batch.from \in Nat
      /\ NextOffset \in Nat /\ done \in 0 .. L /\ batch.rest \in Seq(Blob)
      /\ Len(batch.rest) = L - done
      /\ \A j \in 1 .. Len(batch.rest) : batch.rest[j] = batch.request[done + j]
      /\ \A j \in 1 .. done :
           [offset |-> batch.from + j - 1, key |-> None, value |-> batch.request[j]] \in Stored
      /\ reply.op = "none"
      /\ batch.base = IF done = 0 THEN None ELSE batch.from
  BY ZenonT(60), <1>1, BatchFacts
<1>3. /\ batch.staged \in Seq(Placed) /\ batch.staged # <<>> /\ m \in Nat /\ m > 0
      /\ m <= Len(batch.rest)
      /\ \A j \in 1 .. m : batch.staged[j].key = None /\ batch.staged[j].value = batch.rest[j]
  <2>1. /\ batch.staged \in Seq(Placed) /\ batch.staged # <<>>
        /\ Len(batch.staged) <= Len(batch.rest)
        /\ \A j \in DOMAIN batch.staged :
             batch.staged[j].key = None /\ batch.staged[j].value = batch.rest[j]
    BY ZenonT(60), <1>1 DEF WriteChunk, IInv, BatchLocals, StagedConsistent
  <2>2. m \in Nat /\ m > 0 /\ DOMAIN batch.staged = 1 .. m
    BY SMTT(60), <2>1, EmptySeq, LenProperties
  <2> QED
    BY ZenonT(60), <2>1, <2>2
<1>4. /\ Stored' = Stored \cup Views(batch.staged) /\ NextOffset' = NextOffset + m
      /\ \A j \in 1 .. m : batch.staged[j].offset = NextOffset + j - 1
  BY Zenon, WriteChunkGrows DEF Grows
<1>5. /\ batch'.request = batch.request /\ batch'.from = batch.from
      /\ batch'.rest = SubSeq(batch.rest, m + 1, Len(batch.rest))
      /\ batch'.base = IF batch.base = None THEN NextOffset ELSE batch.base
  BY Zenon, <1>1 DEF WriteChunk, SplitOff, BatchLocals
<1>6. /\ NextOffset' - batch.from = done + m /\ done + m \in 0 .. L /\ NextOffset' # batch.from
  <2>1. /\ NextOffset \in Nat /\ batch.from \in Nat /\ m \in Nat /\ m > 0 /\ L \in Nat
        /\ done = NextOffset - batch.from /\ done \in 0 .. L /\ m <= L - done
    BY Zenon, <1>2, <1>3
  <2>2. NextOffset' = NextOffset + m
    BY Zenon, <1>4
  <2> HIDE DEF done, m, L
  <2>3. done + m \in 0 .. L /\ done + m > 0
    BY SMTT(60), <2>1
  <2>4. NextOffset' - batch.from = done + m
    BY SMTT(60), <2>1, <2>2
  <2> QED
    BY SMTT(60), <2>1, <2>2, <2>3, <2>4
<1>7. None \notin Nat
  BY Zenon, BlobAssumption
<1>8. batch'.base = batch.from
  <2>1. CASE done = 0
    BY SMTT(60), <1>2, <1>5, <2>1
  <2>2. CASE done # 0
    BY Zenon, <1>2, <1>5, <1>7, <2>2
  <2> QED
    BY ZenonT(60), <2>1, <2>2
<1> HIDE DEF done, m, L
<1>9. batch'.rest = SubSeq(batch.request, (done + m) + 1, L)
  <2> DEFINE s == SubSeq(batch.rest, m + 1, Len(batch.rest))
             t == SubSeq(batch.request, (done + m) + 1, L)
             k == L - done - m
  <2>1. k \in Nat
    BY SMTT(60), <1>2, <1>3
  <2>2. \A i \in m + 1 .. Len(batch.rest) : batch.rest[i] \in Blob
    BY SMTT(60), <1>2, <1>3, ElementOfSeq
  <2>3. /\ s \in Seq(Blob)
        /\ Len(s) = IF m + 1 <= Len(batch.rest) THEN Len(batch.rest) - (m + 1) + 1 ELSE 0
        /\ \A i \in 1 .. Len(batch.rest) - (m + 1) + 1 : s[i] = batch.rest[(m + 1) + i - 1]
    BY SMTT(60), <1>2, <1>3, <2>2, SubSeqProperties
  <2>4. \A i \in (done + m) + 1 .. L : batch.request[i] \in Blob
    <3> SUFFICES ASSUME NEW i \in (done + m) + 1 .. L PROVE batch.request[i] \in Blob
      OBVIOUS
    <3>1. i \in 1 .. L
      BY SMTT(60), <1>2, <1>3
    <3> QED
      BY Zenon, <1>2, <3>1, ElementOfSeq DEF L
  <2>5. /\ t \in Seq(Blob)
        /\ Len(t) = IF (done + m) + 1 <= L THEN L - ((done + m) + 1) + 1 ELSE 0
        /\ \A i \in 1 .. L - ((done + m) + 1) + 1 : t[i] = batch.request[((done + m) + 1) + i - 1]
    <3>1. (done + m) + 1 \in Int /\ L \in Int
      BY SMTT(60), <1>2, <1>3
    <3> QED
      BY SMTT(60), <2>4, <3>1, SubSeqProperties
  <2>6. Len(s) = k /\ Len(t) = k
    BY SMTT(60), <1>2, <1>3, <2>1, <2>3, <2>5
  <2>7. ASSUME NEW i \in 1 .. k PROVE s[i] = t[i]
    <3>1. /\ i \in 1 .. Len(batch.rest) - (m + 1) + 1
          /\ (m + 1) + i - 1 = m + i /\ m + i \in 1 .. Len(batch.rest)
          /\ i \in 1 .. L - ((done + m) + 1) + 1
          /\ ((done + m) + 1) + i - 1 = done + (m + i)
      <4> DEFINE n == Len(batch.rest)
      <4>1. L \in Nat /\ done \in 0 .. L /\ n = L - done /\ m \in Nat
        BY ZenonT(60), <1>2, <1>3
      <4> HIDE DEF n
      <4>2. /\ i \in 1 .. n - (m + 1) + 1
            /\ (m + 1) + i - 1 = m + i /\ m + i \in 1 .. n
            /\ i \in 1 .. L - ((done + m) + 1) + 1
            /\ ((done + m) + 1) + i - 1 = done + (m + i)
        BY SMTT(60), <2>1, <4>1
      <4> QED
        BY ZenonT(60), <4>2 DEF n
    <3>2. s[i] = batch.rest[m + i]
      BY ZenonT(60), <2>3, <3>1
    <3>3. t[i] = batch.request[done + (m + i)]
      BY ZenonT(60), <2>5, <3>1
    <3> QED
      BY ZenonT(60), <1>2, <3>1, <3>2, <3>3
  <2> HIDE DEF s, t, k
  <2>8. s = t
    BY ZenonT(60), <2>3, <2>5, <2>6, <2>7, SeqEqual
  <2> QED
    BY ZenonT(60), <1>5, <2>8 DEF s, t
<1>10. \A j \in 1 .. done + m :
         [offset |-> batch.from + j - 1, key |-> None, value |-> batch.request[j]] \in Stored'
  <2> SUFFICES ASSUME NEW j \in 1 .. done + m
               PROVE  [offset |-> batch.from + j - 1, key |-> None, value |-> batch.request[j]]
                        \in Stored'
    OBVIOUS
  <2>1. CASE j \in 1 .. done
    BY ZenonT(60), <1>2, <1>4, <2>1
  <2>2. CASE j \notin 1 .. done
    <3>1. /\ j - done \in 1 .. m /\ j - done \in 1 .. Len(batch.rest) /\ done + (j - done) = j
          /\ NextOffset + (j - done) - 1 = batch.from + j - 1
      <4>1. /\ NextOffset \in Nat /\ batch.from \in Nat /\ m \in Nat /\ Len(batch.rest) \in Nat
            /\ done = NextOffset - batch.from /\ done \in 0 .. L /\ m <= Len(batch.rest)
        <5>1. Len(batch.rest) \in Nat
          BY ZenonT(60), <1>2, LenProperties
        <5>2. done = NextOffset - batch.from
          BY ZenonT(60) DEF done
        <5> QED
          BY ZenonT(60), <1>2, <1>3, <5>1, <5>2
      <4>2. done \in Nat /\ L \in Nat
        BY SMTT(60), <1>2, <4>1
      <4>3. j \in Int /\ j - done \in 1 .. m /\ j - done \in 1 .. Len(batch.rest)
        BY <2>2, <4>1, <4>2, PastPrefix, ZenonT(60)
      <4>4. j - done \in Int
        BY SMTT(60), <4>2, <4>3
      <4>5. done + (j - done) = j
        <5>1. \A d, k \in Int : d + (k - d) = k
          OBVIOUS
        <5> QED
          BY SMTT(60), <4>2, <4>3, <5>1
      <4>6. NextOffset = batch.from + done
        BY SMTT(60), <4>1, <4>2
      <4>7. NextOffset + (j - done) - 1 = batch.from + j - 1
        <5>1. \A n, f, d, k \in Int : n = f + d => n + (k - d) - 1 = f + k - 1
          OBVIOUS
        <5>2. NextOffset \in Int /\ batch.from \in Int /\ done \in Int
          BY SMTT(60), <4>1, <4>2
        <5> QED
          BY SMTT(60), <4>4, <4>6, <5>1, <5>2
      <4> QED
        BY ZenonT(60), <4>3, <4>4, <4>5, <4>7
    <3>2. View(batch.staged[j - done]) =
            [offset |-> batch.from + j - 1, key |-> None, value |-> batch.request[j]]
      <4>1. /\ batch.staged[j - done].offset = batch.from + j - 1
            /\ batch.staged[j - done].key = None
            /\ batch.staged[j - done].value = batch.rest[j - done]
        BY ZenonT(60), <1>3, <1>4, <3>1
      <4>2. batch.rest[j - done] = batch.request[j]
        BY Zenon, <1>2, <3>1
      <4> QED
        BY Zenon, <4>1, <4>2 DEF View
    <3> QED
      BY ZenonT(60), <1>4, <3>1, <3>2 DEF Views, m
  <2> QED
    BY ZenonT(60), <2>1, <2>2
<1>11. BatchPrefix'
  BY ZenonT(60), <1>1, <1>2, <1>5, <1>6, <1>9, <1>10 DEF BatchPrefix, L
<1>12. BatchBase'
  BY ZenonT(60), <1>1, <1>2, <1>5, <1>6, <1>8 DEF BatchBase
<1> QED
  BY ZenonT(60), <1>11, <1>12

\* A payload is too large: the batch ends short of it.
LEMMA BatchTooLargeStep ==
  ASSUME IInv, BatchPrefix, BatchBase, BatchTooLarge
  PROVE  BatchPrefix' /\ BatchBase'
<1> DEFINE done == NextOffset - batch.from
           m == Len(batch.staged)
           L == Len(batch.request)
<1>1. /\ phase = "batch" /\ phase' = "idle" /\ batch \in BatchLocals /\ HasPayload
      /\ reply'.op = "batch" /\ reply'.status = "MessageTooLarge" /\ segments' = segments
      /\ TooLarge(None, batch.rest[m + 1])
  BY Zenon DEF BatchTooLarge, HasPayload, Payload, IInv, TypeOK, Reply
<1>2. /\ batch'.request = batch.request /\ batch'.from = batch.from /\ batch'.rest = batch.rest
  BY ZenonT(60), <1>1 DEF BatchTooLarge, BatchLocals
<1>3. /\ L \in Nat /\ done \in 0 .. L /\ Len(batch.rest) = L - done
      /\ \A j \in 1 .. Len(batch.rest) : batch.rest[j] = batch.request[done + j]
  BY ZenonT(60), <1>1, BatchFacts
<1>4. m \in Nat /\ m + 1 \in 1 .. Len(batch.rest)
  BY ZenonT(60), <1>1, PayloadType
<1>5. /\ batch.rest = SubSeq(batch.request, done + 1, L)
      /\ \A j \in 1 .. done :
           [offset |-> batch.from + j - 1, key |-> None, value |-> batch.request[j]] \in Stored
  BY Zenon, <1>1 DEF BatchPrefix
<1>6. Keeps
  BY ZenonT(60), <1>1, SameSegmentsKeeps
<1> HIDE DEF done, m, L
<1>7. done + (m + 1) \in done + 1 .. L /\ TooLarge(None, batch.request[done + (m + 1)])
  <2>1. done + (m + 1) \in done + 1 .. L
    BY SMTT(60), <1>3, <1>4
  <2> QED
    BY ZenonT(60), <1>1, <1>3, <1>4, <2>1
<1>8. NextOffset' - batch'.from = done /\ Len(batch'.request) = L
  BY Zenon, <1>2, <1>6 DEF Keeps, done, L
<1>9. BatchPrefix'
  <2>1. \E j \in done + 1 .. L : TooLarge(None, batch'.request[j])
    BY Zenon, <1>2, <1>7
  <2> QED
    BY ZenonT(60), <1>1, <1>2, <1>3, <1>5, <1>6, <1>8, <2>1 DEF BatchPrefix, Keeps, TooLarge
<1> QED
  BY ZenonT(60), <1>1, <1>9 DEF BatchBase

\* The batch is done: all of it is stored from where it began.
LEMMA BatchDoneStep ==
  ASSUME IInv, BatchPrefix, BatchBase, BatchDone
  PROVE  BatchPrefix' /\ BatchBase' /\ acked' \subseteq acked \cup Stored
<1> DEFINE done == NextOffset - batch.from
           L == Len(batch.request)
           base == IF batch.base = None THEN NextOffset ELSE batch.base
<1>1. /\ phase = "batch" /\ batch.rest = <<>> /\ phase' = "idle"
      /\ segments' = segments /\ batch' = batch
      /\ reply' = Reply("batch", "Ok", base)
      /\ acked' = acked \cup
           {[offset |-> base + j - 1, key |-> None, value |-> batch.request[j]] :
              j \in DOMAIN batch.request}
  BY Zenon DEF BatchDone
<1>2. /\ L \in Nat /\ done \in 0 .. L /\ Len(batch.rest) = L - done
      /\ batch.from \in Nat /\ NextOffset \in Nat
      /\ \A j \in 1 .. done :
           [offset |-> batch.from + j - 1, key |-> None, value |-> batch.request[j]] \in Stored
      /\ batch.base = (IF done = 0 THEN None ELSE batch.from)
      /\ DOMAIN batch.request = 1 .. L
  BY Zenon, <1>1, BatchFacts, LenProperties
<1>3. Keeps
  BY Zenon, <1>1, SameSegmentsKeeps
<1>4. done = L
  BY SMTT(60), <1>1, <1>2, EmptySeq
<1>5. base = batch.from
  <2>1. CASE done = 0
    BY SMTT(60), <1>2, <2>1
  <2>2. CASE done # 0
    BY ZenonT(60), <1>2, <2>2, BlobAssumption
  <2> QED
    BY ZenonT(60), <2>1, <2>2
<1> HIDE DEF base
<1>6. acked' \subseteq acked \cup Stored
  BY ZenonT(60), <1>1, <1>2, <1>4, <1>5
<1>7. /\ reply'.op = "batch" /\ reply'.status = "Ok" /\ reply'.offset = batch.from
  BY ZenonT(60), <1>1, <1>5 DEF Reply
<1>8. NextOffset' = NextOffset /\ Stored' = Stored
  BY Zenon, <1>3 DEF Keeps
<1>9. batch.rest = SubSeq(batch.request, done + 1, L)
  BY ZenonT(60), <1>1 DEF BatchPrefix
<1>10. BatchPrefix'
  BY ZenonT(60), <1>1, <1>2, <1>4, <1>7, <1>8, <1>9 DEF BatchPrefix
<1> QED
  BY Zenon, <1>1, <1>6, <1>10 DEF BatchBase

-----------------------------------------------------------------------------
\* Acknowledgements.

\* Whatever is acknowledged is stored, and stays so.
LEMMA AckedStep ==
  ASSUME IInv, BatchPrefix, BatchBase, acked \subseteq Stored, [Next]_vars
  PROVE  acked' \subseteq Stored'
<1>1. Stored \subseteq Stored'
  BY Zenon, StepGrowsOrKeeps DEF Grows, Keeps
<1>2. ASSUME NEW m \in Messages, Produce(m[1], m[2]) \/ ProduceRotate(m[1], m[2])
      PROVE  acked' \subseteq Stored'
  <2> DEFINE r == [offset |-> NextOffset, key |-> m[1], value |-> m[2]]
  <2>1. m[1] \in Field /\ m[2] \in Field
    BY Zenon, InputAssumption DEF Field
  <2>2. acked' = acked \cup {r}
    BY Zenon, <1>2 DEF Produce, ProduceRotate, Ack
  <2>3. \E staged : Grows(staged) /\ Views(staged) = {r}
    BY ZenonT(60), <1>2, <2>1, ProduceGrows, ProduceRotateGrows
  <2>4. r \in Stored'
    BY Zenon, <2>3 DEF Grows
  <2> QED
    BY ZenonT(60), <1>1, <2>2, <2>4
<1>3. ASSUME BatchDone PROVE acked' \subseteq Stored'
  BY ZenonT(60), <1>1, <1>3, BatchDoneStep
<1>4. ASSUME acked' = acked PROVE acked' \subseteq Stored'
  BY ZenonT(60), <1>1, <1>4
<1>5. ASSUME NEW m \in Messages, ProduceTooLarge(m[1], m[2]) PROVE acked' = acked
  BY Zenon, <1>5 DEF ProduceTooLarge
<1>6. ASSUME NEW payloads \in Batches, BeginBatch(payloads) PROVE acked' = acked
  BY Zenon, <1>6 DEF BeginBatch
<1>7. ASSUME StagePayload \/ BatchTooLarge \/ WriteChunk \/ BatchRotate PROVE acked' = acked
  BY Zenon, <1>7 DEF StagePayload, BatchTooLarge, WriteChunk, BatchRotate
<1>8. ASSUME NEW o \in 0 .. MaxOffset, NEW max \in Budgets, BeginFetch(o, max)
      PROVE  acked' = acked
  BY Zenon, <1>8 DEF BeginFetch
<1>9. ASSUME FetchSegment \/ FetchOversized \/ FetchDone \/ Reopen PROVE acked' = acked
  BY Zenon, <1>9 DEF FetchSegment, FetchOversized, FetchDone, Reopen
<1>10. ASSUME UNCHANGED vars PROVE acked' = acked
  BY Zenon, <1>10 DEF vars
<1> QED
  BY ZenonT(60), <1>2, <1>3, <1>4, <1>5, <1>6, <1>7, <1>8, <1>9, <1>10 DEF Next

-----------------------------------------------------------------------------
\* Fetches.

\* A step after which no fetch is in progress or answered.
LEMMA NoFetchAfter ==
  ASSUME phase' # "fetch", reply'.op # "fetch"
  PROVE  FetchFaithful' /\ FetchProgress'
BY Zenon DEF FetchFaithful, FetchProgress

\* What Segment::read_batch returns is stored, in order, and starts at the
\* offset it was asked for.
LEMMA RecordsFacts ==
  ASSUME IInv, Fetching, Records # <<>>
  PROVE  /\ \A i \in 1 .. Len(Records) :
              /\ View(Records[i]) \in Stored /\ Records[i].offset = fetch.offset + i - 1
              /\ Records[i].offset < segments[fetch.seg].next
         /\ fetch.offset \in Nat
<1> DEFINE s == fetch.seg
           seg == segments[s]
           o == fetch.offset
           b == fetch.budget
           j == o - seg.base + 1
<1>1. /\ SegmentsOK(segments) /\ segments \in Seq(Segment) /\ s \in 1 .. Len(segments)
      /\ o \in Nat /\ b \in Nat
  BY ZenonT(60), Unfold, RecordsType DEF SegmentsOK, FetchLocals
<1>2. /\ seg \in Segment /\ SegmentOK(seg) /\ seg.log \in Seq(Placed) /\ seg.base \in Nat
      /\ DOMAIN seg.log = 1 .. Len(seg.log) /\ Len(seg.log) \in Nat
      /\ seg.next = seg.base + Len(seg.log)
      /\ \A i \in 1 .. Len(seg.log) : seg.log[i].offset = seg.base + i - 1
  BY ZenonT(60), <1>1, LogOf DEF SegmentsOK, SegmentOK, SegmentDense, Segment
<1>3. Records = SegmentReadBatch(seg, o, b)
  BY Zenon DEF Records
<1>4. InSegment(seg, o)
  BY Zenon, <1>3 DEF SegmentReadBatch
<1>5. j \in 1 .. Len(seg.log) /\ Located(seg, o) = {j}
  BY ZenonT(60), <1>1, <1>2, <1>4, LocatedOK
<1> HIDE DEF s, seg, o, b, j
<1>6. LET k == StopAt(seg.log, j, b)
      IN  /\ Records \in Seq(Placed) /\ Len(Records) = k - j /\ Len(Records) > 0
          /\ k \in j + 1 .. Len(seg.log) + 1
          /\ \A i \in 1 .. Len(Records) : Records[i] = seg.log[j + i - 1]
  BY ZenonT(60), <1>1, <1>2, <1>3, <1>4, ReadBatchOK DEF j
<1>7. ASSUME NEW i \in 1 .. Len(Records)
      PROVE  /\ View(Records[i]) \in Stored /\ Records[i].offset = o + i - 1
             /\ Records[i].offset < seg.next
  <2>1. Len(Records) \in Nat
    BY ZenonT(60), <1>6, LenProperties
  <2>2. j + i - 1 \in 1 .. Len(seg.log)
    <3> DEFINE k == StopAt(seg.log, j, b)
               n == Len(seg.log)
    <3>1. k \in j + 1 .. n + 1 /\ Len(Records) = k - j
      BY Zenon, <1>6
    <3>2. n \in Nat /\ j \in 1 .. n
      BY ZenonT(60), <1>2, <1>5, LenProperties
    <3> HIDE DEF k, n
    <3>3. j + i - 1 \in 1 .. n
      BY SMTT(60), <2>1, <3>1, <3>2
    <3> QED
      BY Zenon, <3>3 DEF n
  <2>3. Records[i] = seg.log[j + i - 1]
    BY Zenon, <1>6
  <2>4. Records[i].offset = seg.base + (j + i - 1) - 1
    BY ZenonT(60), <1>2, <2>2, <2>3
  <2>5. View(Records[i]) \in Stored
    <3>1. View(Records[i]) \in Views(seg.log)
      BY ZenonT(60), <2>2, <2>3 DEF Views
    <3> QED
      BY ZenonT(60), <1>1, <3>1, StoredIs, StoredInIff DEF seg
  <2>6. j = o - seg.base + 1
    BY Zenon DEF j
  <2>7. Records[i].offset = o + i - 1
    <3> DEFINE base == seg.base
               x == Records[i].offset
    <3>1. base \in Nat /\ o \in Nat /\ j = o - base + 1 /\ x = base + (j + i - 1) - 1
      BY Zenon, <1>1, <1>2, <2>4, <2>6
    <3> HIDE DEF base, x
    <3>2. x = o + i - 1
      BY SMTT(60), <2>1, <3>1
    <3> QED
      BY Zenon, <3>2 DEF x
  <2>8. Records[i].offset < seg.next
    BY <1>2, <2>2, <2>4, <2>1
  <2> QED
    BY ZenonT(60), <2>5, <2>7, <2>8
<1> QED
  BY ZenonT(60), <1>1, <1>7 DEF o, seg, s

\* If a fetch is about to read a stored record, that record is what it gets first.
LEMMA FirstRecord ==
  ASSUME IInv, Fetching, NEW r \in Stored, r.offset = fetch.offset,
         InSegment(segments[fetch.seg], r.offset)
  PROVE  Records # <<>> /\ View(Records[1]) = r
<1> DEFINE s == fetch.seg
           seg == segments[s]
           o == fetch.offset
           b == fetch.budget
           j == o - seg.base + 1
<1>1. /\ SegmentsOK(segments) /\ segments \in Seq(Segment) /\ s \in 1 .. Len(segments)
      /\ o \in Nat /\ b \in Nat
  BY ZenonT(60), Unfold, RecordsType DEF SegmentsOK, FetchLocals
<1>2. PICK i \in 1 .. Len(segments) :
        LET k == r.offset - segments[i].base + 1
        IN  /\ r.offset \in Nat /\ InSegment(segments[i], r.offset)
            /\ k \in 1 .. Len(segments[i].log) /\ r = View(segments[i].log[k])
  BY ZenonT(60), <1>1, StoredAt, StoredIs
<1>3. i = s
  BY ZenonT(60), <1>1, <1>2, SegmentForIs
<1>4. r = View(seg.log[j]) /\ InSegment(seg, o)
  BY ZenonT(60), <1>2, <1>3
<1>5. seg \in Segment /\ SegmentOK(seg)
  BY ZenonT(60), <1>1, LogOf DEF SegmentsOK
<1>6. Records = SegmentReadBatch(seg, o, b)
  BY Zenon DEF Records
<1>7. Records \in Seq(Placed) /\ Len(Records) > 0
      /\ \A n \in 1 .. Len(Records) : Records[n] = seg.log[j + n - 1]
  BY ZenonT(60), <1>1, <1>4, <1>5, <1>6, ReadBatchOK
<1>8. j \in 1 .. Len(seg.log)
  BY ZenonT(60), <1>1, <1>4, <1>5, LocatedOK
<1> HIDE DEF j, seg, o, b, s
<1>9. Len(Records) \in Nat /\ 1 \in 1 .. Len(Records) /\ j + 1 - 1 = j
  BY SMTT(60), <1>7, <1>8, LenProperties
<1>10. Records[1] = seg.log[j]
  BY ZenonT(60), <1>7, <1>9
<1>11. Records # <<>>
  BY SMTT(60), <1>7, <1>9, EmptySeq
<1> QED
  BY ZenonT(60), <1>4, <1>10, <1>11

\* A fetch begins at the segment that would hold the record asked for.
LEMMA BeginFetchStep ==
  ASSUME NEW o \in 0 .. MaxOffset, NEW max \in Budgets, IInv, BeginFetch(o, max)
  PROVE  FetchFaithful' /\ FetchProgress'
<1>1. o \in Nat /\ max \in Nat
  BY SMTT(60), LimitAssumption, InputAssumption
<1>2. /\ phase' = "fetch" /\ reply'.op = "none" /\ segments' = segments /\ buffer' = buffer
      /\ fetch'.results = <<>> /\ fetch'.from = o /\ fetch'.offset = o
      /\ fetch'.budget = max /\ fetch'.max = max /\ fetch'.seg = SegmentFor(o)
  BY Zenon DEF BeginFetch, NoReply, Reply
<1>3. SegmentsOK(segments) /\ SegmentFor(o) \in 1 .. Len(segments)
      /\ DOMAIN segments = 1 .. Len(segments)
  BY ZenonT(60), <1>1, Unfold, SegmentForOK, LenProperties DEF SegmentsOK
<1>4. ASSUME NEW r \in Stored, r.offset = o
      PROVE  InSegment(segments[SegmentFor(o)], o)
  BY Zenon, <1>1, <1>3, <1>4, StoredAt, StoredIs, SegmentForIs
<1>5. Stored' = Stored
  BY Zenon, <1>2, SameSegmentsKeeps DEF Keeps
<1>6. DOMAIN <<>> = {} /\ 1 .. Len(<<>>) - 1 = {}
  BY SMTT(60), EmptySeq
<1>7. \A r \in Stored' : r.offset = fetch'.from =>
        /\ fetch'.seg \in DOMAIN segments'
        /\ InSegment(segments'[fetch'.seg], fetch'.from)
  BY ZenonT(60), <1>2, <1>3, <1>4, <1>5
<1>8. FetchProgress'
  BY ZenonT(60), <1>2, <1>6, <1>7 DEF FetchProgress, HolesOnlyAt, InSegment
<1>9. FetchFaithful'
  BY Zenon, <1>2 DEF FetchFaithful
<1> QED
  BY ZenonT(60), <1>8, <1>9

\* The records of two runs, one after the other.
LEMMA Joined ==
  ASSUME NEW s \in Seq(Placed), NEW t \in Seq(Placed)
  PROVE  /\ Len(s \o t) = Len(s) + Len(t)
         /\ \A i \in 1 .. Len(s) : (s \o t)[i] = s[i]
         /\ \A i \in 1 .. Len(t) : (s \o t)[Len(s) + i] = t[i]
BY SMTT(60)

\* Two ascending runs, the second above the first, make one.
LEMMA AscendingConcat ==
  ASSUME NEW s \in Seq(Placed), NEW t \in Seq(Placed),
         \A i \in 1 .. Len(s) - 1 : s[i].offset < s[i + 1].offset,
         \A i \in 1 .. Len(t) - 1 : t[i].offset < t[i + 1].offset,
         s # <<>> /\ t # <<>> => s[Len(s)].offset < t[1].offset
  PROVE  LET all == s \o t
         IN  \A i \in 1 .. Len(all) - 1 : all[i].offset < all[i + 1].offset
<1> DEFINE all == s \o t
           n == Len(s)
           m == Len(t)
<1>1. n \in Nat /\ m \in Nat
  BY Zenon, LenProperties
<1>2. /\ Len(all) = n + m
      /\ \A i \in 1 .. n : all[i] = s[i]
      /\ \A i \in 1 .. m : all[n + i] = t[i]
  BY Zenon, Joined
<1>3. (n > 0 => s # <<>>) /\ (m > 0 => t # <<>>)
  BY SMTT(60), EmptySeq
<1> HIDE DEF all, n, m
<1> SUFFICES ASSUME NEW i \in 1 .. (n + m) - 1 PROVE all[i].offset < all[i + 1].offset
  BY Zenon, <1>2 DEF all
<1>4. CASE i < n
  <2>1. i \in 1 .. n /\ i + 1 \in 1 .. n /\ i \in 1 .. n - 1
    BY SMTT(60), <1>1, <1>4
  <2> QED
    BY Zenon, <1>2, <2>1 DEF n
<1>5. CASE i = n
  <2>1. n \in 1 .. n /\ 1 \in 1 .. m /\ n > 0 /\ m > 0
    BY SMTT(60), <1>1, <1>5
  <2>2. all[i] = s[n] /\ all[i + 1] = t[1]
    BY Zenon, <1>2, <1>5, <2>1
  <2> QED
    BY Zenon, <1>3, <2>1, <2>2 DEF n
<1>6. CASE i > n
  <2>1. i - n \in 1 .. m /\ i - n + 1 \in 1 .. m /\ i - n \in 1 .. m - 1
        /\ n + (i - n) = i /\ n + (i - n + 1) = i + 1
    BY SMTT(60), <1>1, <1>6
  <2>2. all[i] = t[i - n] /\ all[i + 1] = t[i - n + 1]
    <3>1. all[n + (i - n)] = t[i - n] /\ all[n + (i - n + 1)] = t[i - n + 1]
      BY Zenon, <1>2, <2>1
    <3> QED
      BY Zenon, <2>1, <3>1
  <2> QED
    BY ZenonT(60), <2>1, <2>2 DEF m
<1> QED
  BY SMTT(60), <1>1, <1>4, <1>5, <1>6

\* What Segment::read_batch returns is ascending.
LEMMA RecordsAscend ==
  ASSUME IInv, Fetching
  PROVE  \A i \in 1 .. Len(Records) - 1 : Records[i].offset < Records[i + 1].offset
<1> SUFFICES ASSUME NEW i \in 1 .. Len(Records) - 1
             PROVE  Records[i].offset < Records[i + 1].offset
  OBVIOUS
<1>1. Records \in Seq(Placed) /\ Len(Records) \in Nat
  BY Zenon, RecordsType, LenProperties
<1>2. i \in 1 .. Len(Records) /\ i + 1 \in 1 .. Len(Records)
  BY SMTT(60), <1>1
<1>3. Records # <<>>
  BY SMTT(60), <1>1, <1>2, EmptySeq
<1>4. /\ Records[i].offset = fetch.offset + i - 1
      /\ Records[i + 1].offset = fetch.offset + (i + 1) - 1 /\ fetch.offset \in Nat
  BY Zenon, <1>2, <1>3, RecordsFacts
<1> HIDE DEF Records
<1> QED
  BY <1>1, <1>4

\* What a fetch has after one more segment.
LEMMA Gathered ==
  ASSUME IInv, FetchProgress, Fetching
  PROVE  LET all == fetch.results \o Records
         IN  /\ all \in Seq(Placed) /\ DOMAIN all = 1 .. Len(all)
             /\ \A i \in 1 .. Len(all) : View(all[i]) \in Stored
             /\ \A i \in 1 .. Len(all) - 1 : all[i].offset < all[i + 1].offset
             /\ HolesOnlyAt(all, Bases)
             /\ \A r \in Stored :
                  r.offset = fetch.from /\ fetch.max > 0 =>
                    all # <<>> /\ View(all[1]) = r
<1> DEFINE old == fetch.results
           new == Records
           all == old \o new
           n == Len(old)
           m == Len(new)
<1>1. /\ old \in Seq(Placed) /\ new \in Seq(Placed) /\ n \in Nat /\ m \in Nat
      /\ DOMAIN old = 1 .. n /\ phase = "fetch" /\ fetch.seg \in DOMAIN segments
  BY ZenonT(60), RecordsType, LenProperties DEF FetchLocals, Fetching
<1>2. /\ \A i \in 1 .. n : View(old[i]) \in Stored
      /\ \A i \in 1 .. n - 1 : old[i].offset < old[i + 1].offset
      /\ HolesOnlyAt(old, Bases)
      /\ old # <<>> => fetch.offset = segments[fetch.seg].base /\ old[n].offset < fetch.offset
      /\ \A r \in Stored :
           r.offset = fetch.from /\ fetch.max > 0 =>
             \/ old # <<>> /\ View(old[1]) = r
             \/ /\ old = <<>> /\ fetch.offset = fetch.from /\ fetch.budget = fetch.max
                /\ InSegment(segments[fetch.seg], fetch.from)
  BY ZenonT(60), <1>1 DEF FetchProgress
<1>3. ASSUME new # <<>>
      PROVE  /\ \A i \in 1 .. m : View(new[i]) \in Stored
             /\ 1 \in 1 .. m /\ new[1].offset = fetch.offset
  <2>1. /\ \A i \in 1 .. m : View(new[i]) \in Stored /\ new[i].offset = fetch.offset + i - 1
        /\ fetch.offset \in Nat
    BY Zenon, <1>3, RecordsFacts
  <2>2. m \in Nat \ {0}
    BY Zenon, <1>1, <1>3, EmptySeq
  <2> HIDE DEF new, m
  <2>3. 1 \in 1 .. m
    BY SMTT(60), <2>2
  <2>4. new[1].offset = fetch.offset + 1 - 1
    BY Zenon, <2>1, <2>3
  <2> QED
    BY SMTT(60), <2>1, <2>3, <2>4
<1>4. \A i \in 1 .. m - 1 : new[i].offset < new[i + 1].offset
  BY Zenon, RecordsAscend
<1>5. HolesOnlyAt(new, Bases)
  <2> SUFFICES ASSUME NEW i \in 1 .. m - 1 PROVE new[i + 1].offset = new[i].offset + 1
    BY Zenon DEF HolesOnlyAt
  <2>1. /\ \A z \in 1 .. m : new[z].offset = fetch.offset + z - 1
        /\ fetch.offset \in Nat
    <3>1. new # <<>>
      BY SMTT(60), EmptySeq
    <3> QED
      BY Zenon, <3>1, RecordsFacts
  <2> HIDE DEF m, new
  <2>2. i \in 1 .. m /\ i + 1 \in 1 .. m /\ i \in Int
    BY SMTT(60), <1>1
  <2>3. new[i].offset = fetch.offset + i - 1 /\ new[i + 1].offset = fetch.offset + (i + 1) - 1
    BY Zenon, <2>1, <2>2
  <2> QED
    BY SMTT(60), <2>1, <2>2, <2>3
<1>6. ASSUME old # <<>>, new # <<>> PROVE new[1].offset \in Bases
  BY Zenon, <1>1, <1>2, <1>3, <1>6 DEF Bases
<1>7. ASSUME NEW r \in Stored, r.offset = fetch.from, fetch.max > 0
      PROVE  \/ old # <<>> /\ View(old[1]) = r
             \/ old = <<>> /\ new # <<>> /\ View(new[1]) = r
  <2>1. CASE old # <<>>
    BY Zenon, <1>2, <1>7, <2>1
  <2>2. CASE old = <<>>
    <3>1. /\ fetch.offset = fetch.from /\ fetch.budget = fetch.max
          /\ InSegment(segments[fetch.seg], fetch.from)
      BY ZenonT(60), <1>2, <1>7, <2>2
    <3> QED
      BY ZenonT(60), <1>7, <2>2, <3>1, FirstRecord
  <2> QED
    BY Zenon, <2>1, <2>2
<1> HIDE DEF old, new
<1>8. /\ all \in Seq(Placed) /\ Len(all) = n + m /\ DOMAIN all = 1 .. Len(all)
      /\ \A i \in 1 .. n : all[i] = old[i]
      /\ \A i \in 1 .. m : all[n + i] = new[i]
  BY SMTT(60), <1>1, ConcatProperties, LenProperties
<1>9. \A i \in 1 .. Len(all) - 1 : all[i].offset < all[i + 1].offset
  BY Zenon, <1>1, <1>2, <1>3, <1>4, AscendingConcat
<1>10. \A i \in 1 .. n + m : View(all[i]) \in Stored
  <2> SUFFICES ASSUME NEW i \in 1 .. n + m PROVE View(all[i]) \in Stored
    BY Zenon
  <2> HIDE DEF all, n
  <2>1. CASE i \in 1 .. n
    BY Zenon, <1>2, <1>8, <2>1
  <2>2. CASE i \notin 1 .. n
    <3> HIDE DEF m
    <3>1. i - n \in 1 .. m /\ n + (i - n) = i /\ m > 0
      BY SMTT(60), <1>1, <2>2
    <3>2. new # <<>>
      BY SMTT(60), <3>1, EmptySeq DEF m
    <3> QED
      BY Zenon, <1>3, <1>8, <3>1, <3>2
  <2> QED
    BY Zenon, <2>1, <2>2
<1>11. HolesOnlyAt(all, Bases)
  <2> SUFFICES ASSUME NEW i \in 1 .. (n + m) - 1
               PROVE  all[i + 1].offset = all[i].offset + 1 \/ all[i + 1].offset \in Bases
    BY Zenon, <1>8 DEF HolesOnlyAt
  <2> HIDE DEF all
  <2>1. CASE i \in 1 .. n - 1
    <3>1. i \in 1 .. n /\ i + 1 \in 1 .. n
      BY SMTT(60), <1>1, <2>1
    <3>2. old[i + 1].offset = old[i].offset + 1 \/ old[i + 1].offset \in Bases
      BY Zenon, <1>2, <2>1 DEF HolesOnlyAt
    <3> QED
      BY Zenon, <1>8, <3>1, <3>2
  <2>2. CASE i = n
    <3> HIDE DEF n, m
    <3>1. 1 \in 1 .. m /\ m # 0 /\ n # 0
      BY SMTT(60), <1>1, <2>2
    <3>2. old # <<>> /\ new # <<>>
      BY ZenonT(60), <3>1, EmptySeq DEF n, m
    <3> QED
      BY Zenon, <1>8, <1>6, <2>2, <3>1, <3>2
  <2>3. CASE i > n
    <3> DEFINE z == i - n
    <3>1. /\ z \in 1 .. m - 1 /\ z \in 1 .. m /\ z + 1 \in 1 .. m
          /\ n + z = i /\ n + (z + 1) = i + 1
      <4> HIDE DEF n, m
      <4> QED
        BY SMTT(60), <1>1, <2>3
    <3> HIDE DEF z
    <3>2. new[z + 1].offset = new[z].offset + 1 \/ new[z + 1].offset \in Bases
      BY Zenon, <1>5, <3>1 DEF HolesOnlyAt
    <3>3. all[n + z] = new[z] /\ all[n + (z + 1)] = new[z + 1]
      BY Zenon, <1>8, <3>1
    <3> QED
      BY Zenon, <3>1, <3>2, <3>3
  <2> QED
    <3>1. i \in 1 .. n - 1 \/ i = n \/ i > n
      <4> HIDE DEF n, m
      <4> QED
        BY SMTT(60), <1>1
    <3> QED
      BY Zenon, <2>1, <2>2, <2>3, <3>1
<1>12. ASSUME NEW r \in Stored, r.offset = fetch.from, fetch.max > 0
      PROVE  all # <<>> /\ View(all[1]) = r
  <2>1. CASE old # <<>>
    <3>1. n \in Nat \ {0}
      BY ZenonT(60), <1>1, <2>1, EmptySeq
    <3> HIDE DEF n, m
    <3>2. 1 \in 1 .. n /\ n + m # 0
      BY SMTT(60), <1>1, <3>1
    <3>3. all[1] = old[1]
      BY ZenonT(60), <1>8, <3>2
    <3>4. all # <<>>
      BY ZenonT(60), <1>8, <3>2, EmptySeq
    <3> QED
      BY ZenonT(60), <1>7, <1>12, <2>1, <3>3, <3>4
  <2>2. CASE old = <<>>
    <3>1. all = new
      BY ZenonT(60), <1>1, <2>2, ConcatEmptySeq
    <3> QED
      BY ZenonT(60), <1>7, <1>12, <2>2, <3>1
  <2> QED
    BY ZenonT(60), <2>1, <2>2
<1> QED
  BY ZenonT(60), <1>8, <1>9, <1>10, <1>12, <1>11 DEF old, new

\* The fetch goes on with the next segment.
LEMMA FetchSegmentStep ==
  ASSUME IInv, FetchProgress, FetchSegment
  PROVE  FetchFaithful' /\ FetchProgress'
<1> DEFINE all == fetch.results \o Records
           s == fetch.seg
<1>1. /\ Fetching /\ phase = "fetch" /\ phase' = "fetch" /\ segments' = segments
      /\ reply' = reply /\ buffer' = buffer
  BY Zenon DEF FetchSegment, Fetching
<1>2. fetch \in FetchLocals /\ s \in 1 .. Len(segments) /\ Len(segments) \in Nat
      /\ fetch.results \in Seq(Placed) /\ Records \in Seq(Placed)
  BY ZenonT(60), <1>1, RecordsType DEF FetchLocals
<1>3. /\ fetch'.results = all /\ fetch'.from = fetch.from /\ fetch'.max = fetch.max
      /\ fetch'.seg = s + 1
      /\ s < Len(segments) => fetch'.offset = segments[s + 1].base
  <2>1. fetch' = Advanced
    BY Zenon DEF FetchSegment
  <2> HIDE DEF Records
  <2> QED
    BY ZenonT(60), <1>2, <2>1 DEF Advanced, FetchLocals
<1>4. /\ all \in Seq(Placed) /\ DOMAIN all = 1 .. Len(all)
      /\ \A i \in 1 .. Len(all) : View(all[i]) \in Stored
      /\ \A i \in 1 .. Len(all) - 1 : all[i].offset < all[i + 1].offset
      /\ HolesOnlyAt(all, Bases)
      /\ \A r \in Stored :
           r.offset = fetch.from /\ fetch.max > 0 =>
             all # <<>> /\ View(all[1]) = r
  BY ZenonT(60), <1>1, Gathered
<1>5. Stored' = Stored
  BY ZenonT(60), <1>1, SameSegmentsKeeps DEF Keeps
<1>6. reply.op = "none"
  BY ZenonT(60), <1>1 DEF FetchProgress
<1>7. ASSUME s + 1 \in DOMAIN segments, all # <<>>
      PROVE  /\ fetch'.offset = segments[s + 1].base
             /\ all[Len(all)].offset < segments[s + 1].base
  <2>1. /\ SegmentsOK(segments) /\ segments \in Seq(Segment)
        /\ DOMAIN segments = 1 .. Len(segments)
    BY ZenonT(60), Unfold, LenProperties DEF SegmentsOK
  <2>2. s < Len(segments) /\ s \in 1 .. Len(segments) - 1 /\ s + 1 \in 1 .. Len(segments)
    BY SMTT(60), <1>2, <1>7, <2>1
  <2>3. segments[s + 1].base = segments[s].next
    BY ZenonT(60), <2>1, <2>2 DEF SegmentsOK
  <2>4. /\ Len(fetch.results) \in Nat /\ Len(Records) \in Nat
        /\ Len(all) = Len(fetch.results) + Len(Records)
        /\ \A i \in 1 .. Len(fetch.results) : all[i] = fetch.results[i]
        /\ \A i \in 1 .. Len(Records) : all[Len(fetch.results) + i] = Records[i]
    <3> HIDE DEF Records
    <3>1. fetch.results \in Seq(Placed) /\ Records \in Seq(Placed)
      BY Zenon, <1>2
    <3> QED
      BY SMT, <3>1
  <2>5. CASE Records # <<>>
    <3>1. Len(Records) \in 1 .. Len(Records)
      BY SMTT(60), <1>2, <2>5, EmptySeq
    <3>2. Records[Len(Records)].offset < segments[s].next
      BY Zenon, <1>1, <2>5, <3>1, RecordsFacts
    <3>3. all[Len(all)] = Records[Len(Records)]
      BY Zenon, <2>4, <3>1
    <3> QED
      BY Zenon, <1>3, <2>2, <2>3, <3>2, <3>3
  <2>6. CASE Records = <<>>
    <3>1. all = fetch.results
      BY ZenonT(60), <1>2, <2>6, ConcatEmptySeq
    <3>2. /\ fetch.offset = segments[s].base
          /\ fetch.results[Len(fetch.results)].offset < fetch.offset
      BY ZenonT(60), <1>1, <1>2, <1>7, <2>1, <3>1 DEF FetchProgress
    <3>3. segments[s].base < segments[s + 1].base
      BY SMTT(60), <1>2, <2>1, <2>2, BasesAscend
    <3>4. segments[s].base \in Nat /\ segments[s + 1].base \in Nat
      BY ZenonT(60), <1>2, <2>1, <2>2, LogOf DEF Segment
    <3>5. fetch.results[Len(fetch.results)].offset \in Nat
      <4>1. Len(fetch.results) \in 1 .. Len(fetch.results)
        BY SMTT(60), <1>2, <1>7, <3>1, EmptySeq
      <4>2. fetch.results[Len(fetch.results)] \in Placed
        BY ZenonT(60), <1>2, <4>1, ElementOfSeq
      <4> QED
        BY Zenon, <4>2 DEF Placed
    <3>6. fetch.results[Len(fetch.results)].offset < segments[s + 1].base
      <4> HIDE DEF all, s
      <4> QED
        BY SMTT(60), <3>2, <3>3, <3>4, <3>5
    <3>7. all[Len(all)] = fetch.results[Len(fetch.results)]
      BY Zenon, <3>1
    <3> QED
      BY Zenon, <1>3, <2>2, <3>6, <3>7
  <2> QED
    BY ZenonT(60), <2>5, <2>6
<1> HIDE DEF all
<1>8. Bases' = Bases
  BY ZenonT(60), <1>1 DEF Bases
<1>9. FetchProgress'
  <2>1. /\ reply'.op = "none" /\ fetch'.results = all
        /\ \A i \in DOMAIN all : View(all[i]) \in Stored'
        /\ \A i \in 1 .. Len(all) - 1 : all[i].offset < all[i + 1].offset
        /\ HolesOnlyAt(all, Bases')
    BY ZenonT(60), <1>1, <1>3, <1>4, <1>5, <1>6, <1>8
  <2>2. fetch'.seg \in DOMAIN segments' /\ all # <<>> =>
          /\ fetch'.offset = segments'[fetch'.seg].base
          /\ all[Len(all)].offset < fetch'.offset
    BY ZenonT(60), <1>1, <1>3, <1>7
  <2>3. \A r \in Stored' :
          r.offset = fetch'.from /\ fetch'.max > 0 =>
            all # <<>> /\ View(all[1]) = r
    BY ZenonT(60), <1>3, <1>4, <1>5
  <2> HIDE DEF s
  <2> QED
    BY ZenonT(60), <2>1, <2>2, <2>3 DEF FetchProgress
<1>10. FetchFaithful'
  BY ZenonT(60), <1>1, <1>6 DEF FetchFaithful
<1> QED
  BY ZenonT(60), <1>9, <1>10

\* The fetch ends with a single record over its budget, or with what it has.
LEMMA FetchOversizedStep ==
  ASSUME IInv, FetchProgress, FetchOversized
  PROVE  FetchFaithful' /\ FetchProgress'
<1> DEFINE all == fetch.results \o Records
<1>1. /\ Fetching /\ phase = "fetch" /\ phase' = "idle" /\ segments' = segments
      /\ buffer' = buffer /\ fetch \in FetchLocals
      /\ fetch.results \in Seq(Placed) /\ Records \in Seq(Placed)
  BY Zenon, RecordsType DEF FetchOversized, Fetching, FetchLocals
<1>2. /\ fetch'.from = fetch.from /\ fetch'.max = fetch.max
      /\ fetch'.results = IF fetch.results = <<>> THEN Records ELSE fetch.results
  <2> HIDE DEF Records
  <2> QED
    BY Zenon, <1>1 DEF FetchOversized, FetchLocals
<1>3. Stored' = Stored
  BY ZenonT(60), <1>1, SameSegmentsKeeps DEF Keeps
<1>4. Bases' = Bases
  BY ZenonT(60), <1>1 DEF Bases
<1>5. CASE fetch.results = <<>>
  <2>1. fetch'.results = all
    BY ZenonT(60), <1>1, <1>2, <1>5, ConcatEmptySeq
  <2>2. /\ DOMAIN all = 1 .. Len(all)
        /\ \A i \in 1 .. Len(all) : View(all[i]) \in Stored
        /\ \A i \in 1 .. Len(all) - 1 : all[i].offset < all[i + 1].offset
        /\ HolesOnlyAt(all, Bases)
        /\ \A r \in Stored :
             r.offset = fetch.from /\ fetch.max > 0 =>
               all # <<>> /\ View(all[1]) = r
    BY ZenonT(60), <1>1, Gathered
  <2> HIDE DEF all
  <2> QED
    BY ZenonT(60), <1>1, <1>2, <1>3, <1>4, <2>1, <2>2 DEF FetchFaithful, FetchProgress
<1>6. CASE fetch.results # <<>>
  <2>1. fetch'.results = fetch.results
    BY ZenonT(60), <1>2, <1>6
  <2> QED
    BY ZenonT(60), <1>1, <1>2, <1>3, <1>4, <1>6, <2>1 DEF FetchFaithful, FetchProgress
<1> QED
  BY ZenonT(60), <1>5, <1>6

\* The fetch ends: there is no segment or no budget left.
LEMMA FetchDoneStep ==
  ASSUME IInv, FetchProgress, FetchDone
  PROVE  FetchFaithful' /\ FetchProgress'
<1>1. /\ phase = "fetch" /\ phase' = "idle" /\ segments' = segments /\ buffer' = buffer
      /\ fetch' = fetch /\ ~Fetching
  BY Zenon DEF FetchDone
<1>2. Stored' = Stored
  BY ZenonT(60), <1>1, SameSegmentsKeeps DEF Keeps
<1>3. Bases' = Bases
  BY Zenon, <1>1 DEF Bases
<1>4. ASSUME fetch.max > 0, fetch.budget = fetch.max, fetch.seg \in DOMAIN segments
      PROVE  FALSE
  BY ZenonT(60), <1>1, <1>4 DEF Fetching
<1> QED
  BY ZenonT(60), <1>1, <1>2, <1>3, <1>4 DEF FetchFaithful, FetchProgress

-----------------------------------------------------------------------------
\* The budget of a fetch.

\* Induction over the natural numbers.
LEMMA Counting ==
  ASSUME NEW T, 0 \in T, \A n \in Nat : n \in T => n + 1 \in T
  PROVE  \A n \in Nat : n \in T
<1> DEFINE B == Nat \ T
<1> SUFFICES ASSUME B # {} PROVE FALSE
  OBVIOUS
<1>1. PICK x \in B : \A y \in B : x <= y
  BY ZenonT(60), LeastNat
<1>2. x \in Nat /\ x \notin T /\ x # 0
  OBVIOUS
<1>3. x - 1 \in Nat /\ ~ (x <= x - 1) /\ (x - 1) + 1 = x
  BY <1>2
<1>4. x - 1 \in B
  BY ZenonT(60), <1>2, <1>3
<1> QED
  BY ZenonT(60), <1>1, <1>3, <1>4

\* s[n] is the sum of the first n members of len.
Summed(s, m, len) == s = [n \in 0 .. m |-> IF n = 0 THEN 0 ELSE s[n - 1] + len[n]]

\* There is such a function, for every number of summands.
LEMMA SumExists ==
  ASSUME NEW m \in Nat, NEW len
  PROVE  \E s : Summed(s, m, len)
<1> DEFINE T == {k \in Nat : \E s : Summed(s, k, len)}
<1>1. 0 \in T
  <2> DEFINE s == [n \in 0 .. 0 |-> 0]
  <2>1. s = [n \in 0 .. 0 |-> IF n = 0 THEN 0 ELSE s[n - 1] + len[n]]
    BY SMT
  <2> QED
    BY ZenonT(60), <2>1 DEF Summed
<1>2. ASSUME NEW k \in Nat, k \in T PROVE k + 1 \in T
  <2>1. PICK s : s = [n \in 0 .. k |-> IF n = 0 THEN 0 ELSE s[n - 1] + len[n]]
    BY ZenonT(60), <1>2 DEF Summed
  <2> DEFINE g == [n \in 0 .. (k + 1) |-> IF n = k + 1 THEN s[k] + len[k + 1] ELSE s[n]]
  <2>2. ASSUME NEW n \in 0 .. (k + 1)
        PROVE  g[n] = IF n = 0 THEN 0 ELSE g[n - 1] + len[n]
    <3>1. CASE n = k + 1
      <4>1. n # 0 /\ n - 1 = k /\ k \in 0 .. (k + 1) /\ k # k + 1
        BY SMTT(60), <3>1
      <4> QED
        BY ZenonT(60), <3>1, <4>1
    <3>2. CASE n # k + 1
      <4>1. n \in 0 .. k
        BY SMTT(60), <3>2
      <4>2. g[n] = IF n = 0 THEN 0 ELSE s[n - 1] + len[n]
        BY ZenonT(60), <2>1, <3>2, <4>1
      <4>3. n # 0 => n - 1 \in 0 .. (k + 1) /\ n - 1 # k + 1
        BY SMTT(60), <4>1
      <4> QED
        BY ZenonT(60), <4>2, <4>3
    <3> QED
      BY ZenonT(60), <3>1, <3>2
  <2>3. g = [n \in 0 .. (k + 1) |-> g[n]]
    BY Zenon
  <2>4. g = [n \in 0 .. (k + 1) |-> IF n = 0 THEN 0 ELSE g[n - 1] + len[n]]
    <3> HIDE DEF g
    <3> QED
      BY ZenonT(60), <2>2, <2>3
  <2>5. k + 1 \in Nat
    OBVIOUS
  <2> HIDE DEF g
  <2> QED
    BY ZenonT(60), <2>4, <2>5 DEF Summed
<1> HIDE DEF T
<1>3. m \in T
  BY ZenonT(60), <1>1, <1>2, Counting
<1> QED
  BY ZenonT(60), <1>3 DEF T

LenOf(r) == RecordLen(r.key, r.value)

\* RunningLen counts as its definition says.
LEMMA RunningFacts ==
  ASSUME NEW rs \in Seq(Placed)
  PROVE  /\ RunningLen(rs)[0] = 0
         /\ \A n \in 1 .. Len(rs) : RunningLen(rs)[n] = RunningLen(rs)[n - 1] + LenOf(rs[n])
<1> DEFINE m == Len(rs)
           len == [n \in 1 .. m |-> LenOf(rs[n])]
           P(s) == s = [n \in 0 .. m |-> IF n = 0 THEN 0
                                         ELSE s[n - 1] + RecordLen(rs[n].key, rs[n].value)]
<1>1. m \in Nat
  BY ZenonT(60), LenProperties
<1>2. ASSUME NEW s PROVE P(s) <=> Summed(s, m, len)
  <2>1. ASSUME NEW n \in 0 .. m
        PROVE  (IF n = 0 THEN 0 ELSE s[n - 1] + RecordLen(rs[n].key, rs[n].value)) =
               (IF n = 0 THEN 0 ELSE s[n - 1] + len[n])
    <3>1. n # 0 => n \in 1 .. m
      BY SMTT(60), <1>1
    <3> QED
      BY ZenonT(60), <3>1 DEF LenOf
  <2>2. [n \in 0 .. m |-> IF n = 0 THEN 0 ELSE s[n - 1] + RecordLen(rs[n].key, rs[n].value)] =
        [n \in 0 .. m |-> IF n = 0 THEN 0 ELSE s[n - 1] + len[n]]
    BY ZenonT(60), <2>1
  <2> QED
    BY Zenon, <2>2 DEF Summed
<1>3. RunningLen(rs) = CHOOSE s : P(s)
  BY Zenon DEF RunningLen
<1>4. \E s : Summed(s, m, len)
  BY ZenonT(60), <1>1, SumExists
<1> HIDE DEF P
<1>5. P(RunningLen(rs))
  BY ZenonT(60), <1>2, <1>3, <1>4
<1>6. \A n \in 0 .. m : RunningLen(rs)[n] =
        IF n = 0 THEN 0 ELSE RunningLen(rs)[n - 1] + LenOf(rs[n])
  BY ZenonT(60), <1>5 DEF P, LenOf
<1>7. 0 \in 0 .. m /\ \A n \in 1 .. m : n \in 0 .. m /\ n # 0
  BY SMTT(60), <1>1
<1> QED
  BY ZenonT(60), <1>6, <1>7

\* Records that lie end to end, as in a log file.
EndToEnd(rs) == \A i \in 1 .. Len(rs) - 1 : rs[i + 1].at = End(rs[i])

\* Appending records that lie end to end adds the bytes between the first byte
\* of the first and the last byte of the last.
LEMMA TotalGrows ==
  ASSUME NEW old \in Seq(Placed), NEW new \in Seq(Placed), EndToEnd(new),
         TotalLen(old) \in Int
  PROVE  TotalLen(old \o new) = TotalLen(old) + Bytes(new)
<1> DEFINE all == old \o new
           n == Len(old)
           m == Len(new)
           f == RunningLen(old)
           g == RunningLen(all)
           Upto(k) == IF k = 0 THEN 0 ELSE End(new[k]) - new[1].at
<1>1. n \in Nat /\ m \in Nat
  BY ZenonT(60), LenProperties
<1>2. /\ all \in Seq(Placed) /\ Len(all) = n + m
      /\ \A i \in 1 .. n : all[i] = old[i]
      /\ \A i \in 1 .. m : all[n + i] = new[i]
  BY SMTT(60), <1>1, ConcatProperties
<1>3. f[0] = 0 /\ \A i \in 1 .. n : f[i] = f[i - 1] + LenOf(old[i])
  BY ZenonT(60), RunningFacts
<1>4. g[0] = 0 /\ \A i \in 1 .. n + m : g[i] = g[i - 1] + LenOf(all[i])
  BY ZenonT(60), <1>2, RunningFacts
<1>5. \A i \in 1 .. m : new[i] \in Placed
  BY ZenonT(60), ElementOfSeq
<1>6. TotalLen(old) = f[n] /\ TotalLen(all) = g[n + m]
  BY ZenonT(60), <1>2 DEF TotalLen
<1> HIDE DEF all, n, f, g, m
<1>7. g[n] = f[n]
  <2> DEFINE T == {k \in Nat : k <= n => g[k] = f[k]}
  <2>1. 0 \in T
    BY ZenonT(60), <1>3, <1>4
  <2>2. ASSUME NEW k \in Nat, k \in T PROVE k + 1 \in T
    <3> SUFFICES ASSUME k + 1 <= n PROVE g[k + 1] = f[k + 1]
      OBVIOUS
    <3>1. k <= n /\ k + 1 \in 1 .. n /\ k + 1 \in 1 .. n + m /\ (k + 1) - 1 = k
      BY SMTT(60), <1>1
    <3>2. g[k] = f[k]
      BY ZenonT(60), <2>2, <3>1
    <3> QED
      BY ZenonT(60), <1>2, <1>3, <1>4, <3>1, <3>2
  <2> HIDE DEF T
  <2>3. n \in T
    BY ZenonT(60), <1>1, <2>1, <2>2, Counting
  <2>4. n <= n
    BY SMTT(60), <1>1
  <2> QED
    BY ZenonT(60), <2>3, <2>4 DEF T
<1>8. g[n + m] = f[n] + Upto(m)
  <2> DEFINE T == {k \in Nat : k <= m => g[n + k] = f[n] + Upto(k)}
  <2>1. 0 \in T
    <3>1. n + 0 = n /\ f[n] + 0 = f[n]
      BY SMTT(60), <1>1, <1>6
    <3> QED
      BY ZenonT(60), <1>7, <3>1
  <2>2. ASSUME NEW k \in Nat, k \in T PROVE k + 1 \in T
    <3> SUFFICES ASSUME k + 1 <= m PROVE g[n + (k + 1)] = f[n] + Upto(k + 1)
      OBVIOUS
    <3>1. /\ k <= m /\ k + 1 \in 1 .. m /\ n + (k + 1) \in 1 .. n + m /\ k + 1 # 0
          /\ (n + (k + 1)) - 1 = n + k
      BY SMTT(60), <1>1
    <3>2. g[n + k] = f[n] + Upto(k)
      BY ZenonT(60), <2>2, <3>1
    <3>3. g[n + (k + 1)] = g[n + k] + LenOf(new[k + 1])
      BY ZenonT(60), <1>2, <1>4, <3>1
    <3>4. new[k + 1] \in Placed /\ End(new[k + 1]) = new[k + 1].at + LenOf(new[k + 1])
      BY ZenonT(60), <1>5, <3>1 DEF End, LenOf
    <3>5. new[k + 1].at \in Nat /\ End(new[k + 1]) \in Nat /\ LenOf(new[k + 1]) \in Nat
      BY ZenonT(60), <3>4, EndNat, RecordLenNat DEF Placed, LenOf
    <3>6. Upto(k + 1) = End(new[k + 1]) - new[1].at
      BY ZenonT(60), <3>1
    <3>7. CASE k = 0
      <4>1. k + 1 = 1 /\ Upto(k) = 0
        BY SMTT(60), <3>7
      <4> HIDE DEF Upto
      <4> QED
        BY SMTT(60), <1>6, <3>2, <3>3, <3>4, <3>5, <3>6, <4>1
    <3>8. CASE k # 0
      <4>1. k \in 1 .. m /\ k \in 1 .. m - 1 /\ 1 \in 1 .. m
        BY SMTT(60), <1>1, <3>1, <3>8
      <4>2. new[k + 1].at = End(new[k])
        BY ZenonT(60), <4>1 DEF EndToEnd, m
      <4>3. Upto(k) = End(new[k]) - new[1].at
        BY ZenonT(60), <3>8
      <4>4. new[1] \in Placed
        BY ZenonT(60), <1>5, <4>1
      <4>5. new[1].at \in Nat
        BY ZenonT(60), <4>4 DEF Placed
      <4>6. End(new[k]) \in Nat
        BY Zenon, <3>5, <4>2
      <4>7. End(new[k + 1]) = End(new[k]) + LenOf(new[k + 1])
        BY Zenon, <3>4, <4>2
      <4>8. (f[n] + (End(new[k]) - new[1].at)) + LenOf(new[k + 1])
              = f[n] + (End(new[k + 1]) - new[1].at)
        <5> DEFINE x == f[n]
                   d == End(new[k])
                   e == End(new[k + 1])
                   l == LenOf(new[k + 1])
                   a == new[1].at
        <5>1. x \in Int /\ d \in Nat /\ e \in Nat /\ l \in Nat /\ a \in Nat /\ e = d + l
          BY Zenon, <1>6, <3>5, <4>5, <4>6, <4>7
        <5> HIDE DEF x, d, e, l, a
        <5>2. (x + (d - a)) + l = x + (e - a)
          BY SMT, <5>1
        <5> QED
          BY Zenon, <5>2 DEF x, d, e, l, a
      <4> HIDE DEF Upto
      <4> QED
        BY ZenonT(60), <3>2, <3>3, <3>6, <4>3, <4>8
    <3> QED
      BY ZenonT(60), <3>7, <3>8
  <2> HIDE DEF T
  <2>3. m \in T
    BY ZenonT(60), <1>1, <2>1, <2>2, Counting
  <2>4. m <= m
    BY SMTT(60), <1>1
  <2> QED
    BY ZenonT(60), <2>3, <2>4 DEF T
<1>9. Upto(m) = Bytes(new)
  <2>1. m = 0 <=> new = <<>>
    BY Zenon, EmptySeq DEF m
  <2> QED
    BY ZenonT(60), <2>1 DEF Bytes, m
<1> QED
  BY ZenonT(60), <1>6, <1>8, <1>9 DEF all

\* A total is a natural number.
LEMMA TotalNat ==
  ASSUME NEW rs \in Seq(Placed)
  PROVE  TotalLen(rs) \in Nat
<1> DEFINE m == Len(rs)
           f == RunningLen(rs)
           T == {k \in Nat : k <= m => f[k] \in Nat}
<1>1. m \in Nat /\ m <= m
  BY SMTT(60), LenProperties
<1>2. f[0] = 0 /\ \A n \in 1 .. m : f[n] = f[n - 1] + LenOf(rs[n])
  BY ZenonT(60), RunningFacts
<1>3. \A n \in 1 .. m : LenOf(rs[n]) \in Nat
  <2> TAKE n \in 1 .. m
  <2>1. rs[n] \in Placed
    BY ZenonT(60), ElementOfSeq
  <2> QED
    BY ZenonT(60), <2>1, RecordLenNat DEF LenOf, Placed
<1>4. TotalLen(rs) = f[m]
  BY ZenonT(60) DEF TotalLen
<1> HIDE DEF m, f
<1>5. 0 \in T
  BY SMTT(60), <1>2
<1>6. ASSUME NEW k \in Nat, k \in T PROVE k + 1 \in T
  <2> SUFFICES ASSUME k + 1 <= m PROVE f[k + 1] \in Nat
    OBVIOUS
  <2>1. k <= m /\ k + 1 \in 1 .. m /\ (k + 1) - 1 = k
    BY SMTT(60), <1>1
  <2>2. f[k] \in Nat /\ f[k + 1] = f[k] + LenOf(rs[k + 1]) /\ LenOf(rs[k + 1]) \in Nat
    BY ZenonT(60), <1>2, <1>3, <1>6, <2>1
  <2> QED
    BY SMTT(60), <2>2
<1> HIDE DEF T
<1>7. m \in T
  BY ZenonT(60), <1>1, <1>5, <1>6, Counting
<1> QED
  BY ZenonT(60), <1>1, <1>4, <1>7 DEF T

\* No records, no bytes.
LEMMA TotalOfNone == TotalLen(<<>>) = 0
<1>1. <<>> \in Seq(Placed) /\ Len(<<>>) = 0
  BY ZenonT(60), EmptySeq
<1> QED
  BY ZenonT(60), <1>1, RunningFacts DEF TotalLen

\* What Segment::read_batch returns lies end to end, and is over the budget only
\* if it is a single record.
LEMMA RecordsPacked ==
  ASSUME IInv, Fetching
  PROVE  EndToEnd(Records) /\ (~WithinBudget => Len(Records) = 1)
<1> DEFINE s == fetch.seg
           seg == segments[s]
           o == fetch.offset
           b == fetch.budget
           j == o - seg.base + 1
           k == StopAt(seg.log, j, b)
<1>1. CASE Records = <<>>
  <2>1. 1 .. Len(<<>>) - 1 = {}
    BY SMTT(60), EmptySeq
  <2>2. b \in Nat
    BY ZenonT(60), RecordsType DEF FetchLocals
  <2>3. 0 <= b
    BY SMTT(60), <2>2
  <2>4. Bytes(Records) = 0
    BY ZenonT(60), <1>1 DEF Bytes
  <2>5. WithinBudget
    BY ZenonT(60), <2>3, <2>4 DEF WithinBudget
  <2> QED
    BY ZenonT(60), <1>1, <2>1, <2>5 DEF EndToEnd
<1>2. CASE Records # <<>>
  <2>1. /\ SegmentsOK(segments) /\ segments \in Seq(Segment) /\ s \in 1 .. Len(segments)
        /\ o \in Nat /\ b \in Nat
    BY ZenonT(60), Unfold, RecordsType DEF SegmentsOK, FetchLocals
  <2>2. /\ seg \in Segment /\ SegmentOK(seg) /\ seg.log \in Seq(Placed)
        /\ Len(seg.log) \in Nat
        /\ \A i \in 1 .. Len(seg.log) - 1 : seg.log[i + 1].at = End(seg.log[i])
    BY ZenonT(60), <2>1, LogOf DEF SegmentsOK, SegmentOK, SegmentPacked
  <2>3. Records = SegmentReadBatch(seg, o, b)
    BY Zenon DEF Records
  <2>4. InSegment(seg, o)
    BY ZenonT(60), <1>2, <2>3 DEF SegmentReadBatch
  <2>5. j \in 1 .. Len(seg.log) /\ Located(seg, o) = {j}
    BY ZenonT(60), <2>1, <2>2, <2>4, LocatedOK
  <2>7. /\ Records \in Seq(Placed) /\ Len(Records) = k - j
        /\ k \in j + 1 .. Len(seg.log) + 1
        /\ \A i \in 1 .. Len(Records) : Records[i] = seg.log[j + i - 1]
    <3>1. LET rs == SegmentReadBatch(seg, o, b)
          IN  /\ rs \in Seq(Placed) /\ Len(rs) = k - j /\ Len(rs) > 0
              /\ k \in j + 1 .. Len(seg.log) + 1
              /\ \A i \in 1 .. Len(rs) : rs[i] = seg.log[j + i - 1]
      BY ZenonT(60), <2>1, <2>2, <2>4, ReadBatchOK
    <3> QED
      BY ZenonT(60), <2>3, <3>1
  <2>8. \A i \in j + 1 .. k - 1 : End(seg.log[i]) - seg.log[j].at <= b
    BY ZenonT(60), <2>1, <2>2, <2>5, StopAtOK
  <2> DEFINE n == Len(Records)
             log == seg.log
  <2>9. /\ n \in Nat /\ n = k - j /\ Len(log) \in Nat
        /\ j \in 1 .. Len(log) /\ k \in j + 1 .. Len(log) + 1
    BY ZenonT(60), <2>2, <2>5, <2>7, LenProperties
  <2> HIDE DEF s, seg, o, b, j, k, n, log
  <2>10. ASSUME NEW i \in 1 .. n - 1 PROVE Records[i + 1].at = End(Records[i])
    <3>1. /\ i \in 1 .. n /\ i + 1 \in 1 .. n /\ j + i - 1 \in 1 .. Len(log) - 1
          /\ j + (i + 1) - 1 = (j + i - 1) + 1
      BY SMTT(60), <2>9
    <3>2. Records[i] = log[j + i - 1] /\ Records[i + 1] = log[(j + i - 1) + 1]
      <4>1. Records[i + 1] = log[j + (i + 1) - 1]
        BY ZenonT(60), <2>7, <3>1 DEF n, log
      <4> QED
        BY ZenonT(60), <2>7, <3>1, <4>1 DEF n, log
    <3> QED
      BY ZenonT(60), <2>2, <3>1, <3>2 DEF log
  <2>11. ASSUME n # 1 PROVE Bytes(Records) <= b
    <3>1. n # 0
      BY ZenonT(60), <1>2, <2>7, EmptySeq DEF n
    <3>2. /\ 1 \in 1 .. n /\ n \in 1 .. n /\ j + n - 1 \in j + 1 .. k - 1 /\ j + 1 - 1 = j
      BY SMTT(60), <2>9, <2>11, <3>1
    <3>3. Records[1] = log[j] /\ Records[n] = log[j + n - 1]
      BY ZenonT(60), <2>7, <3>2 DEF n, log
    <3>4. Bytes(Records) = End(Records[n]) - Records[1].at
      BY ZenonT(60), <1>2 DEF Bytes, n
    <3> QED
      BY ZenonT(60), <2>8, <3>2, <3>3, <3>4 DEF log
  <2> QED
    BY ZenonT(60), <2>10, <2>11 DEF EndToEnd, WithinBudget, n, b
<1> QED
  BY ZenonT(60), <1>1, <1>2

\* Every step keeps count of the bytes a fetch has taken.
LEMMA BudgetStep ==
  ASSUME IInv, BatchBase, FetchProgress, FetchWithinBudget, FetchSpent, [Next]_vars
  PROVE  FetchWithinBudget' /\ FetchSpent'
<1>1. CASE phase' # "fetch" /\ reply'.op # "fetch"
  BY ZenonT(60), <1>1 DEF FetchWithinBudget, FetchSpent
<1>2. ASSUME NEW o \in 0 .. MaxOffset, NEW max \in Budgets, BeginFetch(o, max)
      PROVE  FetchWithinBudget' /\ FetchSpent'
  <2>1. max \in Nat
    BY ZenonT(60), InputAssumption
  <2>2. /\ reply'.op = "none" /\ fetch'.results = <<>> /\ fetch'.budget = max
        /\ fetch'.max = max
    BY Zenon, <1>2 DEF BeginFetch, NoReply, Reply
  <2>3. 0 + max = max
    BY SMTT(60), <2>1
  <2>4. TotalLen(fetch.results)' = TotalLen(fetch'.results)
    BY Zenon DEF TotalLen, RunningLen, RecordLen, FieldLen, Overhead
  <2> QED
    BY ZenonT(60), <2>2, <2>3, <2>4, TotalOfNone DEF FetchWithinBudget, FetchSpent
<1>3. ASSUME FetchSegment PROVE FetchWithinBudget' /\ FetchSpent'
  <2>1. Fetching /\ phase = "fetch" /\ reply'.op = "none"
    BY ZenonT(60), <1>3 DEF FetchSegment, Fetching, FetchProgress
  <2>2. /\ Records \in Seq(Placed) /\ Bytes(Records) \in Int /\ fetch \in FetchLocals
    BY ZenonT(60), <2>1, RecordsType
  <2>3. /\ fetch'.results = fetch.results \o Records /\ fetch'.max = fetch.max
        /\ fetch'.budget = fetch.budget - Bytes(Records)
    <3>1. fetch' = Advanced
      BY ZenonT(60), <1>3 DEF FetchSegment
    <3> HIDE DEF Records
    <3> QED
      BY ZenonT(60), <2>2, <3>1 DEF Advanced, FetchLocals
  <2>4. fetch.results \in Seq(Placed) /\ fetch.max \in Nat /\ fetch.budget \in Nat
    BY Zenon, <2>2 DEF FetchLocals
  <2> HIDE DEF Records
  <2>5. TotalLen(fetch.results) + fetch.budget = fetch.max /\ TotalLen(fetch.results) \in Nat
    BY ZenonT(60), <2>1, <2>4, TotalNat DEF FetchSpent
  <2>6. EndToEnd(Records)
    BY ZenonT(60), <2>1, RecordsPacked
  <2>7. TotalLen(fetch.results \o Records) = TotalLen(fetch.results) + Bytes(Records)
    <3>1. TotalLen(fetch.results) \in Int
      BY SMTT(60), <2>5
    <3> QED
      BY ZenonT(60), <2>2, <2>4, <2>6, <3>1, TotalGrows
  <2>8. TotalLen(fetch'.results) + fetch'.budget = fetch'.max
    <3>1. TotalLen(fetch'.results) = TotalLen(fetch.results) + Bytes(Records)
      BY ZenonT(60), <2>3, <2>7
    <3> QED
      BY SMTT(60), <2>2, <2>3, <2>4, <2>5, <3>1
  <2>9. TotalLen(fetch.results)' = TotalLen(fetch'.results)
    BY Zenon DEF TotalLen, RunningLen, RecordLen, FieldLen, Overhead
  <2> QED
    BY ZenonT(60), <2>1, <2>8, <2>9 DEF FetchWithinBudget, FetchSpent
<1>4. ASSUME FetchOversized \/ FetchDone PROVE FetchWithinBudget' /\ FetchSpent'
  <2>1. phase = "fetch" /\ phase' = "idle" /\ fetch \in FetchLocals
    BY ZenonT(60), <1>4 DEF FetchOversized, FetchDone, Fetching, IInv, TypeOK
  <2>2. fetch.results \in Seq(Placed) /\ fetch.max \in Nat /\ fetch.budget \in Nat
    BY ZenonT(60), <2>1 DEF FetchLocals
  <2>3. TotalLen(fetch.results) <= fetch.max
    <3>1. TotalLen(fetch.results) + fetch.budget = fetch.max /\ TotalLen(fetch.results) \in Nat
      BY ZenonT(60), <2>1, <2>2, TotalNat DEF FetchSpent
    <3> QED
      BY SMTT(60), <2>2, <3>1
  <2>4. TotalLen(fetch.results)' = TotalLen(fetch'.results)
    BY Zenon DEF TotalLen, RunningLen, RecordLen, FieldLen, Overhead
  <2>5. CASE fetch' = fetch
    BY ZenonT(60), <2>1, <2>3, <2>4, <2>5 DEF FetchWithinBudget, FetchSpent
  <2>6. CASE fetch' # fetch
    <3>1. FetchOversized /\ fetch' = [fetch EXCEPT !.results = Records]
      BY ZenonT(60), <1>4, <2>6 DEF FetchOversized, FetchDone
    <3>2. Fetching /\ ~WithinBudget
      BY ZenonT(60), <3>1 DEF FetchOversized
    <3>3. Len(Records) = 1
      BY ZenonT(60), <3>2, RecordsPacked
    <3> HIDE DEF Records
    <3>4. fetch'.results = Records
      BY ZenonT(60), <2>1, <3>1 DEF FetchLocals
    <3> QED
      BY ZenonT(60), <2>1, <3>3, <3>4 DEF FetchWithinBudget, FetchSpent
  <2> QED
    BY ZenonT(60), <2>5, <2>6
<1>5. ASSUME UNCHANGED vars PROVE FetchWithinBudget' /\ FetchSpent'
  <2>1. phase' = phase /\ fetch' = fetch /\ reply' = reply
    BY ZenonT(60), <1>5 DEF vars
  <2>2. TotalLen(fetch.results)' = TotalLen(fetch'.results)
    BY Zenon DEF TotalLen, RunningLen, RecordLen, FieldLen, Overhead
  <2> QED
    BY ZenonT(60), <2>1, <2>2 DEF FetchWithinBudget, FetchSpent
<1>6. ASSUME NEW m \in Messages,
             Produce(m[1], m[2]) \/ ProduceRotate(m[1], m[2]) \/ ProduceTooLarge(m[1], m[2])
      PROVE  phase' # "fetch" /\ reply'.op # "fetch"
  BY <1>6 DEF Produce, ProduceRotate, ProduceTooLarge, Idle, Ack, Reply
<1>7. ASSUME \/ \E payloads \in Batches : BeginBatch(payloads)
             \/ BatchTooLarge \/ BatchDone \/ Reopen
      PROVE  phase' # "fetch" /\ reply'.op # "fetch"
  <2>1. CASE \E payloads \in Batches : BeginBatch(payloads)
    BY SMTT(60), <2>1 DEF BeginBatch, NoReply, Reply
  <2>2. CASE BatchTooLarge \/ BatchDone
    BY SMTT(60), <2>2 DEF BatchTooLarge, BatchDone, Reply
  <2>3. CASE Reopen
    <3>1. phase' = "idle" /\ reply' = NoReply
      BY ZenonT(60), <2>3 DEF Reopen
    <3> QED
      BY Zenon, <3>1 DEF NoReply, Reply
  <2> QED
    BY ZenonT(60), <1>7, <2>1, <2>2, <2>3
<1>8. ASSUME StagePayload \/ BatchRotate \/ WriteChunk
      PROVE  phase' # "fetch" /\ reply'.op # "fetch"
  BY Zenon, <1>8 DEF StagePayload, BatchRotate, WriteChunk, HasPayload, BatchBase
<1> QED
  BY ZenonT(60), <1>1, <1>2, <1>3, <1>4, <1>5, <1>6, <1>7, <1>8 DEF Next

-----------------------------------------------------------------------------
\* The invariant about clients.

\* A partition just opened has acknowledged nothing and replied to nothing.
LEMMA InitClientInv == Init => ClientInv
<1> SUFFICES ASSUME Init PROVE ClientInv
  OBVIOUS
<1>1. acked = {} /\ phase = "idle" /\ reply.op = "none"
  BY Zenon DEF Init, NoReply, Reply
<1> QED
  BY Zenon, <1>1 DEF ClientInv, BatchPrefix, BatchBase, FetchFaithful, FetchProgress,
              FetchWithinBudget, FetchSpent

\* Every step preserves what clients were told: one case per action of Partition.
LEMMA NextClientInv == IInv /\ ClientInv /\ [Next]_vars => ClientInv'
<1> SUFFICES ASSUME IInv, ClientInv, [Next]_vars PROVE ClientInv'
  OBVIOUS
<1> DEFINE Goal == BatchPrefix' /\ BatchBase' /\ FetchFaithful' /\ FetchProgress'
<1>1. BatchPrefix /\ BatchBase /\ FetchProgress /\ acked \subseteq Stored
  BY Zenon DEF ClientInv
<1>2. acked' \subseteq Stored' /\ FetchWithinBudget' /\ FetchSpent'
  BY ZenonT(60), <1>1, AckedStep, BudgetStep DEF ClientInv
<1>3. ASSUME NEW m \in Messages,
             Produce(m[1], m[2]) \/ ProduceRotate(m[1], m[2]) \/ ProduceTooLarge(m[1], m[2])
      PROVE  Goal
  <2>1. phase' = "idle" /\ reply'.op = "produce"
    BY SMTT(60), <1>3 DEF Produce, ProduceRotate, ProduceTooLarge, Idle, Ack, Reply
  <2> QED
    BY ZenonT(60), <2>1, NoBatchAfter, NoFetchAfter
<1>4. ASSUME NEW payloads \in Batches, BeginBatch(payloads) PROVE Goal
  <2>1. phase' = "batch" /\ reply'.op = "none"
    BY ZenonT(60), <1>4 DEF BeginBatch, NoReply, Reply
  <2> QED
    BY ZenonT(60), <1>4, <2>1, BeginBatchStep, NoFetchAfter
<1>5. ASSUME StagePayload \/ BatchRotate \/ WriteChunk PROVE Goal
  <2>1. phase' = "batch" /\ reply'.op = "none"
    BY ZenonT(60), <1>1, <1>5 DEF StagePayload, BatchRotate, WriteChunk, HasPayload, BatchBase
  <2> QED
    BY ZenonT(60), <1>1, <1>5, <2>1, BatchWaits, WriteChunkStep, NoFetchAfter
<1>6. ASSUME BatchTooLarge \/ BatchDone PROVE Goal
  <2>1. phase' = "idle" /\ reply'.op = "batch"
    BY SMTT(60), <1>6 DEF BatchTooLarge, BatchDone, Reply
  <2> QED
    BY ZenonT(60), <1>1, <1>6, <2>1, BatchTooLargeStep, BatchDoneStep, NoFetchAfter
<1>7. ASSUME NEW o \in 0 .. MaxOffset, NEW max \in Budgets, BeginFetch(o, max) PROVE Goal
  <2>1. phase' = "fetch" /\ reply'.op = "none"
    BY ZenonT(60), <1>7 DEF BeginFetch, NoReply, Reply
  <2> QED
    BY ZenonT(60), <1>7, <2>1, BeginFetchStep, NoBatchAfter
<1>8. ASSUME FetchSegment PROVE Goal
  <2>1. phase' = "fetch" /\ reply'.op = "none"
    BY ZenonT(60), <1>1, <1>8 DEF FetchSegment, Fetching, FetchProgress
  <2> QED
    BY ZenonT(60), <1>1, <1>8, <2>1, FetchSegmentStep, NoBatchAfter
<1>9. ASSUME FetchOversized \/ FetchDone PROVE Goal
  <2>1. phase' = "idle" /\ reply'.op = "fetch"
    BY SMTT(60), <1>9 DEF FetchOversized, FetchDone, Reply
  <2> QED
    BY ZenonT(60), <1>1, <1>9, <2>1, FetchOversizedStep, FetchDoneStep, NoBatchAfter
<1>10. ASSUME Reopen PROVE Goal
  <2>1. phase' = "idle" /\ reply'.op = "none"
    BY ZenonT(60), <1>10 DEF Reopen, NoReply, Reply
  <2> QED
    BY ZenonT(60), <2>1, NoBatchAfter, NoFetchAfter
<1>11. ASSUME UNCHANGED vars PROVE Goal
  <2>1. Stored' = Stored /\ NextOffset' = NextOffset
    BY ZenonT(60), <1>11, SameSegmentsKeeps DEF vars, Keeps
  <2> QED
    BY SMTT(60), <1>11, <2>1 DEF vars, ClientInv, BatchPrefix, BatchBase, FetchFaithful,
                       FetchProgress, Bases
<1>12. Goal
  BY SMTT(60), <1>3, <1>4, <1>5, <1>6, <1>7, <1>8, <1>9, <1>10, <1>11 DEF Next
<1> QED
  BY ZenonT(60), <1>2, <1>12 DEF ClientInv

\* The invariant about clients holds in every reachable state.
THEOREM ClientInvariance == Spec => []ClientInv
BY InitClientInv, NextClientInv, Invariance, PTL DEF Spec

\* An acknowledged record reads back, as it was sent, at every later moment.
THEOREM AckedIsReadable == Spec => []AckedReadable
<1>1. IInv /\ ClientInv => AckedReadable
  BY Zenon, ReadStored DEF ClientInv, AckedReadable
<1> QED
  BY <1>1, Invariance, ClientInvariance, PTL

\* A batch stores a prefix of its payloads: all of it when the reply is Ok, and
\* what comes before some payload that is too large when it is an error.
THEOREM BatchesStorePrefixes == Spec => []BatchPrefix
<1>1. ClientInv => BatchPrefix
  BY ZenonT(60) DEF ClientInv
<1> QED
  BY <1>1, ClientInvariance, PTL

\* A fetch returns stored records in ascending order, with holes only between
\* segments, and the one asked for first whenever it is stored.
THEOREM FetchesAreFaithful == Spec => []FetchFaithful
<1>1. ClientInv => FetchFaithful
  BY ZenonT(60) DEF ClientInv
<1> QED
  BY <1>1, ClientInvariance, PTL

\* A fetch returns more than max_bytes only as a single record: the budget that
\* Partition::read_batch keeps is what the lengths of its records leave.
THEOREM FetchesStayWithinBudget == Spec => []FetchWithinBudget
<1>1. ClientInv => FetchWithinBudget
  BY Zenon DEF ClientInv
<1> QED
  BY <1>1, ClientInvariance, PTL
=============================================================================
