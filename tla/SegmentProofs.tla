---------------------------- MODULE SegmentProofs ----------------------------
(***************************************************************************)
(* Proofs about SegmentFile: what the two files of a segment, and the       *)
(* records clients were told are stored, survive.                           *)
(***************************************************************************)
EXTENDS SegmentFile, SequenceTheorems, WellFoundedInduction, TLAPS

Cell == Record \cup {Zeros}

-----------------------------------------------------------------------------
\* The operators the actions are built from.

\* The records of an append are numbered from the segment's next offset on.
LEMMA NumberedRecords ==
  ASSUME NEW values \in Seq(Value), next \in Nat
  PROVE  /\ Numbered(values) \in Seq(Record)
         /\ Len(Numbered(values)) = Len(values)
         /\ \A j \in 1 .. Len(values) :
              Numbered(values)[j] = [offset |-> next + j - 1, value |-> values[j]]
<1>1. DOMAIN values = 1 .. Len(values) /\ Len(values) \in Nat
  OBVIOUS
<1>2. \A j \in 1 .. Len(values) : next + j - 1 \in Nat /\ values[j] \in Value
  BY SMT
<1>3. \A j \in 1 .. Len(values) : [offset |-> next + j - 1, value |-> values[j]] \in Record
  BY Zenon, <1>2 DEF Record
<1>4. Numbered(values) \in [1 .. Len(values) -> Record]
  BY Zenon, <1>1, <1>3 DEF Numbered
<1> QED
  BY <1>1, <1>4, IsASeq DEF Numbered

\* Index entries carry the records' offsets and consecutive positions.
LEMMA EntriesOfRecords ==
  ASSUME NEW recs \in Seq(Record), NEW position \in Nat
  PROVE  /\ EntriesOf(recs, position) \in Seq(Entry)
         /\ Len(EntriesOf(recs, position)) = Len(recs)
         /\ \A j \in 1 .. Len(recs) :
              EntriesOf(recs, position)[j]
                = [offset |-> recs[j].offset, position |-> position + j - 1]
<1>1. DOMAIN recs = 1 .. Len(recs) /\ Len(recs) \in Nat
  OBVIOUS
<1>5. \A j \in 1 .. Len(recs) : recs[j] \in Record
  BY Zenon, ElementOfSeq
<1>2. \A j \in 1 .. Len(recs) : recs[j].offset \in Nat /\ position + j - 1 \in Nat
  BY SMT, <1>5 DEF Record
<1>3. \A j \in 1 .. Len(recs) :
        [offset |-> recs[j].offset, position |-> position + j - 1] \in Entry
  BY Zenon, <1>2 DEF Entry
<1>4. EntriesOf(recs, position) \in [1 .. Len(recs) -> Entry]
  BY Zenon, <1>1, <1>3 DEF EntriesOf
<1> QED
  BY <1>1, <1>4, IsASeq DEF EntriesOf

\* A write leaves records and holes.
LEMMA OverlayCells ==
  ASSUME NEW file \in Seq(Cell), NEW at \in Nat, NEW recs \in Seq(Record)
  PROVE  Overlay(file, at, recs) \in Seq(Cell)
<1> DEFINE n == IF at + Len(recs) > Len(file) THEN at + Len(recs) ELSE Len(file)
           c(i) == IF i > at /\ i <= at + Len(recs) THEN recs[i - at]
                   ELSE IF i <= Len(file) THEN file[i] ELSE Zeros
<1>1. n \in Nat
  BY SMT
<1>2. ASSUME NEW i \in 1 .. n PROVE c(i) \in Cell
  BY SMT DEF Cell
<1>3. Overlay(file, at, recs) = [i \in 1 .. n |-> c(i)]
  BY Zenon DEF Overlay
<1> HIDE DEF n, c
<1>4. [i \in 1 .. n |-> c(i)] \in [1 .. n -> Cell]
  BY Zenon, <1>2
<1> QED
  BY <1>1, <1>3, <1>4, IsASeq

\* A write at the end of the file appends to it.
LEMMA OverlayAtEnd ==
  ASSUME NEW file \in Seq(Cell), NEW recs \in Seq(Record)
  PROVE  Overlay(file, Len(file), recs) = file \o recs
<1> DEFINE o == Overlay(file, Len(file), recs)
<1>1. o \in Seq(Cell)
  BY OverlayCells
<1>2. Len(o) = Len(file) + Len(recs)
  BY DEF Overlay
<1>3. file \o recs \in Seq(Cell) /\ Len(file \o recs) = Len(file) + Len(recs)
  BY DEF Cell
<1>4. \A i \in 1 .. Len(o) : o[i] = (file \o recs)[i]
  BY DEF Overlay
<1> QED
  BY Zenon, <1>1, <1>2, <1>3, <1>4, SeqEqual

\* A power loss leaves a sequence of the same kind.
LEMMA SurvivorsType ==
  ASSUME NEW S, NEW cur \in Seq(S), NEW dur \in Seq(S)
  PROVE  Survivors(cur, dur) \subseteq Seq(S)
  BY SMTT(60) DEF Survivors

\* A hole does not look like a record.
LEMMA ZerosNoRecord == Zeros \notin Record
  BY Zenon, SegmentAssumption DEF SegmentAssumption, Record

\* If all cells are records, all of them are decoded.
LEMMA DecodedWhole ==
  ASSUME log \in Seq(Record)
  PROVE  Decoded = log
<1> DEFINE P(k) == (k < Len(log) => log[k + 1] = Zeros) /\ \A i \in 1 .. k : log[i] # Zeros
<1>7. \A i \in 1 .. Len(log) : log[i] \in Record
  BY Zenon, ElementOfSeq
<1>1. \A i \in 1 .. Len(log) : log[i] # Zeros
  BY Zenon, <1>7, ZerosNoRecord
<1>2. P(Len(log))
  BY <1>1
<1>3. \A k \in 0 .. Len(log) : P(k) => k = Len(log)
  BY <1>1
<1>4. Decoded = SubSeq(log, 1, CHOOSE k \in 0 .. Len(log) : P(k))
  BY Zenon DEF Decoded
<1> HIDE DEF P
<1>5. Len(log) \in 0 .. Len(log)
  BY SMT
<1>6. (CHOOSE k \in 0 .. Len(log) : P(k)) = Len(log)
  BY Zenon, <1>2, <1>3, <1>5
<1>8. SubSeq(log, 1, Len(log)) = log
  BY Zenon, SubSeqFull
<1> QED
  BY Zenon, <1>4, <1>6, <1>8

\* The first natural number of a set.
LEMMA LeastOf ==
  ASSUME NEW T, T \subseteq Nat, T # {}
  PROVE  \E k \in T : \A j \in T : ~(j < k)
<1> DEFINE R == OpToRel(<, Nat)
<1>1. IsWellFoundedOn(R, Nat)
  BY Zenon, NatLessThanWellFounded
<1> HIDE DEF R
<1>2. PICK x \in T : \A y \in T : ~ (<<y, x>> \in R)
  BY Zenon, <1>1, WFMin
<1> QED
  BY Zenon, <1>2 DEF R, OpToRel

\* Whatever is in the file, load decodes records up to the first hole.
LEMMA DecodedRecords ==
  ASSUME log \in Seq(Cell)
  PROVE  Decoded \in Seq(Record)
<1> DEFINE P(k) == /\ k < Len(log) => log[k + 1] = Zeros
                   /\ \A i \in 1 .. k : log[i] # Zeros
           T == {k \in 0 .. Len(log) : k < Len(log) => log[k + 1] = Zeros}
<1>1. Len(log) \in Nat
  BY Zenon, LenProperties
<1>2. Len(log) \in T /\ T \subseteq Nat
  BY SMT, <1>1
<1>3. PICK m \in T : \A j \in T : ~(j < m)
  BY Zenon, <1>2, LeastOf
<1>4. m \in 0 .. Len(log) /\ (m < Len(log) => log[m + 1] = Zeros)
  BY Zenon, <1>3
<1>5. ASSUME NEW i \in 1 .. m PROVE log[i] # Zeros
  <2>1. i - 1 \in 0 .. Len(log) /\ i - 1 < m /\ (i - 1) + 1 = i
    BY SMT, <1>1, <1>4
  <2>2. i - 1 \notin T
    BY Zenon, <1>3, <2>1
  <2> QED
    BY Zenon, <2>1, <2>2
<1>6. P(m)
  BY Zenon, <1>4, <1>5
<1>7. Decoded = SubSeq(log, 1, CHOOSE k \in 0 .. Len(log) : P(k))
  BY Zenon DEF Decoded
<1> HIDE DEF P
<1>8. PICK n \in 0 .. Len(log) : P(n) /\ Decoded = SubSeq(log, 1, n)
  BY Zenon, <1>4, <1>6, <1>7
<1>9. \A i \in 1 .. n : i \in 1 .. Len(log)
  BY SMT, <1>1
<1>10. \A i \in 1 .. Len(log) : log[i] \in Cell
  BY Zenon, ElementOfSeq
<1>11. \A i \in 1 .. n : log[i] \in Record
  BY Zenon, <1>8, <1>9, <1>10 DEF P, Cell
<1>12. n \in Nat /\ Decoded \in Seq(Cell) /\ Len(Decoded) = n /\ \A i \in 1 .. n : Decoded[i] = log[i]
  BY <1>1, <1>8
<1>13. Decoded \in [1 .. n -> Record]
  BY <1>11, <1>12
<1> QED
  BY <1>12, <1>13

-----------------------------------------------------------------------------
\* Types.

\* A new segment has its types.
LEMMA InitTypes == Init => TypeOK
<1> SUFFICES ASSUME Init PROVE TypeOK
  OBVIOUS
<1>1. <<>> \in Seq(Cell) /\ <<>> \in Seq(Record) /\ <<>> \in Seq(Entry)
  OBVIOUS
<1>2. BaseOffset \in Nat /\ 0 \in 0 .. MaxFaults /\ 0 \in Nat
  BY SMT, SegmentAssumption DEF SegmentAssumption
<1> QED
  BY Zenon, <1>1, <1>2 DEF Init, TypeOK, Cell

\* The process is gone: what it leaves in memory has its type.
LEMMA DownTypes ==
  ASSUME TypeOK, Down, faults < MaxFaults
  PROVE  /\ pc' \in {"idle", "written", "synced", "down", "loading"}
         /\ entries' \in Seq(Entry) /\ queue' \in Seq(Entry) /\ pending' \in Seq(Record)
         /\ size' \in Nat /\ next' \in Nat /\ cursor' \in Nat /\ appendMode' \in BOOLEAN
         /\ mix' \in Faults /\ faults' \in 0 .. MaxFaults /\ acked' \subseteq Record
<1>1. <<>> \in Seq(Record) /\ <<>> \in Seq(Entry)
  OBVIOUS
<1>2. BaseOffset \in Nat /\ 0 \in Nat /\ faults + 1 \in 0 .. MaxFaults
  BY SMT, SegmentAssumption DEF SegmentAssumption, TypeOK
<1> QED
  BY Zenon, <1>1, <1>2 DEF Down, TypeOK

\* Index::append moves one entry from the queue to the file and to memory.
LEMMA IndexAppendTypes ==
  ASSUME TypeOK, IndexAppend
  PROVE  TypeOK'
<1>1. index \in Seq(Entry) /\ entries \in Seq(Entry) /\ queue \in Seq(Entry) /\ queue # <<>>
  BY Zenon DEF TypeOK, IndexAppend
<1>2. Head(queue) \in Entry /\ Tail(queue) \in Seq(Entry)
  BY <1>1
<1>3. Append(index, Head(queue)) \in Seq(Entry) /\ Append(entries, Head(queue)) \in Seq(Entry)
  BY <1>1, <1>2
<1> QED
  BY Zenon, <1>2, <1>3 DEF TypeOK, IndexAppend

\* Where the next write goes.
LEMMA WritePositionType == TypeOK => WritePosition \in Nat
  BY DEF TypeOK, WritePosition

\* write_all of an append.
LEMMA WriteLogTypes ==
  ASSUME TypeOK, NEW values \in Writes, WriteLog(values)
  PROVE  TypeOK'
<1>1. values \in Seq(Value) /\ next \in Nat /\ size \in Nat /\ log \in Seq(Cell)
  BY Zenon, SegmentAssumption DEF SegmentAssumption, TypeOK, Cell
<1>2. pending' \in Seq(Record)
  BY Zenon, <1>1, NumberedRecords DEF WriteLog
<1>3. queue' \in Seq(Entry)
  BY Zenon, <1>1, <1>2, EntriesOfRecords DEF WriteLog
<1>4. WritePosition \in Nat
  BY Zenon, WritePositionType
<1>5. log' \in Seq(Cell)
  BY Zenon, <1>1, <1>2, <1>4, OverlayCells DEF WriteLog
<1>6. cursor' \in Nat
  <2>1. Len(values) \in Nat /\ cursor' = WritePosition + Len(values)
    BY Zenon, <1>1, LenProperties DEF WriteLog
  <2> QED
    BY SMT, <1>4, <2>1
<1> QED
  BY Zenon, <1>2, <1>3, <1>5, <1>6 DEF WriteLog, TypeOK, Cell

\* A kill inside write_all.
LEMMA KillInWriteTypes ==
  ASSUME TypeOK, NEW values \in Writes, KillInWrite(values)
  PROVE  TypeOK'
<1>1. values \in Seq(Value) /\ next \in Nat /\ log \in Seq(Cell)
  BY Zenon, SegmentAssumption DEF SegmentAssumption, TypeOK, Cell
<1>2. PICK k \in 0 .. Len(values) - 1 : log' = log \o SubSeq(Numbered(values), 1, k)
  BY Zenon DEF KillInWrite
<1>3. Numbered(values) \in Seq(Record) /\ Len(Numbered(values)) = Len(values)
  BY Zenon, <1>1, NumberedRecords
<1>4. SubSeq(Numbered(values), 1, k) \in Seq(Cell)
  BY <1>3 DEF Cell
<1>5. log' \in Seq(Cell)
  BY <1>1, <1>2, <1>4
<1>6. faults < MaxFaults /\ Down
  BY Zenon DEF KillInWrite
<1> QED
  BY Zenon, <1>5, <1>6, DownTypes DEF KillInWrite, TypeOK, Cell

\* A kill between two system calls.
LEMMA KillTypes == ASSUME TypeOK, Kill PROVE TypeOK'
  BY Zenon, DownTypes DEF Kill, TypeOK, files

\* A power loss.
LEMMA PowerLossTypes == ASSUME TypeOK, PowerLoss PROVE TypeOK'
<1>1. log' \in Seq(Cell)
  BY Zenon, SurvivorsType DEF PowerLoss, TypeOK, Cell
<1>2. index' \in Seq(Entry)
  BY Zenon, SurvivorsType DEF PowerLoss, TypeOK
<1>3. logTorn' \in BOOLEAN /\ indexTorn' \in BOOLEAN
  BY Zenon DEF PowerLoss, TypeOK
<1> QED
  BY Zenon, <1>1, <1>2, <1>3, DownTypes DEF PowerLoss, TypeOK, Cell

\* The steps of an append after the write, and reads.
LEMMA AppendTypes ==
  ASSUME TypeOK, SyncLog \/ Commit \/ IoError
  PROVE  TypeOK'
<1>1. CASE SyncLog
  BY Zenon, <1>1 DEF SyncLog, TypeOK
<1>2. CASE Commit
  <2>1. pending \in Seq(Record) /\ size \in Nat /\ next \in Nat /\ acked \subseteq Record
    BY Zenon DEF TypeOK
  <2>2. Len(pending) \in Nat /\ Range(pending) \subseteq Record
    BY <2>1 DEF Range
  <2>3. size' \in Nat /\ next' \in Nat
    BY SMT, <1>2, <2>1, <2>2 DEF Commit, SizeAfter
  <2>4. acked' \subseteq Record /\ <<>> \in Seq(Record)
    BY Zenon, <1>2, <2>1, <2>2, EmptySeq DEF Commit
  <2> QED
    BY Zenon, <1>2, <2>3, <2>4 DEF Commit, TypeOK
<1>3. CASE IoError
  <2>1. <<>> \in Seq(Record) /\ <<>> \in Seq(Entry)
    OBVIOUS
  <2>2. faults' \in 0 .. MaxFaults
    BY SMT, <1>3, SegmentAssumption DEF SegmentAssumption, IoError, TypeOK
  <2> QED
    BY Zenon, <1>3, <2>1, <2>2 DEF IoError, TypeOK, files
<1> QED
  BY Zenon, <1>1, <1>2, <1>3

\* Read moves the file position to a natural number.
LEMMA ReadTypes ==
  ASSUME TypeOK, NEW o, Read(o)
  PROVE  TypeOK'
<1>1. PICK p \in Positions(o) : cursor' = IF p < Len(log) THEN ReadAdvances(p) ELSE p
  BY Zenon DEF Read
<1>2. PICK e \in Range(entries) : p = e.position
  BY Zenon, <1>1 DEF Positions
<1>3. e \in Entry
  BY <1>2 DEF TypeOK, Range
<1>4. p \in Nat
  BY Zenon, <1>2, <1>3 DEF Entry
<1>5. Len(log) \in Nat
  BY Zenon, LenProperties DEF TypeOK
<1>6. cursor' \in Nat
  BY SMT, <1>1, <1>4, <1>5, SegmentAssumption DEF SegmentAssumption, ReadAdvances
<1> QED
  BY Zenon, <1>6 DEF Read, TypeOK, files

\* Segment::load.
LEMMA LoadTypes ==
  ASSUME TypeOK, Load \/ FinishLoad
  PROVE  TypeOK'
<1>1. Decoded \in Seq(Record)
  BY Zenon, DecodedRecords DEF TypeOK, Cell
<1>2. <<>> \in Seq(Entry)
  OBVIOUS
<1>3. CASE Load
  <2>1. UsableIndex \in Seq(Entry)
    BY Zenon, <1>2 DEF UsableIndex, TypeOK
  <2>2. EntriesOf(Decoded, 0) \in Seq(Entry)
    <3>1. 0 \in Nat
      BY Zenon
    <3> QED
      BY Zenon, <1>1, <3>1, EntriesOfRecords
  <2> QED
    BY Zenon, <1>2, <1>3, <2>1, <2>2 DEF Load, TypeOK
<1>4. CASE FinishLoad
  <2>1. log' = Decoded /\ next' = NextAfter(Decoded) /\ size' = Len(Decoded)
          /\ cursor' = Len(Decoded)
    BY Zenon, <1>4 DEF FinishLoad
  <2>2. Len(Decoded) \in Nat
    BY Zenon, <1>1, LenProperties
  <2>3. NextAfter(Decoded) \in Nat
    <3>1. CASE Decoded = <<>>
      BY Zenon, <3>1, SegmentAssumption DEF NextAfter, SegmentAssumption
    <3>2. CASE Decoded # <<>>
      <4>1. Last(Decoded) \in Record
        BY <1>1, <3>2 DEF Last
      <4>2. Last(Decoded).offset \in Nat
        BY Zenon, <4>1 DEF Record
      <4> QED
        BY SMT, <3>2, <4>2 DEF NextAfter
    <3> QED
      BY Zenon, <3>1, <3>2
  <2>4. Decoded \in Seq(Cell)
    BY Zenon, <1>1, SeqMonotonic DEF Cell
  <2> QED
    BY ZenonT(60), <1>4, <2>1, <2>2, <2>3, <2>4 DEF FinishLoad, TypeOK, Cell
<1> QED
  BY Zenon, <1>3, <1>4

\* Every step keeps the types.
LEMMA NextTypes ==
  ASSUME TypeOK, [Next]_vars
  PROVE  TypeOK'
<1>1. CASE UNCHANGED vars
  BY Zenon, <1>1 DEF TypeOK, vars, files, memory
<1>2. CASE Next
  BY Zenon, <1>2, WriteLogTypes, KillInWriteTypes, AppendTypes, IndexAppendTypes, ReadTypes,
     KillTypes, PowerLossTypes, LoadTypes DEF Next, WriteIndex, RebuildEntry
<1> QED
  BY Zenon, <1>1, <1>2

\* Whatever faults happen, at every sync_level, the files hold records, holes
\* and index entries, and the counters in memory are never negative.
THEOREM SegmentTypes == Spec => []TypeOK
<1>1. TypeOK /\ [Next]_vars => TypeOK'
  BY Zenon, NextTypes
<1> QED
  BY <1>1, InitTypes, PTL DEF Spec

-----------------------------------------------------------------------------
\* What the files hold.  Each lemma is about one action and the parts of
\* SegmentInv.

\* The items of a sequence are those at its positions.
LEMMA RangeOf ==
  ASSUME NEW S, NEW s \in Seq(S)
  PROVE  \A x : x \in Range(s) <=> \E i \in 1 .. Len(s) : x = s[i]
<1>1. DOMAIN s = 1 .. Len(s)
  BY Zenon, LenProperties
<1> QED
  BY Zenon, <1>1 DEF Range

\* They are of the sequence's kind.
LEMMA RangeIn ==
  ASSUME NEW S, NEW s \in Seq(S)
  PROVE  Range(s) \subseteq S
  BY DEF Range

\* Offsets and addresses of the segment are natural numbers.
LEMMA BaseIsNat == BaseOffset \in Nat /\ MaxRecords \in Nat /\ ReadCells \in Nat
  BY Zenon, SegmentAssumption DEF SegmentAssumption

\* Both halves of a concatenation.
LEMMA ConcatItems ==
  ASSUME NEW S, NEW s \in Seq(S), NEW t \in Seq(S)
  PROVE  /\ s \o t \in Seq(S) /\ Len(s \o t) = Len(s) + Len(t)
         /\ \A i \in 1 .. Len(s) : (s \o t)[i] = s[i]
         /\ \A j \in 1 .. Len(t) : (s \o t)[Len(s) + j] = t[j]
         /\ Range(s) \subseteq Range(s \o t)
<1>1. /\ s \o t \in Seq(S) /\ Len(s \o t) = Len(s) + Len(t)
      /\ \A i \in 1 .. Len(s) : (s \o t)[i] = s[i]
      /\ \A j \in 1 .. Len(t) : (s \o t)[Len(s) + j] = t[j]
  BY SMT
<1> DEFINE u == s \o t
<1>2. \A x : x \in Range(s) <=> \E i \in 1 .. Len(s) : x = s[i]
  BY Zenon, RangeOf
<1>3. \A x : x \in Range(u) <=> \E i \in 1 .. Len(u) : x = u[i]
  BY Zenon, <1>1, RangeOf
<1>4. \A i \in 1 .. Len(s) : i \in 1 .. Len(u)
  BY SMT, <1>1
<1>5. \A i \in 1 .. Len(s) : u[i] = s[i]
  BY Zenon, <1>1
<1> HIDE DEF u
<1>6. Range(s) \subseteq Range(u)
  BY ZenonT(60), <1>2, <1>3, <1>4, <1>5
<1> QED
  BY Zenon, <1>1, <1>6 DEF u

\* A log without holes is a sequence of records, and load decodes all of it.
LEMMA WholeLog ==
  ASSUME TypeOK, FileInv
  PROVE  log \in Seq(Record) /\ Len(log) \in Nat /\ Decoded = log
<1>1. log \in Seq(Cell)
  BY Zenon DEF TypeOK, Cell
<1>2. Len(log) \in Nat /\ DOMAIN log = 1 .. Len(log)
  BY Zenon, <1>1, LenProperties
<1>3. \A i \in 1 .. Len(log) : log[i] \in Record
  BY Zenon, <1>2 DEF FileInv, Range
<1>4. log \in Seq(Record)
  BY <1>1, <1>2, <1>3
<1> QED
  BY Zenon, <1>2, <1>4, DecodedWhole

\* What is known of a segment that waits for a command.
LEMMA IdleFacts ==
  ASSUME SegmentInv, pc = "idle"
  PROVE  /\ pending = <<>> /\ queue = <<>>
         /\ size \in Nat /\ next \in Nat /\ size <= Len(log)
         /\ WritePosition = Len(log)
         /\ \A r \in acked : r.offset < next
         /\ "io" \notin mix => size = Len(log) /\ next = BaseOffset + Len(log)
<1>1. Open /\ ~Appending
  BY Zenon DEF Open, Appending
<1>2. pending = <<>> /\ queue = <<>> /\ (appendMode \/ cursor = Len(log))
        /\ size + Len(pending) <= Len(log)
  BY Zenon, <1>1 DEF SegmentInv, FileInv
<1>3. Len(pending) = 0
  BY Zenon, <1>2
<1>4. size \in Nat /\ next \in Nat /\ Len(log) \in Nat /\ BaseOffset \in Nat
  BY Zenon, WholeLog, SegmentAssumption DEF SegmentInv, TypeOK, SegmentAssumption
<1>5. WritePosition = Len(log)
  BY Zenon, <1>2 DEF WritePosition
<1>6. \A r \in acked : r.offset < next
  BY Zenon, <1>1 DEF SegmentInv, AckInv
<1>7. "io" \notin mix => size + Len(pending) = Len(log) /\ next = BaseOffset + size
  BY Zenon, <1>1 DEF SegmentInv, DenseInv
<1>8. size <= Len(log) /\ ("io" \notin mix => size = Len(log) /\ next = BaseOffset + Len(log))
  BY SMT, <1>2, <1>3, <1>4, <1>7
<1> QED
  BY Zenon, <1>2, <1>4, <1>5, <1>6, <1>8

\* The first n of the records of an append reach the end of the log.
LEMMA LogGrows ==
  ASSUME SegmentInv, pc = "idle", NEW values \in Writes, NEW n \in 0 .. Len(values),
         log' = log \o SubSeq(Numbered(values), 1, n)
  PROVE  /\ Len(values) \in Nat \ {0} /\ Len(log) \in Nat
         /\ log' \in Seq(Record) /\ Len(log') = Len(log) + n
         /\ \A i \in 1 .. Len(log) : log'[i] = log[i]
         /\ \A j \in 1 .. n : log'[Len(log) + j] = Numbered(values)[j]
         /\ \A j \in 1 .. n : Numbered(values)[j].offset = next + j - 1
         /\ Range(log) \subseteq Range(log')
         /\ \A r \in acked : r.offset <= Last(log').offset
         /\ "io" \notin mix => \A i \in DOMAIN log' : log'[i].offset = BaseOffset + i - 1
<1>1. values \in Seq(Value) /\ values # <<>> /\ next \in Nat /\ BaseOffset \in Nat
  BY Zenon, SegmentAssumption DEF SegmentAssumption, SegmentInv, TypeOK
<1>2. Len(values) \in Nat \ {0}
  BY <1>1
<1>3. log \in Seq(Record) /\ Len(log) \in Nat
  BY Zenon, WholeLog DEF SegmentInv
<1> DEFINE recs == Numbered(values)
           new == SubSeq(recs, 1, n)
<1>4. recs \in Seq(Record) /\ Len(recs) = Len(values)
        /\ \A j \in 1 .. Len(values) : recs[j] = [offset |-> next + j - 1, value |-> values[j]]
  BY Zenon, <1>1, NumberedRecords
<1> HIDE DEF recs
<1>5. new \in Seq(Record) /\ Len(new) = n /\ \A j \in 1 .. n : new[j] = recs[j]
  BY <1>2, <1>4
<1>6. log' = log \o new
  BY Zenon DEF recs
<1> HIDE DEF new
<1>11. /\ log \o new \in Seq(Record) /\ Len(log \o new) = Len(log) + Len(new)
       /\ \A i \in 1 .. Len(log) : (log \o new)[i] = log[i]
       /\ \A j \in 1 .. Len(new) : (log \o new)[Len(log) + j] = new[j]
       /\ Range(log) \subseteq Range(log \o new)
  <2>1. log \in Seq(Record) /\ new \in Seq(Record)
    BY Zenon, <1>3, <1>5
  <2> QED
    BY Zenon, <2>1, ConcatItems
<1>7. log' \in Seq(Record) /\ Len(log') = Len(log) + n /\ Range(log) \subseteq Range(log')
  BY Zenon, <1>5, <1>6, <1>11
<1>8. \A i \in 1 .. Len(log) : log'[i] = log[i]
  BY Zenon, <1>6, <1>11
<1>9. \A j \in 1 .. n : log'[Len(log) + j] = recs[j]
  <2> TAKE j \in 1 .. n
  <2>1. (log \o new)[Len(log) + j] = new[j] /\ new[j] = recs[j]
    BY Zenon, <1>5, <1>11
  <2> QED
    BY Zenon, <1>6, <2>1
<1>10. \A j \in 1 .. n : recs[j].offset = next + j - 1
  <2>1. \A j \in 1 .. n : j \in 1 .. Len(values)
    BY SMT, <1>2
  <2> TAKE j \in 1 .. n
  <2>2. recs[j] = [offset |-> next + j - 1, value |-> values[j]]
    BY Zenon, <1>4, <2>1
  <2> QED
    BY SMT, <2>2
<1>12. ASSUME NEW r \in acked PROVE r.offset <= Last(log').offset
  <2>1. r.offset <= Last(log).offset /\ r.offset < next /\ r \in Range(log) /\ r \in Record
    BY Zenon, IdleFacts DEF SegmentInv, AckInv, AckedDurable, TypeOK
  <2>2. r.offset \in Nat
    BY Zenon, <2>1 DEF Record
  <2>3. CASE n = 0
    <3>1. PICK i \in 1 .. Len(log) : r = log[i]
      BY Zenon, <1>3, <2>1, RangeOf
    <3>2. Len(log') = Len(log) /\ Len(log) \in 1 .. Len(log)
      BY SMT, <1>3, <1>7, <2>3, <3>1
    <3>3. Last(log') = Last(log)
      BY Zenon, <1>8, <3>2 DEF Last
    <3> QED
      BY Zenon, <2>1, <3>3
  <2>4. CASE n # 0
    <3>1. n \in 1 .. n /\ next + n - 1 >= next
      BY SMT, <1>1, <1>2, <2>4
    <3>2. Last(log').offset = next + n - 1
      BY Zenon, <1>7, <1>9, <1>10, <3>1 DEF Last
    <3> QED
      BY SMTT(60), <1>1, <1>2, <2>1, <2>2, <3>1, <3>2
  <2> QED
    BY Zenon, <2>3, <2>4
<1>13. ASSUME "io" \notin mix, NEW i \in DOMAIN log'
       PROVE  log'[i].offset = BaseOffset + i - 1
  <2>1. i \in 1 .. Len(log')
    BY Zenon, <1>7, LenProperties
  <2>2. next = BaseOffset + Len(log)
    BY Zenon, <1>13, IdleFacts
  <2>3. CASE i \in 1 .. Len(log)
    <3>1. DOMAIN log = 1 .. Len(log)
      BY Zenon, <1>3, LenProperties
    <3> QED
      BY Zenon, <1>8, <1>13, <2>3, <3>1 DEF SegmentInv, DenseInv
  <2>4. CASE ~(i \in 1 .. Len(log))
    <3>1. i - Len(log) \in 1 .. n /\ Len(log) + (i - Len(log)) = i
      BY SMT, <1>2, <1>3, <1>7, <2>1, <2>4
    <3>2. log'[i].offset = next + (i - Len(log)) - 1
      BY Zenon, <1>9, <1>10, <3>1
    <3>3. \A x, y \in Nat : \A k \in Int : (x + y) + (k - y) - 1 = x + k - 1
      BY SMT
    <3>4. (BaseOffset + Len(log)) + (i - Len(log)) - 1 = BaseOffset + i - 1
      <4>1. i \in Int
        BY SMT, <1>3, <1>7, <2>1
      <4> QED
        BY Zenon, <1>1, <1>3, <3>3, <4>1
    <3> QED
      BY Zenon, <2>2, <3>2, <3>4
  <2> QED
    BY Zenon, <2>3, <2>4
<1> QED
  BY ZenonT(60), <1>2, <1>3, <1>7, <1>8, <1>9, <1>10, <1>12, <1>13 DEF recs

\* write_all: the records are the end of the log, and the queue their entries.
LEMMA WriteLogInv ==
  ASSUME SegmentInv, NEW values \in Writes, WriteLog(values)
  PROVE  SegmentInv'
<1>1. TypeOK'
  BY Zenon, WriteLogTypes DEF SegmentInv
<1>2. /\ pc = "idle" /\ pending' = Numbered(values) /\ queue' = EntriesOf(pending', size)
      /\ log' = Overlay(log, WritePosition, pending')
      /\ cursor' = WritePosition + Len(values) /\ Len(log) + Len(values) <= MaxRecords
      /\ pc' = "written" /\ logDur' = logDur /\ index' = index /\ indexTorn' = indexTorn
      /\ indexDur' = indexDur /\ entries' = entries /\ size' = size /\ next' = next
      /\ appendMode' = appendMode /\ acked' = acked /\ mix' = mix
  BY Zenon DEF WriteLog
<1>3. /\ pending = <<>> /\ queue = <<>> /\ size \in Nat /\ next \in Nat /\ size <= Len(log)
      /\ WritePosition = Len(log) /\ \A r \in acked : r.offset < next
      /\ "io" \notin mix => size = Len(log) /\ next = BaseOffset + Len(log)
  BY Zenon, <1>2, IdleFacts
<1>4. values \in Seq(Value) /\ Len(values) \in Nat /\ Len(values) \in 0 .. Len(values)
  <2>1. values \in Seq(Value)
    BY Zenon, SegmentAssumption DEF SegmentAssumption
  <2> QED
    BY <2>1
<1>5. /\ pending' \in Seq(Record) /\ Len(pending') = Len(values)
  BY Zenon, <1>2, <1>3, <1>4, NumberedRecords
<1>6. log' = log \o SubSeq(Numbered(values), 1, Len(values))
  <2>1. log \in Seq(Cell)
    BY Zenon DEF SegmentInv, TypeOK, Cell
  <2>2. log' = log \o pending'
    BY Zenon, <1>2, <1>3, <1>5, <2>1, OverlayAtEnd
  <2>3. SubSeq(pending', 1, Len(pending')) = pending'
    BY Zenon, <1>5, SubSeqFull
  <2> QED
    BY Zenon, <1>2, <1>5, <2>2, <2>3
<1> DEFINE n == Len(values)
<1>7. /\ n \in Nat \ {0} /\ Len(log) \in Nat
      /\ log' \in Seq(Record) /\ Len(log') = Len(log) + n
      /\ \A i \in 1 .. Len(log) : log'[i] = log[i]
      /\ \A j \in 1 .. n : log'[Len(log) + j] = pending'[j]
      /\ \A j \in 1 .. n : pending'[j].offset = next + j - 1
      /\ Range(log) \subseteq Range(log')
      /\ \A r \in acked : r.offset <= Last(log').offset
      /\ "io" \notin mix => \A i \in DOMAIN log' : log'[i].offset = BaseOffset + i - 1
  BY Zenon, <1>2, <1>4, <1>6, LogGrows
<1>8. /\ queue' \in Seq(Entry) /\ Len(queue') = n
      /\ \A j \in 1 .. n :
           queue'[j] = [offset |-> pending'[j].offset, position |-> size + j - 1]
  BY ZenonT(60), <1>2, <1>3, <1>5, EntriesOfRecords
<1>9. /\ DOMAIN pending' = 1 .. n /\ DOMAIN queue' = 1 .. n
      /\ DOMAIN log' = 1 .. Len(log') /\ DOMAIN log = 1 .. Len(log)
  <2>1. log \in Seq(Record)
    BY Zenon, WholeLog DEF SegmentInv
  <2> QED
    BY Zenon, <1>5, <1>7, <1>8, <2>1, LenProperties
<1>10. Open' /\ Appending' /\ pc' # "synced" /\ ~(pc' \in {"idle", "down"})
  BY Zenon, <1>2 DEF Open, Appending
<1> HIDE DEF n
<1>11. \A j \in 1 .. n : queue'[j].offset = next + j - 1 /\ queue'[j].position = size + j - 1
  <2> TAKE j \in 1 .. n
  <2>1. /\ queue'[j] = [offset |-> pending'[j].offset, position |-> size + j - 1]
        /\ pending'[j].offset = next + j - 1
    BY Zenon, <1>7, <1>8
  <2> QED
    BY SMT, <2>1
<1>12. FileInv'
  <2>1. Len(log') <= MaxRecords /\ cursor' = Len(log') /\ size + Len(pending') <= Len(log')
    BY SMT, <1>2, <1>3, <1>5, <1>7 DEF n
  <2>2. Range(log') \subseteq Record
    BY Zenon, <1>7, RangeIn
  <2>3. pending' # <<>>
    BY Zenon, <1>5, <1>7 DEF n
  <2>4. Len(log') - Len(pending') = Len(log)
    BY SMT, <1>5, <1>7 DEF n
  <2>5. ASSUME NEW j \in DOMAIN pending'
        PROVE  pending'[j].offset = next' + j - 1
                 /\ pending'[j] = log'[Len(log') - Len(pending') + j]
    BY Zenon, <1>2, <1>7, <1>9, <2>4, <2>5
  <2> QED
    BY Zenon, <1>2, <1>10, <2>1, <2>2, <2>3, <2>5 DEF FileInv
<1>13. AckInv'
  <2>1. acked' \subseteq Range(log') /\ OffsetsNotReused'
    BY Zenon, <1>2, <1>7 DEF SegmentInv, AckInv, AckedDurable, OffsetsNotReused
  <2> QED
    BY Zenon, <1>2, <1>3, <1>7, <2>1 DEF AckInv, AckedDurable
<1>14. "io" \notin mix' => DenseInv'
  <2> SUFFICES ASSUME "io" \notin mix PROVE DenseInv'
    BY Zenon, <1>2
  <2>1. Aligned(index) /\ Aligned(indexDur) /\ Aligned(entries)
    BY Zenon DEF SegmentInv, DenseInv
  <2>2. \A j \in DOMAIN queue' : queue'[j].offset = BaseOffset + queue'[j].position
    <3> SUFFICES ASSUME NEW j \in 1 .. n
                 PROVE  queue'[j].offset = BaseOffset + queue'[j].position
      BY Zenon, <1>9
    <3>1. queue'[j].offset = next + j - 1 /\ queue'[j].position = size + j - 1
      BY Zenon, <1>11
    <3>2. size = Len(log) /\ next = BaseOffset + Len(log)
      BY Zenon, <1>3
    <3> QED
      BY SMTT(60), <1>7, <3>1, <3>2, BaseIsNat
  <2>3. size' + Len(pending') = Len(log') /\ next' = BaseOffset + size'
    BY Zenon, <1>2, <1>3, <1>5, <1>7 DEF n
  <2> QED
    BY Zenon, <1>2, <1>7, <2>1, <2>2, <2>3 DEF DenseInv, Aligned
<1>15. "power" \in mix' => SyncInv'
  <2> SUFFICES ASSUME "power" \in mix PROVE SyncInv'
    BY Zenon, <1>2
  <2>1. IsPrefix(logDur, log) /\ acked \subseteq Range(logDur)
    BY Zenon DEF SegmentInv, SyncInv
  <2>2. Len(logDur) \in Nat
    BY ZenonT(60), LenProperties DEF SegmentInv, TypeOK
  <2>3. Len(logDur) <= Len(log') /\ \A i \in 1 .. Len(logDur) : i \in 1 .. Len(log)
    BY SMT, <1>7, <2>1, <2>2 DEF IsPrefix
  <2>4. \A i \in 1 .. Len(logDur) : logDur[i] = log'[i]
    BY Zenon, <1>7, <2>1, <2>3 DEF IsPrefix
  <2>5. IsPrefix(logDur', log')
    BY Zenon, <1>2, <2>3, <2>4 DEF IsPrefix
  <2> QED
    BY Zenon, <1>2, <1>10, <2>1, <2>5 DEF SyncInv
<1>16. "power" \notin mix' => InsideInv'
  <2> SUFFICES ASSUME "power" \notin mix PROVE InsideInv'
    BY Zenon, <1>2
  <2>1. Inside(index) /\ Inside(entries)
    BY Zenon DEF SegmentInv, InsideInv
  <2>2. index \in Seq(Entry) /\ entries \in Seq(Entry)
    BY Zenon DEF SegmentInv, TypeOK
  <2>3. \A i \in DOMAIN index : index[i].position < Len(log')
    <3>1. \A i \in DOMAIN index : index[i] \in Entry
      BY <2>2
    <3> QED
      BY SMT, <1>7, <2>1, <3>1 DEF Inside, Entry
  <2>4. \A i \in DOMAIN entries : entries[i].position < Len(log')
    <3>1. \A i \in DOMAIN entries : entries[i] \in Entry
      BY <2>2
    <3> QED
      BY SMT, <1>7, <2>1, <3>1 DEF Inside, Entry
  <2>5. \A j \in DOMAIN queue' : queue'[j].position < Len(log')
    BY SMTT(60), <1>3, <1>7, <1>9, <1>11
  <2> QED
    BY Zenon, <1>2, <2>3, <2>4, <2>5 DEF InsideInv, Inside
<1>17. mix' \subseteq {"kill"} => IndexedInv'
  <2> SUFFICES ASSUME mix \subseteq {"kill"} PROVE IndexedInv'
    BY Zenon, <1>2
  <2>1. IndexedInv /\ size = Len(log)
    BY Zenon, <1>3 DEF SegmentInv
  <2>2. Len(queue) = 0
    BY Zenon, <1>3
  <2>3. Len(log') - Len(queue') = Len(log) /\ Len(queue') <= Len(log') /\ Len(log) - Len(queue) = Len(log)
    BY SMT, <1>7, <1>8, <2>2
  <2>4. \A j \in DOMAIN queue' : queue'[j].position = Len(log') - Len(queue') + j - 1
    BY Zenon, <1>9, <1>11, <2>1, <2>3
  <2>5. \A i \in DOMAIN index : index[i].position < Len(log') - Len(queue')
    BY ZenonT(60), <2>1, <2>3 DEF IndexedInv
  <2>6. ~ \E p \in size' .. Len(log') - Len(queue') - 1 : TRUE
    BY SMT, <1>2, <1>7, <2>1, <2>3
  <2> QED
    BY ZenonT(60), <1>2, <2>1, <2>3, <2>4, <2>5, <2>6 DEF IndexedInv
<1> QED
  BY Zenon, <1>1, <1>12, <1>13, <1>14, <1>15, <1>16, <1>17 DEF SegmentInv

\* sync_data on the log: all of it, acknowledged records included, is on disk.
LEMMA SyncLogInv ==
  ASSUME SegmentInv, Tolerated, SyncLog
  PROVE  SegmentInv'
<1>1. TypeOK'
  BY Zenon, AppendTypes DEF SegmentInv
<1>2. /\ pc = "written" /\ pc' = "synced" /\ logDur' = (IF SyncsLog THEN log ELSE logDur)
      /\ log' = log /\ logTorn' = logTorn /\ index' = index /\ indexTorn' = indexTorn
      /\ indexDur' = indexDur /\ entries' = entries /\ size' = size /\ next' = next
      /\ cursor' = cursor /\ appendMode' = appendMode /\ pending' = pending /\ queue' = queue
      /\ acked' = acked /\ mix' = mix
  BY Zenon DEF SyncLog
<1>3. Open /\ Open' /\ Appending /\ Appending' /\ pc' \notin {"idle", "down"} /\ pc # "down" /\ pc' # "down"
  BY Zenon, <1>2 DEF Open, Appending
<1>4. FileInv'
  BY Zenon, <1>2, <1>3 DEF SegmentInv, FileInv
<1>5. AckInv'
  BY Zenon, <1>2, <1>3 DEF SegmentInv, AckInv, AckedDurable, OffsetsNotReused
<1>6. "io" \notin mix' => DenseInv'
  BY Zenon, <1>2, <1>3 DEF SegmentInv, DenseInv, Aligned
<1>7. "power" \in mix' => SyncInv'
  <2> SUFFICES ASSUME "power" \in mix PROVE SyncInv'
    BY Zenon, <1>2
  <2>1. logDur' = log
    BY Zenon, <1>2 DEF Tolerated, SegmentInv, TypeOK
  <2>2. IsPrefix(log, log)
    <3>1. Len(log) <= Len(log)
      BY SMT, WholeLog DEF SegmentInv
    <3> QED
      BY Zenon, <3>1 DEF IsPrefix
  <2> QED
    BY Zenon, <1>2, <2>1, <2>2 DEF SyncInv, SegmentInv, AckInv, AckedDurable
<1>8. "power" \notin mix' => InsideInv'
  BY Zenon, <1>2 DEF SegmentInv, InsideInv, Inside
<1>9. mix' \subseteq {"kill"} => IndexedInv'
  BY Zenon, <1>2, <1>3 DEF SegmentInv, IndexedInv
<1> QED
  BY ZenonT(60), <1>1, <1>4, <1>5, <1>6, <1>7, <1>8, <1>9 DEF SegmentInv

\* What Append and Tail do to the items of sequences of entries.
LEMMA MovedEntry ==
  ASSUME NEW es \in Seq(Entry), NEW q \in Seq(Entry), q # <<>>
  PROVE  /\ Len(es) \in Nat /\ Len(q) \in Nat \ {0} /\ DOMAIN es = 1 .. Len(es)
         /\ DOMAIN q = 1 .. Len(q) /\ 1 \in 1 .. Len(q) /\ Head(q) = q[1]
         /\ Len(Append(es, Head(q))) = Len(es) + 1
         /\ DOMAIN Append(es, Head(q)) = 1 .. Len(es) + 1
         /\ \A i \in 1 .. Len(es) : Append(es, Head(q))[i] = es[i]
         /\ Append(es, Head(q))[Len(es) + 1] = q[1]
         /\ Len(Tail(q)) = Len(q) - 1 /\ DOMAIN Tail(q) = 1 .. Len(q) - 1
         /\ \A j \in 1 .. Len(q) - 1 : Tail(q)[j] = q[j + 1] /\ j + 1 \in 1 .. Len(q)
<1>1. Len(es) \in Nat /\ Len(q) \in Nat \ {0} /\ DOMAIN es = 1 .. Len(es)
         /\ DOMAIN q = 1 .. Len(q) /\ 1 \in 1 .. Len(q) /\ Head(q) = q[1] /\ q[1] \in Entry
  BY SMT
<1> DEFINE e == q[1]
<1>2. /\ Len(Append(es, e)) = Len(es) + 1 /\ DOMAIN Append(es, e) = 1 .. Len(es) + 1
      /\ \A i \in 1 .. Len(es) : Append(es, e)[i] = es[i]
      /\ Append(es, e)[Len(es) + 1] = e
  BY <1>1
<1>3. /\ Len(Tail(q)) = Len(q) - 1 /\ DOMAIN Tail(q) = 1 .. Len(q) - 1
      /\ \A j \in 1 .. Len(q) - 1 : Tail(q)[j] = q[j + 1] /\ j + 1 \in 1 .. Len(q)
  BY <1>1
<1> QED
  BY Zenon, <1>1, <1>2, <1>3

\* An entry stays aligned when it moves.
LEMMA AlignedMove ==
  ASSUME NEW es \in Seq(Entry), NEW q \in Seq(Entry), q # <<>>, Aligned(es), Aligned(q)
  PROVE  Aligned(Append(es, Head(q))) /\ Aligned(Tail(q))
<1> DEFINE fs == Append(es, Head(q))
           t == Tail(q)
           OK(e) == e.offset = BaseOffset + e.position
<1>1. /\ Len(es) \in Nat /\ DOMAIN es = 1 .. Len(es) /\ DOMAIN q = 1 .. Len(q)
      /\ 1 \in 1 .. Len(q) /\ DOMAIN fs = 1 .. Len(es) + 1
      /\ \A i \in 1 .. Len(es) : fs[i] = es[i]
      /\ fs[Len(es) + 1] = q[1]
      /\ DOMAIN t = 1 .. Len(q) - 1
      /\ \A j \in 1 .. Len(q) - 1 : t[j] = q[j + 1] /\ j + 1 \in 1 .. Len(q)
  BY Zenon, MovedEntry
<1>2. (\A i \in DOMAIN es : OK(es[i])) /\ \A i \in DOMAIN q : OK(q[i])
  BY Zenon DEF Aligned
<1> HIDE DEF fs, t, OK
<1>3. \A i \in DOMAIN fs : i \in 1 .. Len(es) \/ i = Len(es) + 1
  BY SMT, <1>1
<1>4. \A i \in DOMAIN fs : OK(fs[i])
  BY Zenon, <1>1, <1>2, <1>3
<1>5. \A j \in DOMAIN t : OK(t[j])
  BY Zenon, <1>1, <1>2
<1> QED
  BY Zenon, <1>4, <1>5 DEF Aligned, fs, t, OK

\* Index::append: the first entry of the queue goes behind those in the file.
LEMMA IndexAppendInv ==
  ASSUME SegmentInv, IndexAppend, pc \in {"synced", "loading"}
  PROVE  SegmentInv'
<1>1. TypeOK'
  BY Zenon, IndexAppendTypes DEF SegmentInv
<1>2. /\ queue # <<>> /\ index' = Append(index, Head(queue))
      /\ entries' = Append(entries, Head(queue)) /\ queue' = Tail(queue)
      /\ log' = log /\ logDur' = logDur /\ indexTorn' = indexTorn /\ indexDur' = indexDur
      /\ pc' = pc /\ size' = size /\ next' = next /\ cursor' = cursor
      /\ appendMode' = appendMode /\ pending' = pending /\ acked' = acked /\ mix' = mix
  BY Zenon DEF IndexAppend
<1>3. index \in Seq(Entry) /\ entries \in Seq(Entry) /\ queue \in Seq(Entry)
  BY Zenon DEF SegmentInv, TypeOK
<1>4. (Open' <=> Open) /\ (Appending' <=> Appending) /\ pc \notin {"idle", "down"} /\ pc # "down"
  BY Zenon, <1>2 DEF Open, Appending
<1>5. FileInv'
  BY Zenon, <1>2, <1>4 DEF SegmentInv, FileInv
<1>6. AckInv'
  BY Zenon, <1>2, <1>4 DEF SegmentInv, AckInv, AckedDurable, OffsetsNotReused
<1>7. /\ Len(index) \in Nat /\ Len(queue) \in Nat \ {0} /\ DOMAIN index = 1 .. Len(index)
      /\ DOMAIN queue = 1 .. Len(queue) /\ 1 \in 1 .. Len(queue)
      /\ Len(index') = Len(index) + 1 /\ DOMAIN index' = 1 .. Len(index) + 1
      /\ \A i \in 1 .. Len(index) : index'[i] = index[i]
      /\ index'[Len(index) + 1] = queue[1]
      /\ Len(queue') = Len(queue) - 1 /\ DOMAIN queue' = 1 .. Len(queue) - 1
      /\ \A j \in 1 .. Len(queue) - 1 : queue'[j] = queue[j + 1] /\ j + 1 \in 1 .. Len(queue)
  BY ZenonT(60), <1>2, <1>3, MovedEntry
<1>8. /\ Len(entries) \in Nat /\ DOMAIN entries = 1 .. Len(entries)
      /\ DOMAIN entries' = 1 .. Len(entries) + 1
      /\ \A i \in 1 .. Len(entries) : entries'[i] = entries[i]
      /\ entries'[Len(entries) + 1] = queue[1]
  BY ZenonT(60), <1>2, <1>3, MovedEntry
<1>9. \A k \in Nat : \A i \in 1 .. k + 1 : i \in 1 .. k \/ i = k + 1
  BY SMT
<1>10. "io" \notin mix' => DenseInv'
  <2> SUFFICES ASSUME "io" \notin mix PROVE DenseInv'
    BY Zenon, <1>2
  <2>1. DenseInv
    BY Zenon DEF SegmentInv
  <2>2. Aligned(index) /\ Aligned(entries) /\ Aligned(queue)
    BY Zenon, <2>1 DEF DenseInv
  <2>3. Aligned(index') /\ Aligned(entries') /\ Aligned(queue')
    BY Zenon, <1>2, <1>3, <2>2, AlignedMove
  <2>4. Aligned(indexDur')
    BY Zenon, <1>2, <2>1 DEF DenseInv
  <2> QED
    BY Zenon, <1>2, <1>4, <2>1, <2>3, <2>4 DEF DenseInv, Aligned
<1>11. "power" \in mix' => SyncInv'
  BY Zenon, <1>2 DEF SegmentInv, SyncInv
<1>12. "power" \notin mix' => InsideInv'
  <2> SUFFICES ASSUME "power" \notin mix PROVE InsideInv'
    BY Zenon, <1>2
  <2>1. InsideInv
    BY Zenon DEF SegmentInv
  <2>2. \A i \in DOMAIN index' : index'[i].position < Len(log)
    BY Zenon, <1>7, <1>9, <2>1 DEF InsideInv, Inside
  <2>3. \A i \in DOMAIN entries' : entries'[i].position < Len(log)
    BY ZenonT(60), <1>7, <1>8, <1>9, <2>1 DEF InsideInv, Inside
  <2>4. \A i \in DOMAIN queue' : queue'[i].position < Len(log)
    BY ZenonT(60), <1>7, <2>1 DEF InsideInv, Inside
  <2> QED
    BY Zenon, <1>2, <2>2, <2>3, <2>4 DEF InsideInv, Inside
<1>13. mix' \subseteq {"kill"} => IndexedInv'
  <2> SUFFICES ASSUME mix \subseteq {"kill"} PROVE IndexedInv'
    BY Zenon, <1>2
  <2>1. IndexedInv
    BY Zenon DEF SegmentInv
  <2>2. entries = index /\ ~indexTorn
    BY ZenonT(60), <1>4, <2>1 DEF IndexedInv
  <2>3. Len(log) \in Nat /\ Len(queue) <= Len(log) /\ size \in Nat
    BY ZenonT(60), <2>1, WholeLog DEF SegmentInv, IndexedInv, TypeOK
  <2>4. queue[1].position = Len(log) - Len(queue)
    <3>1. queue[1].position = Len(log) - Len(queue) + 1 - 1
      BY Zenon, <1>7, <2>1 DEF IndexedInv
    <3> QED
      BY SMT, <1>7, <2>3, <3>1
  <2>5. \A i \in 1 .. Len(index) : index[i].position < Len(log) - Len(queue)
    BY Zenon, <1>7, <2>1 DEF IndexedInv
  <2>6. \A i \in 1 .. Len(index) : index[i].position \in Nat
    <3>1. \A i \in 1 .. Len(index) : index[i] \in Entry
      BY Zenon, <1>3, ElementOfSeq
    <3> QED
      BY Zenon, <3>1 DEF Entry
  <2>7. ASSUME NEW i \in 1 .. Len(index') - 1 PROVE index'[i].position < index'[i + 1].position
    <3>1. i \in 1 .. Len(index)
      BY SMT, <1>7
    <3>2. CASE i = Len(index)
      BY Zenon, <1>7, <2>4, <2>5, <3>1, <3>2
    <3>3. CASE i # Len(index)
      <4>1. i \in 1 .. Len(index) - 1 /\ i + 1 \in 1 .. Len(index)
        <5>1. Len(index) \in Nat
          BY Zenon, <1>7
        <5> QED
          BY SMT, <3>1, <3>3, <5>1
      <4>2. index[i].position < index[i + 1].position
        BY Zenon, <2>1, <4>1 DEF IndexedInv
      <4> QED
        BY Zenon, <1>7, <3>1, <4>1, <4>2
    <3> QED
      BY Zenon, <3>2, <3>3
  <2>8. Len(queue') <= Len(log) /\ Len(log) - Len(queue) < Len(log) - Len(queue')
          /\ Len(log) - Len(queue') = (Len(log) - Len(queue)) + 1
    BY SMT, <1>7, <2>3
  <2>9. ASSUME NEW i \in DOMAIN index' PROVE index'[i].position < Len(log) - Len(queue')
    <3>1. CASE i \in 1 .. Len(index)
      <4>1. index'[i].position < Len(log) - Len(queue) /\ index'[i].position \in Nat
        BY Zenon, <1>7, <2>5, <2>6, <3>1
      <4> QED
        BY SMTT(60), <1>7, <2>3, <2>8, <4>1
    <3>2. CASE i = Len(index) + 1
      BY ZenonT(60), <1>7, <2>4, <2>8, <3>2
    <3> QED
      BY ZenonT(60), <1>7, <1>9, <3>1, <3>2
  <2>10. ASSUME NEW j \in DOMAIN queue'
         PROVE  queue'[j].position = Len(log) - Len(queue') + j - 1
    <3>1. j \in 1 .. Len(queue) - 1
      BY Zenon, <1>7
    <3>2. queue'[j].position = Len(log) - Len(queue) + (j + 1) - 1
      BY Zenon, <1>7, <2>1, <3>1 DEF IndexedInv
    <3> QED
      BY SMTT(60), <1>7, <2>3, <3>1, <3>2
  <2>11. \A i \in 1 .. Len(index) : i \in DOMAIN index' /\ Len(index) + 1 \in DOMAIN index'
    BY SMT, <1>7
  <2>12. \A r \in acked : \E i \in DOMAIN index' : index'[i].offset = r.offset
    BY ZenonT(60), <1>7, <2>1, <2>11 DEF IndexedInv
  <2>13. ASSUME Appending, NEW p \in size .. Len(log) - Len(queue') - 1
         PROVE  \E i \in DOMAIN index' : index'[i].position = p
    <3>1. CASE p \in size .. Len(log) - Len(queue) - 1
      BY ZenonT(60), <1>7, <2>1, <2>11, <2>13, <3>1 DEF IndexedInv
    <3>2. CASE ~(p \in size .. Len(log) - Len(queue) - 1)
      <4>1. p = Len(log) - Len(queue)
        BY SMT, <1>7, <2>3, <2>8, <3>2
      <4>2. Len(index) + 1 \in DOMAIN index'
        BY SMT, <1>7
      <4> QED
        BY Zenon, <1>7, <2>4, <4>1, <4>2
    <3> QED
      BY Zenon, <3>1, <3>2
  <2>14. entries' = index'
    BY Zenon, <1>2, <2>2
  <2> QED
    BY Zenon, <1>2, <1>4, <2>2, <2>7, <2>8, <2>9, <2>10, <2>12, <2>13, <2>14 DEF IndexedInv
<1> QED
  BY ZenonT(60), <1>1, <1>5, <1>6, <1>10, <1>11, <1>12, <1>13 DEF SegmentInv

\* The append returns Ok.
LEMMA CommitInv ==
  ASSUME SegmentInv, Commit
  PROVE  SegmentInv'
<1>1. TypeOK'
  BY Zenon, AppendTypes DEF SegmentInv
<1>2. /\ pc = "synced" /\ queue = <<>> /\ size' = size + Len(pending)
      /\ next' = next + Len(pending) /\ acked' = acked \cup Range(pending)
      /\ pending' = <<>> /\ pc' = "idle" /\ log' = log /\ logDur' = logDur /\ index' = index
      /\ indexDur' = (IF SyncLevel = "LogAndIndex" THEN index ELSE indexDur)
      /\ indexTorn' = indexTorn /\ entries' = entries /\ cursor' = cursor
      /\ appendMode' = appendMode /\ queue' = queue /\ mix' = mix
  BY Zenon DEF Commit, SizeAfter
<1>3. Open /\ Open' /\ Appending /\ ~Appending' /\ pc # "down"
  BY Zenon, <1>2 DEF Open, Appending
<1>4. /\ pending \in Seq(Record) /\ size \in Nat /\ next \in Nat /\ BaseOffset \in Nat
      /\ log \in Seq(Record) /\ Len(log) \in Nat /\ acked \subseteq Record
  BY ZenonT(60), WholeLog, BaseIsNat DEF SegmentInv, TypeOK
<1>5. Len(pending) \in Nat /\ DOMAIN pending = 1 .. Len(pending) /\ DOMAIN log = 1 .. Len(log)
        /\ Len(<<>>) = 0
  BY <1>4
<1>6. /\ appendMode \/ cursor = Len(log)
      /\ size + Len(pending) <= Len(log) /\ pending # <<>>
      /\ Len(log) <= MaxRecords /\ Range(log) \subseteq Record
      /\ \A j \in 1 .. Len(pending) :
           pending[j].offset = next + j - 1 /\ pending[j] = log[Len(log) - Len(pending) + j]
  BY Zenon, <1>3, <1>5 DEF SegmentInv, FileInv
<1>7. FileInv'
  <2>1. size' + Len(pending') <= Len(log)
    BY SMT, <1>2, <1>4, <1>5, <1>6
  <2> QED
    BY ZenonT(60), <1>2, <1>3, <1>6, <2>1 DEF FileInv
<1>8. \A r \in Range(pending) : \E j \in 1 .. Len(pending) : r = pending[j] /\ r.offset = next + j - 1
  <2> TAKE r \in Range(pending)
  <2>1. PICK j \in 1 .. Len(pending) : r = pending[j]
    BY Zenon, <1>4, RangeOf
  <2> QED
    BY Zenon, <1>6, <2>1
<1>9. \A j \in 1 .. Len(pending) : Len(log) - Len(pending) + j \in 1 .. Len(log)
  <2>1. Len(pending) <= Len(log)
    BY SMT, <1>4, <1>5, <1>6
  <2> QED
    BY SMT, <1>4, <1>5, <2>1
<1>10. Range(pending) \subseteq Range(log)
  <2> SUFFICES ASSUME NEW r \in Range(pending) PROVE r \in Range(log)
    BY Zenon
  <2>1. PICK j \in 1 .. Len(pending) : r = pending[j]
    BY Zenon, <1>8
  <2>2. r = log[Len(log) - Len(pending) + j]
    BY Zenon, <1>6, <2>1
  <2> QED
    BY Zenon, <1>4, <1>9, <2>2, RangeOf
<1>11. \A r \in acked : r.offset < next /\ r.offset \in Nat
  <2>1. \A r \in acked : r.offset < next
    BY Zenon, <1>3 DEF SegmentInv, AckInv
  <2> QED
    BY Zenon, <1>4, <2>1 DEF Record
<1>12. AckInv'
  <2>1. acked' \subseteq Range(log')
    BY Zenon, <1>2, <1>10 DEF SegmentInv, AckInv, AckedDurable
  <2>2. ASSUME NEW r \in acked', NEW s \in acked', r.offset = s.offset PROVE r = s
    <3>1. CASE r \in acked /\ s \in acked
      BY Zenon, <2>2, <3>1 DEF SegmentInv, AckInv, OffsetsNotReused
    <3>2. CASE r \in acked /\ s \in Range(pending)
      BY SMTT(60), <1>4, <1>8, <1>11, <2>2, <3>2
    <3>3. CASE r \in Range(pending) /\ s \in acked
      BY SMTT(60), <1>4, <1>8, <1>11, <2>2, <3>3
    <3>4. CASE r \in Range(pending) /\ s \in Range(pending)
      <4>1. PICK j \in 1 .. Len(pending) : r = pending[j] /\ r.offset = next + j - 1
        BY Zenon, <1>8, <3>4
      <4>2. PICK k \in 1 .. Len(pending) : s = pending[k] /\ s.offset = next + k - 1
        BY ZenonT(60), <1>8, <3>4
      <4>3. j = k
        BY SMTT(60), <1>4, <1>5, <2>2, <4>1, <4>2
      <4> QED
        BY Zenon, <4>1, <4>2, <4>3
    <3> QED
      BY ZenonT(60), <1>2, <3>1, <3>2, <3>3, <3>4
  <2>3. Last(log').offset = next + Len(pending) - 1 /\ Len(pending) > 0
    <3>1. Len(pending) # 0
      BY <1>4, <1>6
    <3>2. Len(pending) \in 1 .. Len(pending) /\ Len(log) - Len(pending) + Len(pending) = Len(log)
            /\ Len(pending) > 0
      BY SMT, <1>4, <1>5, <3>1
    <3>3. log[Len(log)] = pending[Len(pending)]
            /\ pending[Len(pending)].offset = next + Len(pending) - 1
      BY Zenon, <1>6, <3>2
    <3> QED
      BY ZenonT(60), <1>2, <3>2, <3>3 DEF Last
  <2>4. ASSUME NEW r \in acked' PROVE r.offset <= Last(log').offset /\ r.offset < next'
    <3>1. CASE r \in acked
      <4>1. r.offset < next /\ r.offset \in Nat
        BY ZenonT(60), <1>11, <3>1
      <4> QED
        BY SMTT(60), <1>2, <1>4, <1>5, <2>3, <4>1
    <3>2. CASE r \in Range(pending)
      <4>1. PICK j \in 1 .. Len(pending) : r.offset = next + j - 1
        BY Zenon, <1>8, <3>2
      <4> QED
        BY SMTT(60), <1>2, <1>4, <1>5, <2>3, <4>1
    <3> QED
      BY ZenonT(60), <1>2, <3>1, <3>2
  <2> QED
    BY Zenon, <2>1, <2>2, <2>4 DEF AckInv, AckedDurable, OffsetsNotReused
<1>13. "io" \notin mix => size + Len(pending) = Len(log) /\ next = BaseOffset + size
  BY Zenon, <1>3 DEF SegmentInv, DenseInv
<1>14. "io" \notin mix' => DenseInv'
  <2> SUFFICES ASSUME "io" \notin mix PROVE DenseInv'
    BY Zenon, <1>2
  <2>1. size' + Len(pending') = Len(log') /\ next' = BaseOffset + size'
    <3>1. /\ size' = size + Len(pending) /\ next' = next + Len(pending) /\ Len(pending') = 0
          /\ log' = log /\ size + Len(pending) = Len(log) /\ next = BaseOffset + size
      BY Zenon, <1>2, <1>5, <1>13
    <3>2. size \in Nat /\ BaseOffset \in Nat /\ Len(pending) \in Nat /\ Len(log) \in Nat
      BY Zenon, <1>4, <1>5
    <3>3. Len(log') = Len(log) /\ size' + 0 = size' /\ next' = BaseOffset + size'
      BY SMT, <3>1, <3>2
    <3> QED
      BY Zenon, <3>1, <3>3
  <2> QED
    BY Zenon, <1>2, <2>1 DEF SegmentInv, DenseInv, Aligned
<1>15. "power" \in mix' => SyncInv'
  <2> SUFFICES ASSUME "power" \in mix PROVE SyncInv'
    BY Zenon, <1>2
  <2>1. logDur = log /\ IsPrefix(logDur, log) /\ acked \subseteq Range(logDur)
    BY Zenon, <1>2 DEF SegmentInv, SyncInv
  <2>2. acked' \subseteq Range(logDur)
    BY Zenon, <1>2, <1>10, <2>1
  <2>3. pc' # "synced"
    BY Zenon, <1>2
  <2> QED
    BY Zenon, <1>2, <2>1, <2>2, <2>3 DEF SyncInv
<1>16. "power" \notin mix' => InsideInv'
  BY Zenon, <1>2 DEF SegmentInv, InsideInv, Inside
<1>17. mix' \subseteq {"kill"} => IndexedInv'
  <2> SUFFICES ASSUME mix \subseteq {"kill"} PROVE IndexedInv'
    BY Zenon, <1>2
  <2>1. IndexedInv /\ DenseInv
    BY Zenon DEF SegmentInv
  <2>2. Len(queue) = 0
    BY Zenon, <1>2
  <2>5. "io" \notin mix
    BY Zenon, "io" \notin {"kill"}
  <2>3. ASSUME NEW r \in Range(pending) PROVE \E i \in DOMAIN index : index[i].offset = r.offset
    <3>1. PICK j \in 1 .. Len(pending) : r.offset = next + j - 1
      BY Zenon, <1>8
    <3>2. size + j - 1 \in size .. Len(log) - Len(queue) - 1
            /\ r.offset = BaseOffset + (size + j - 1)
      <4>1. size + Len(pending) = Len(log) /\ next = BaseOffset + size
        BY Zenon, <2>5, <1>13
      <4> QED
        BY SMTT(60), <1>4, <1>5, <2>2, <3>1, <4>1
    <3>3. PICK i \in DOMAIN index : index[i].position = size + j - 1
      BY Zenon, <1>3, <2>1, <3>2 DEF IndexedInv
    <3>4. index[i].offset = BaseOffset + index[i].position
      BY Zenon, <2>1 DEF DenseInv, Aligned
    <3> QED
      BY Zenon, <3>2, <3>3, <3>4
  <2>4. \A r \in acked' : \E i \in DOMAIN index : index[i].offset = r.offset
    BY Zenon, <1>2, <2>1, <2>3 DEF IndexedInv
  <2> QED
    BY Zenon, <1>2, <1>3, <2>1, <2>4 DEF IndexedInv
<1> QED
  BY ZenonT(60), <1>1, <1>7, <1>12, <1>14, <1>15, <1>16, <1>17 DEF SegmentInv

\* The append returns an error: what it wrote stays, uncounted.
LEMMA IoErrorInv ==
  ASSUME SegmentInv, Tolerated, IoError
  PROVE  SegmentInv'
<1>1. TypeOK'
  BY Zenon, AppendTypes DEF SegmentInv
<1>2. /\ "io" \in mix /\ pc \in {"written", "synced"} /\ pc' = "idle" /\ pending' = <<>>
      /\ queue' = <<>> /\ log' = log /\ index' = index /\ entries' = entries
      /\ size' = size /\ next' = next /\ cursor' = cursor /\ appendMode' = appendMode
      /\ acked' = acked /\ mix' = mix
  BY Zenon DEF IoError, files
<1>3. Open /\ Open' /\ Appending /\ ~Appending'
  BY Zenon, <1>2 DEF Open, Appending
<1>4. "power" \notin mix /\ ~(mix \subseteq {"kill"})
  <2>1. "power" \notin mix
    BY Zenon, <1>2 DEF Tolerated, SegmentInv, TypeOK
  <2>2. "io" \notin {"kill"}
    OBVIOUS
  <2> QED
    BY Zenon, <1>2, <2>1, <2>2
<1>5. FileInv'
  <2>1. size + Len(pending) <= Len(log) /\ size \in Nat /\ Len(pending) \in Nat /\ Len(log) \in Nat
          /\ Len(<<>>) = 0
    <3>1. pending \in Seq(Record) /\ size \in Nat /\ Len(log) \in Nat
      BY Zenon, WholeLog DEF SegmentInv, TypeOK
    <3>2. size + Len(pending) <= Len(log)
      BY Zenon, <1>3 DEF SegmentInv, FileInv
    <3> QED
      BY <3>1, <3>2
  <2>2. size' + Len(pending') <= Len(log)
    BY SMT, <1>2, <2>1
  <2> QED
    BY ZenonT(60), <1>2, <1>3, <2>2 DEF SegmentInv, FileInv
<1>6. AckInv'
  BY Zenon, <1>2, <1>3 DEF SegmentInv, AckInv, AckedDurable, OffsetsNotReused
<1>7. InsideInv'
  <2>1. DOMAIN queue' = {}
    BY <1>2
  <2> QED
    BY Zenon, <1>2, <1>4, <2>1 DEF SegmentInv, InsideInv, Inside
<1> QED
  BY ZenonT(60), <1>1, <1>2, <1>4, <1>5, <1>6, <1>7 DEF SegmentInv

\* A read that covers the segment leaves the file position at its end.
LEMMA ReadInv ==
  ASSUME SegmentInv, Tolerated, NEW o \in Nat, Read(o)
  PROVE  SegmentInv'
<1>1. TypeOK'
  BY Zenon, ReadTypes DEF SegmentInv
<1>2. /\ pc = "idle" /\ o < next /\ log' = log /\ logDur' = logDur /\ index' = index
      /\ indexTorn' = indexTorn /\ indexDur' = indexDur /\ pc' = pc /\ entries' = entries
      /\ size' = size /\ next' = next /\ appendMode' = appendMode /\ pending' = pending
      /\ queue' = queue /\ acked' = acked /\ mix' = mix
  BY Zenon DEF Read, files
<1>3. Open /\ Open' /\ ~Appending /\ ~Appending'
  BY Zenon, <1>2 DEF Open, Appending
<1>4. PICK p \in Positions(o) : cursor' = IF p < Len(log) THEN ReadAdvances(p) ELSE p
  BY Zenon DEF Read
<1>5. PICK e \in Range(entries) : p = e.position /\ e.offset = o
  BY Zenon, <1>4 DEF Positions
<1>6. PICK i \in DOMAIN entries : e = entries[i]
  BY Zenon, <1>5 DEF Range
<1>7. e \in Entry
  BY ZenonT(60), <1>5, RangeIn DEF SegmentInv, TypeOK
<1>8. p \in Nat
  BY Zenon, <1>5, <1>7 DEF Entry
<1>9. Len(log) \in Nat /\ Len(log) <= MaxRecords /\ MaxRecords <= ReadCells
        /\ MaxRecords \in Nat /\ ReadCells \in Nat /\ BaseOffset \in Nat
  BY Zenon, WholeLog, BaseIsNat DEF SegmentInv, FileInv, Tolerated
<1>10. p < Len(log)
  <2>1. CASE "io" \notin mix
    <3>1. next = BaseOffset + Len(log)
      BY Zenon, <1>2, <2>1, IdleFacts
    <3>2. o = BaseOffset + p
      BY ZenonT(60), <1>5, <1>6, <2>1 DEF SegmentInv, DenseInv, Aligned
    <3> QED
      BY SMT, <1>2, <1>8, <1>9, <3>1, <3>2
  <2>2. CASE "io" \in mix
    <3>1. "power" \notin mix
      BY ZenonT(60), <2>2 DEF Tolerated, SegmentInv, TypeOK
    <3> QED
      BY ZenonT(60), <1>5, <1>6, <3>1 DEF SegmentInv, InsideInv, Inside
  <2> QED
    BY Zenon, <2>1, <2>2
<1>11. cursor' = Len(log)
  BY SMTT(60), <1>4, <1>8, <1>9, <1>10 DEF ReadAdvances
<1>12. FileInv'
  BY ZenonT(60), <1>2, <1>3, <1>11 DEF SegmentInv, FileInv
<1>13. AckInv'
  BY Zenon, <1>2, <1>3 DEF SegmentInv, AckInv, AckedDurable, OffsetsNotReused
<1>14. "io" \notin mix' => DenseInv'
  BY Zenon, <1>2, <1>3 DEF SegmentInv, DenseInv, Aligned
<1>15. "power" \in mix' => SyncInv'
  BY Zenon, <1>2 DEF SegmentInv, SyncInv
<1>16. "power" \notin mix' => InsideInv'
  BY Zenon, <1>2 DEF SegmentInv, InsideInv, Inside
<1>17. mix' \subseteq {"kill"} => IndexedInv'
  BY Zenon, <1>2, <1>3 DEF SegmentInv, IndexedInv
<1> QED
  BY ZenonT(60), <1>1, <1>12, <1>13, <1>14, <1>15, <1>16, <1>17 DEF SegmentInv

\* When the process is gone nothing is known of its memory.
LEMMA DownFacts ==
  ASSUME Down
  PROVE  /\ pc' = "down" /\ entries' = <<>> /\ pending' = <<>> /\ queue' = <<>>
         /\ acked' = acked /\ mix' = mix /\ ~Open' /\ ~Appending'
         /\ DOMAIN entries' = {} /\ DOMAIN queue' = {} /\ Len(queue') = 0
<1>1. pc' = "down" /\ entries' = <<>> /\ pending' = <<>> /\ queue' = <<>>
        /\ acked' = acked /\ mix' = mix
  BY Zenon DEF Down
<1>2. ~Open' /\ ~Appending'
  BY Zenon, <1>1 DEF Open, Appending
<1>3. DOMAIN entries' = {} /\ DOMAIN queue' = {} /\ Len(queue') = 0
  BY SMTT(60), <1>1
<1> QED
  BY Zenon, <1>1, <1>2, <1>3

\* A kill leaves the files as they are.
LEMMA KillInv ==
  ASSUME SegmentInv, Kill
  PROVE  SegmentInv'
<1>1. TypeOK'
  BY Zenon, KillTypes DEF SegmentInv
<1>2. Down /\ log' = log /\ logDur' = logDur /\ index' = index /\ indexTorn' = indexTorn
        /\ indexDur' = indexDur
  BY Zenon DEF Kill, files
<1>3. /\ pc' = "down" /\ entries' = <<>> /\ pending' = <<>> /\ queue' = <<>>
      /\ acked' = acked /\ mix' = mix /\ ~Open' /\ ~Appending'
      /\ DOMAIN entries' = {} /\ DOMAIN queue' = {} /\ Len(queue') = 0
  BY Zenon, <1>2, DownFacts
<1>4. FileInv'
  BY Zenon, <1>2, <1>3 DEF SegmentInv, FileInv
<1>5. AckInv'
  BY Zenon, <1>2, <1>3 DEF SegmentInv, AckInv, AckedDurable, OffsetsNotReused
<1>6. "io" \notin mix' => DenseInv'
  BY Zenon, <1>2, <1>3 DEF SegmentInv, DenseInv, Aligned
<1>7. "power" \in mix' => SyncInv'
  BY Zenon, <1>2, <1>3 DEF SegmentInv, SyncInv
<1>8. "power" \notin mix' => InsideInv'
  BY Zenon, <1>2, <1>3 DEF SegmentInv, InsideInv, Inside
<1>9. mix' \subseteq {"kill"} => IndexedInv'
  <2> SUFFICES ASSUME mix \subseteq {"kill"} PROVE IndexedInv'
    BY Zenon, <1>3
  <2>1. IndexedInv /\ InsideInv
    <3>1. "power" \notin mix
      BY Zenon, "power" \notin {"kill"}
    <3> QED
      BY Zenon, <3>1 DEF SegmentInv
  <2>2. Len(log) \in Nat
    BY Zenon, WholeLog DEF SegmentInv
  <2>3. Len(queue') <= Len(log) /\ Len(log) - Len(queue') = Len(log)
    BY SMT, <1>3, <2>2
  <2>4. \A i \in DOMAIN index : index[i].position < Len(log) - Len(queue')
    BY Zenon, <2>1, <2>3 DEF InsideInv, Inside
  <2> QED
    BY ZenonT(60), <1>2, <1>3, <2>1, <2>3, <2>4 DEF IndexedInv
<1> QED
  BY Zenon, <1>1, <1>4, <1>5, <1>6, <1>7, <1>8, <1>9 DEF SegmentInv

\* A kill inside write_all leaves some of the records at the end of the log.
LEMMA KillInWriteInv ==
  ASSUME SegmentInv, NEW values \in Writes, KillInWrite(values)
  PROVE  SegmentInv'
<1>1. TypeOK'
  BY Zenon, KillInWriteTypes DEF SegmentInv
<1>2. /\ Down /\ pc = "idle" /\ Len(log) + Len(values) <= MaxRecords /\ logDur' = logDur
      /\ index' = index /\ indexTorn' = indexTorn /\ indexDur' = indexDur
  BY Zenon DEF KillInWrite
<1>3. /\ pc' = "down" /\ entries' = <<>> /\ pending' = <<>> /\ queue' = <<>>
      /\ acked' = acked /\ mix' = mix /\ ~Open' /\ ~Appending'
      /\ DOMAIN entries' = {} /\ DOMAIN queue' = {} /\ Len(queue') = 0
  BY Zenon, <1>2, DownFacts
<1>4. PICK n \in 0 .. Len(values) - 1 : log' = log \o SubSeq(Numbered(values), 1, n)
  BY Zenon DEF KillInWrite
<1>5. Len(values) \in Nat
  <2>1. values \in Seq(Value)
    BY Zenon, SegmentAssumption DEF SegmentAssumption
  <2> QED
    BY <2>1
<1>6. n \in 0 .. Len(values)
  BY SMT, <1>5
<1>7. /\ Len(log) \in Nat /\ log' \in Seq(Record) /\ Len(log') = Len(log) + n
      /\ \A i \in 1 .. Len(log) : log'[i] = log[i]
      /\ Range(log) \subseteq Range(log')
      /\ \A r \in acked : r.offset <= Last(log').offset
      /\ "io" \notin mix => \A i \in DOMAIN log' : log'[i].offset = BaseOffset + i - 1
  BY ZenonT(60), <1>2, <1>4, <1>6, LogGrows
<1>8. Len(log') <= MaxRecords /\ Len(log) <= Len(log') /\ Len(log') \in Nat
  BY SMTT(60), <1>2, <1>5, <1>6, <1>7, BaseIsNat
<1>9. FileInv'
  <2>1. Range(log') \subseteq Record
    BY Zenon, <1>7, RangeIn
  <2> QED
    BY Zenon, <1>3, <1>8, <2>1 DEF FileInv
<1>10. AckInv'
  BY Zenon, <1>3, <1>7 DEF SegmentInv, AckInv, AckedDurable, OffsetsNotReused
<1>11. "io" \notin mix' => DenseInv'
  <2> SUFFICES ASSUME "io" \notin mix PROVE DenseInv'
    BY Zenon, <1>3
  <2>1. Aligned(index) /\ Aligned(indexDur)
    BY Zenon DEF SegmentInv, DenseInv
  <2>2. Aligned(entries') /\ Aligned(queue')
    BY Zenon, <1>3 DEF Aligned
  <2> QED
    BY ZenonT(60), <1>2, <1>3, <1>7, <2>1, <2>2 DEF DenseInv, Aligned
<1>12. "power" \in mix' => SyncInv'
  <2> SUFFICES ASSUME "power" \in mix PROVE SyncInv'
    BY Zenon, <1>3
  <2>1. IsPrefix(logDur, log) /\ acked \subseteq Range(logDur)
    BY Zenon DEF SegmentInv, SyncInv
  <2>2. Len(logDur) \in Nat
    BY ZenonT(60), LenProperties DEF SegmentInv, TypeOK
  <2>3. Len(logDur) <= Len(log') /\ \A i \in 1 .. Len(logDur) : i \in 1 .. Len(log)
    <3>1. Len(logDur) <= Len(log)
      BY Zenon, <2>1 DEF IsPrefix
    <3> QED
      BY SMTT(60), <1>7, <1>8, <2>2, <3>1
  <2>4. \A i \in 1 .. Len(logDur) : logDur[i] = log'[i]
    BY Zenon, <1>7, <2>1, <2>3 DEF IsPrefix
  <2>5. IsPrefix(logDur', log')
    BY ZenonT(60), <1>2, <2>3, <2>4 DEF IsPrefix
  <2> QED
    BY ZenonT(60), <1>2, <1>3, <2>1, <2>5 DEF SyncInv
<1>13. "power" \notin mix' => Inside(index)'
  <2> SUFFICES ASSUME "power" \notin mix, NEW i \in DOMAIN index PROVE index[i].position < Len(log')
    BY Zenon, <1>2, <1>3 DEF Inside
  <2>1. index[i].position < Len(log) /\ index[i] \in Entry
    <3>1. index \in Seq(Entry)
      BY Zenon DEF SegmentInv, TypeOK
    <3>2. index[i] \in Entry
      BY <3>1
    <3> QED
      BY Zenon, <3>2 DEF SegmentInv, InsideInv, Inside
  <2>2. index[i].position \in Nat
    BY Zenon, <2>1 DEF Entry
  <2> QED
    BY SMT, <1>7, <1>8, <2>1, <2>2
<1>14. "power" \notin mix' => InsideInv'
  BY Zenon, <1>3, <1>13 DEF InsideInv, Inside
<1>15. mix' \subseteq {"kill"} => IndexedInv'
  <2> SUFFICES ASSUME mix \subseteq {"kill"} PROVE IndexedInv'
    BY Zenon, <1>3
  <2>1. IndexedInv /\ Inside(index)'
    <3>1. "power" \notin mix
      BY Zenon, "power" \notin {"kill"}
    <3> QED
      BY Zenon, <1>3, <1>13, <3>1 DEF SegmentInv
  <2>2. Len(queue') <= Len(log') /\ Len(log') - Len(queue') = Len(log')
    BY SMT, <1>3, <1>8
  <2>3. \A i \in DOMAIN index : index[i].position < Len(log') - Len(queue')
    BY Zenon, <1>2, <2>1, <2>2 DEF Inside
  <2> QED
    BY Zenon, <1>2, <1>3, <2>1, <2>2, <2>3 DEF IndexedInv
<1> QED
  BY ZenonT(60), <1>1, <1>9, <1>10, <1>11, <1>12, <1>14, <1>15 DEF SegmentInv

\* Of a file whose synced part is a prefix a power loss leaves a prefix that is
\* no shorter.
LEMMA SurvivorBetween ==
  ASSUME NEW S, NEW cur \in Seq(S), NEW dur \in Seq(S), IsPrefix(dur, cur),
         NEW s \in Survivors(cur, dur)
  PROVE  s \in Seq(S) /\ IsPrefix(s, cur) /\ IsPrefix(dur, s)
<1>1. Len(dur) \in Nat /\ Len(cur) \in Nat /\ Len(dur) <= Len(cur)
        /\ \A i \in 1 .. Len(dur) : dur[i] = cur[i]
  BY DEF IsPrefix
<1>2. IsPrefix(cur, cur) /\ IsPrefix(dur, dur)
  BY <1>1 DEF IsPrefix
<1>3. s = cur \/ s = dur \/ \E k \in Len(dur) .. Len(cur) : s = SubSeq(cur, 1, k)
  BY Zenon DEF Survivors
<1>4. ASSUME NEW k \in Len(dur) .. Len(cur), s = SubSeq(cur, 1, k)
      PROVE  s \in Seq(S) /\ IsPrefix(s, cur) /\ IsPrefix(dur, s)
  <2>1. /\ s \in Seq(S) /\ Len(s) = k /\ \A i \in 1 .. k : s[i] = cur[i]
    BY SMT, <1>1, <1>4
  <2>2. IsPrefix(s, cur)
    BY SMT, <1>1, <2>1 DEF IsPrefix
  <2>3. IsPrefix(dur, s)
    BY SMT, <1>1, <2>1 DEF IsPrefix
  <2> QED
    BY Zenon, <2>1, <2>2, <2>3
<1> QED
  BY Zenon, <1>2, <1>3, <1>4

\* A power loss leaves no entry that was never written.
LEMMA SurvivorAligned ==
  ASSUME NEW cur \in Seq(Entry), NEW dur \in Seq(Entry), Aligned(cur), Aligned(dur),
         NEW s \in Survivors(cur, dur)
  PROVE  Aligned(s)
<1> DEFINE OK(e) == e.offset = BaseOffset + e.position
<1>1. CASE s = cur \/ s = dur
  BY Zenon, <1>1
<1>2. CASE \E k \in Len(dur) .. Len(cur) : s = SubSeq(cur, 1, k)
  <2>1. PICK k \in Len(dur) .. Len(cur) : s = SubSeq(cur, 1, k)
    BY Zenon, <1>2
  <2>2. Len(cur) \in Nat /\ Len(dur) \in Nat /\ DOMAIN cur = 1 .. Len(cur)
    BY Zenon, LenProperties
  <2>3. DOMAIN s = 1 .. k /\ \A i \in 1 .. k : s[i] = cur[i] /\ i \in DOMAIN cur
    BY SMT, <2>1, <2>2
  <2>4. \A i \in DOMAIN cur : OK(cur[i])
    BY Zenon DEF Aligned
  <2> HIDE DEF OK
  <2>5. \A i \in DOMAIN s : OK(s[i])
    BY Zenon, <2>3, <2>4
  <2> QED
    BY Zenon, <2>5 DEF Aligned, OK
<1> QED
  BY Zenon, <1>1, <1>2 DEF Survivors

\* The items of a prefix are items of the whole.
LEMMA PrefixRange ==
  ASSUME NEW S, NEW s \in Seq(S), NEW t \in Seq(S), IsPrefix(s, t)
  PROVE  Range(s) \subseteq Range(t) /\ \A i \in 1 .. Len(s) : i \in 1 .. Len(t) /\ s[i] = t[i]
<1>1. \A i \in 1 .. Len(s) : i \in 1 .. Len(t) /\ s[i] = t[i]
  BY DEF IsPrefix
<1>2. \A x : x \in Range(s) <=> \E i \in 1 .. Len(s) : x = s[i]
  BY Zenon, RangeOf
<1>3. \A x : x \in Range(t) <=> \E i \in 1 .. Len(t) : x = t[i]
  BY Zenon, RangeOf
<1> QED
  BY Zenon, <1>1, <1>2, <1>3

\* A power loss leaves a prefix of the log with all acknowledged records.
LEMMA PowerLossInv ==
  ASSUME SegmentInv, Tolerated, PowerLoss
  PROVE  SegmentInv'
<1>1. TypeOK'
  BY Zenon, PowerLossTypes DEF SegmentInv
<1>2. /\ Down /\ "power" \in mix /\ log' \in Survivors(log, logDur) /\ logDur' = log'
      /\ index' \in Survivors(index, indexDur) /\ indexDur' = index'
  BY Zenon DEF PowerLoss
<1>3. /\ pc' = "down" /\ entries' = <<>> /\ pending' = <<>> /\ queue' = <<>>
      /\ acked' = acked /\ mix' = mix /\ ~Open' /\ ~Appending'
      /\ DOMAIN entries' = {} /\ DOMAIN queue' = {} /\ Len(queue') = 0
  BY Zenon, <1>2, DownFacts
<1>4. "io" \notin mix /\ ~(mix \subseteq {"kill"})
  <2>1. "io" \notin mix
    BY Zenon, <1>2 DEF Tolerated, SegmentInv, TypeOK
  <2>2. "power" \notin {"kill"}
    OBVIOUS
  <2> QED
    BY Zenon, <1>2, <2>1, <2>2
<1>5. DenseInv /\ SyncInv
  BY Zenon, <1>2, <1>4 DEF SegmentInv
<1>6. /\ log \in Seq(Record) /\ Len(log) \in Nat
  BY Zenon, WholeLog DEF SegmentInv
<1>7. logDur \in Seq(Record)
  <2>1. logDur \in Seq(Cell) /\ log \in Seq(Cell) /\ IsPrefix(logDur, log)
    BY ZenonT(60), <1>5 DEF SegmentInv, TypeOK, Cell, SyncInv
  <2>2. Range(logDur) \subseteq Range(log)
    BY Zenon, <2>1, PrefixRange
  <2>3. Range(logDur) \subseteq Record
    BY Zenon, <2>2 DEF SegmentInv, FileInv
  <2>4. DOMAIN logDur = 1 .. Len(logDur) /\ Len(logDur) \in Nat
    BY Zenon, <2>1, LenProperties
  <2>5. \A i \in 1 .. Len(logDur) : logDur[i] \in Record
    BY Zenon, <2>3, <2>4 DEF Range
  <2> QED
    BY SMTT(60), <2>1, <2>4, <2>5
<1>8. log' \in Seq(Record) /\ IsPrefix(log', log) /\ IsPrefix(logDur, log')
  BY Zenon, <1>2, <1>5, <1>6, <1>7, SurvivorBetween DEF SyncInv
<1>9. /\ Range(log') \subseteq Range(log)
      /\ \A i \in 1 .. Len(log') : i \in 1 .. Len(log) /\ log'[i] = log[i]
  BY ZenonT(60), <1>6, <1>8, PrefixRange
<1>10. Range(logDur) \subseteq Range(log')
  BY Zenon, <1>7, <1>8, PrefixRange
<1>11. Len(log') \in Nat /\ DOMAIN log' = 1 .. Len(log') /\ DOMAIN log = 1 .. Len(log)
  BY Zenon, <1>6, <1>8, LenProperties
<1>12. \A i \in 1 .. Len(log') : log'[i].offset = BaseOffset + i - 1
  BY Zenon, <1>5, <1>9, <1>11 DEF DenseInv
<1>13. FileInv'
  <2>1. Len(log') <= MaxRecords
    <3>1. Len(log') <= Len(log) /\ Len(log) <= MaxRecords
      BY Zenon, <1>8 DEF IsPrefix, SegmentInv, FileInv
    <3> QED
      BY SMT, <1>6, <1>11, <3>1, BaseIsNat
  <2>2. Range(log') \subseteq Record
    BY Zenon, <1>8, RangeIn
  <2> QED
    BY Zenon, <1>3, <2>1, <2>2 DEF FileInv
<1>14. AckInv'
  <2>1. acked' \subseteq Range(log')
    BY Zenon, <1>3, <1>5, <1>10 DEF SyncInv
  <2>2. ASSUME NEW r \in acked' PROVE r.offset <= Last(log').offset
    <3>1. PICK i \in 1 .. Len(log') : r = log'[i]
      BY Zenon, <1>8, <2>1, RangeOf
    <3>2. Len(log') \in 1 .. Len(log') /\ BaseOffset + i - 1 <= BaseOffset + Len(log') - 1
      BY SMT, <1>11, <3>1, BaseIsNat
    <3> QED
      BY Zenon, <1>12, <3>1, <3>2 DEF Last
  <2> QED
    BY Zenon, <1>3, <2>1, <2>2 DEF SegmentInv, AckInv, AckedDurable, OffsetsNotReused
<1>15. DenseInv'
  <2>1. Aligned(index')
    BY ZenonT(60), <1>2, <1>5, SurvivorAligned DEF DenseInv, SegmentInv, TypeOK
  <2>2. Aligned(entries') /\ Aligned(queue')
    BY Zenon, <1>3 DEF Aligned
  <2> QED
    BY ZenonT(60), <1>2, <1>3, <1>11, <1>12, <2>1, <2>2 DEF DenseInv, Aligned
<1>16. SyncInv'
  <2>1. Len(log') <= Len(log')
    BY SMT, <1>11
  <2>2. IsPrefix(log', log')
    BY ZenonT(60), <2>1 DEF IsPrefix
  <2>3. acked' \subseteq Range(log')
    BY Zenon, <1>3, <1>5, <1>10 DEF SyncInv
  <2> QED
    BY Zenon, <1>2, <1>3, <2>2, <2>3 DEF SyncInv
<1> QED
  BY ZenonT(60), <1>1, <1>2, <1>3, <1>4, <1>13, <1>14, <1>15, <1>16 DEF SegmentInv

\* Segment::load opens the files, and rebuilds an index without entries.
LEMMA LoadInv ==
  ASSUME SegmentInv, Load
  PROVE  SegmentInv'
<1>1. TypeOK'
  BY Zenon, LoadTypes DEF SegmentInv
<1>2. /\ pc = "down" /\ pc' = "loading" /\ index' = UsableIndex /\ entries' = UsableIndex
      /\ indexDur' = (IF indexTorn THEN <<>> ELSE indexDur) /\ ~indexTorn'
      /\ queue' = (IF NeedsRebuild THEN EntriesOf(Decoded, 0) ELSE <<>>)
      /\ log' = log /\ logDur' = logDur /\ pending' = pending /\ acked' = acked /\ mix' = mix
  BY Zenon DEF Load
<1>3. ~Open /\ ~Appending /\ ~Open' /\ ~Appending' /\ pc' \notin {"idle", "down"} /\ pc' # "synced"
  BY Zenon, <1>2 DEF Open, Appending
<1>4. log \in Seq(Record) /\ Len(log) \in Nat /\ Decoded = log
  BY ZenonT(60), WholeLog DEF SegmentInv
<1> DEFINE q == EntriesOf(log, 0)
<1>5. /\ q \in Seq(Entry) /\ Len(q) = Len(log)
      /\ \A j \in 1 .. Len(log) : q[j] = [offset |-> log[j].offset, position |-> 0 + j - 1]
  BY Zenon, <1>4, EntriesOfRecords
<1>6. DOMAIN q = 1 .. Len(log) /\ DOMAIN log = 1 .. Len(log)
  BY Zenon, <1>4, <1>5, LenProperties
<1>7. queue' = q \/ queue' = <<>>
  BY Zenon, <1>2, <1>4
<1> HIDE DEF q
<1>8. \A j \in 1 .. Len(log) : q[j].offset = log[j].offset /\ q[j].position = j - 1
  <2> TAKE j \in 1 .. Len(log)
  <2>1. q[j] = [offset |-> log[j].offset, position |-> 0 + j - 1] /\ 0 + j - 1 = j - 1
    BY <1>4, <1>5
  <2> QED
    BY SMT, <2>1
<1>9. DOMAIN <<>> = {} /\ Len(<<>>) = 0
  OBVIOUS
<1>10. index' = index \/ index' = <<>>
  BY Zenon, <1>2 DEF UsableIndex
<1>11. FileInv'
  BY ZenonT(60), <1>2, <1>3 DEF SegmentInv, FileInv
<1>12. AckInv'
  BY Zenon, <1>2, <1>3 DEF SegmentInv, AckInv, AckedDurable, OffsetsNotReused
<1>13. "io" \notin mix' => DenseInv'
  <2> SUFFICES ASSUME "io" \notin mix PROVE DenseInv'
    BY Zenon, <1>2
  <2>1. DenseInv
    BY Zenon DEF SegmentInv
  <2>2. Aligned(<<>>)
    BY Zenon, <1>9 DEF Aligned
  <2>3. Aligned(index') /\ Aligned(entries') /\ Aligned(indexDur')
    BY ZenonT(60), <1>2, <2>1, <2>2 DEF DenseInv, UsableIndex
  <2>4. Aligned(q)
    <3> SUFFICES ASSUME NEW j \in 1 .. Len(log) PROVE q[j].offset = BaseOffset + q[j].position
      BY Zenon, <1>6 DEF Aligned
    <3>1. log[j].offset = BaseOffset + j - 1
      BY Zenon, <1>6, <2>1 DEF DenseInv
    <3>2. q[j].offset = log[j].offset /\ q[j].position = j - 1
      BY Zenon, <1>8
    <3> QED
      BY Zenon, <1>4, <3>1, <3>2, BaseIsNat
  <2>5. Aligned(queue')
    BY Zenon, <1>7, <2>2, <2>4
  <2> QED
    BY ZenonT(60), <1>2, <1>3, <2>1, <2>3, <2>5 DEF DenseInv, Aligned
<1>14. "power" \in mix' => SyncInv'
  BY Zenon, <1>2, <1>3 DEF SegmentInv, SyncInv
<1>15. "power" \notin mix' => InsideInv'
  <2> SUFFICES ASSUME "power" \notin mix PROVE InsideInv'
    BY Zenon, <1>2
  <2>1. Inside(index)' /\ Inside(entries)'
    BY ZenonT(60), <1>2, <1>9 DEF SegmentInv, InsideInv, Inside, UsableIndex
  <2>2. \A j \in DOMAIN q : q[j].position < Len(log)
    BY SMT, <1>4, <1>6, <1>8
  <2>3. Inside(queue)'
    BY Zenon, <1>2, <1>7, <1>9, <2>2 DEF Inside
  <2> QED
    BY Zenon, <2>1, <2>3 DEF InsideInv
<1>16. mix' \subseteq {"kill"} => IndexedInv'
  <2> SUFFICES ASSUME mix \subseteq {"kill"} PROVE IndexedInv'
    BY Zenon, <1>2
  <2>1. IndexedInv
    BY Zenon DEF SegmentInv
  <2>2. index' = index /\ entries' = index' /\ UsableIndex = index
    BY Zenon, <1>2, <2>1 DEF IndexedInv, UsableIndex
  <2>3. Inside(index)
    <3>1. "power" \notin mix
      BY Zenon, "power" \notin {"kill"}
    <3> QED
      BY Zenon, <3>1 DEF SegmentInv, InsideInv
  <2>4. CASE queue' = <<>>
    <3>1. Len(queue') <= Len(log) /\ Len(log) - Len(queue') = Len(log)
      BY SMT, <1>4, <1>9, <2>4
    <3>2. \A i \in DOMAIN index : index[i].position < Len(log) - Len(queue')
      BY Zenon, <2>3, <3>1 DEF Inside
    <3> QED
      BY ZenonT(60), <1>2, <1>3, <1>9, <2>1, <2>2, <2>4, <3>1, <3>2 DEF IndexedInv
  <2>5. CASE queue' # <<>>
    <3>1. queue' = q /\ index = <<>>
      BY ZenonT(60), <1>2, <1>7, <2>2, <2>5 DEF NeedsRebuild
    <3>2. Len(queue') <= Len(log) /\ Len(log) - Len(queue') = 0
      <4>1. Len(queue') = Len(log) /\ Len(log) \in Nat
        BY ZenonT(60), <1>4, <1>5, <3>1
      <4> QED
        BY SMT, <4>1
    <3>3. \A j \in DOMAIN queue' : queue'[j].position = Len(log) - Len(queue') + j - 1
      <4> SUFFICES ASSUME NEW j \in 1 .. Len(log) PROVE q[j].position = 0 + j - 1
        BY ZenonT(60), <1>6, <3>1, <3>2
      <4>1. q[j].position = j - 1
        BY Zenon, <1>8
      <4> QED
        BY SMT, <1>4, <4>1
    <3>4. DOMAIN index = {}
      BY ZenonT(60), <1>9, <3>1
    <3> QED
      BY ZenonT(60), <1>2, <1>3, <2>1, <2>2, <3>2, <3>3, <3>4 DEF IndexedInv
  <2> QED
    BY Zenon, <2>4, <2>5
<1> QED
  BY Zenon, <1>1, <1>11, <1>12, <1>13, <1>14, <1>15, <1>16 DEF SegmentInv

\* Segment::load returns: the segment goes on after the last record of the log.
LEMMA FinishLoadInv ==
  ASSUME SegmentInv, FinishLoad
  PROVE  SegmentInv'
<1>1. TypeOK'
  BY ZenonT(60), LoadTypes DEF SegmentInv
<1>2. log \in Seq(Record) /\ Len(log) \in Nat /\ Decoded = log
  BY Zenon, WholeLog DEF SegmentInv
<1>3. /\ pc = "loading" /\ queue = <<>> /\ log' = log /\ size' = Len(log)
      /\ next' = NextAfter(log) /\ cursor' = Len(log) /\ pc' = "idle" /\ logDur' = logDur
      /\ index' = index /\ indexTorn' = indexTorn /\ indexDur' = indexDur
      /\ entries' = entries /\ pending' = pending /\ queue' = queue /\ acked' = acked
      /\ mix' = mix
  BY Zenon, <1>2 DEF FinishLoad
<1>4. ~Open /\ ~Appending /\ Open' /\ ~Appending' /\ pc # "down" /\ pc' # "synced"
  BY Zenon, <1>3 DEF Open, Appending
<1>5. pending = <<>> /\ Len(<<>>) = 0
  <2>1. pending = <<>>
    BY ZenonT(60), <1>4 DEF SegmentInv, FileInv
  <2> QED
    BY Zenon, <2>1
<1>6. FileInv'
  <2>1. size' + Len(pending') <= Len(log)
    BY SMT, <1>2, <1>3, <1>5
  <2> QED
    BY ZenonT(60), <1>3, <1>4, <1>5, <2>1 DEF SegmentInv, FileInv
<1>7. AckInv'
  <2>1. ASSUME NEW r \in acked PROVE r.offset < next'
    <3>1. r \in Range(log) /\ r.offset <= Last(log).offset /\ r \in Record
      BY Zenon DEF SegmentInv, AckInv, AckedDurable, TypeOK
    <3>2. PICK i \in 1 .. Len(log) : r = log[i]
      BY ZenonT(60), <1>2, <3>1, RangeOf
    <3>3. Len(log) \in 1 .. Len(log) /\ Len(log) # 0
      BY SMT, <1>2, <3>2
    <3>4. log # <<>> /\ Last(log) \in Record
      BY <1>2, <3>3 DEF Last
    <3>5. next' = Last(log).offset + 1
      BY Zenon, <1>3, <3>4 DEF NextAfter
    <3>6. r.offset \in Nat /\ Last(log).offset \in Nat
      BY Zenon, <3>1, <3>4 DEF Record
    <3> QED
      BY SMTT(60), <3>1, <3>5, <3>6
  <2> QED
    BY Zenon, <1>3, <2>1 DEF SegmentInv, AckInv, AckedDurable, OffsetsNotReused
<1>8. "io" \notin mix' => DenseInv'
  <2> SUFFICES ASSUME "io" \notin mix PROVE DenseInv'
    BY Zenon, <1>3
  <2>1. NextAfter(log) = BaseOffset + Len(log)
    <3>1. CASE log = <<>>
      BY <3>1, BaseIsNat DEF NextAfter
    <3>2. CASE log # <<>>
      <4>1. Len(log) \in DOMAIN log
        BY <1>2, <3>2
      <4>2. Last(log).offset = BaseOffset + Len(log) - 1
        BY Zenon, <4>1 DEF Last, SegmentInv, DenseInv
      <4>3. NextAfter(log) = Last(log).offset + 1
        BY Zenon, <3>2 DEF NextAfter
      <4> QED
        BY SMTT(60), <1>2, <4>2, <4>3, BaseIsNat
    <3> QED
      BY Zenon, <3>1, <3>2
  <2>2. size' + Len(pending') = Len(log') /\ next' = BaseOffset + size'
    BY SMTT(60), <1>2, <1>3, <1>5, <2>1
  <2> QED
    BY ZenonT(60), <1>3, <2>2 DEF SegmentInv, DenseInv, Aligned
<1>9. "power" \in mix' => SyncInv'
  BY ZenonT(60), <1>3, <1>4 DEF SegmentInv, SyncInv
<1>10. "power" \notin mix' => InsideInv'
  BY ZenonT(60), <1>3 DEF SegmentInv, InsideInv, Inside
<1>11. mix' \subseteq {"kill"} => IndexedInv'
  BY ZenonT(60), <1>3, <1>4 DEF SegmentInv, IndexedInv
<1> QED
  BY Zenon, <1>1, <1>6, <1>7, <1>8, <1>9, <1>10, <1>11 DEF SegmentInv

\* A new segment is empty.
LEMMA InitInv == Init => SegmentInv
<1> SUFFICES ASSUME Init PROVE SegmentInv
  OBVIOUS
<1>1. TypeOK
  BY Zenon, InitTypes
<1>2. /\ log = <<>> /\ logDur = <<>> /\ index = <<>> /\ indexTorn = FALSE /\ indexDur = <<>>
      /\ pc = "idle" /\ entries = <<>> /\ size = 0 /\ next = BaseOffset /\ appendMode = TRUE
      /\ pending = <<>> /\ queue = <<>> /\ acked = {}
  BY Zenon DEF Init
<1>3. DOMAIN <<>> = {} /\ Len(<<>>) = 0 /\ Range(<<>>) = {}
  BY DEF Range
<1>4. Open /\ ~Appending /\ pc # "synced"
  BY Zenon, <1>2 DEF Open, Appending
<1>5. 0 <= 0 /\ 0 + 0 = 0 /\ 0 <= MaxRecords /\ BaseOffset = BaseOffset + 0
        /\ (1 .. 0) = {} /\ (1 .. 0 - 1) = {}
  BY SMT, BaseIsNat
<1>6. FileInv
  BY ZenonT(60), <1>2, <1>3, <1>4, <1>5 DEF FileInv
<1>7. AckInv
  BY Zenon, <1>2 DEF AckInv, AckedDurable, OffsetsNotReused
<1>8. DenseInv
  BY Zenon, <1>2, <1>3, <1>5 DEF DenseInv, Aligned
<1>9. SyncInv
  BY Zenon, <1>2, <1>3, <1>4, <1>5 DEF SyncInv, IsPrefix
<1>10. InsideInv
  BY Zenon, <1>2, <1>3 DEF InsideInv, Inside
<1>11. IndexedInv
  BY Zenon, <1>2, <1>3, <1>4, <1>5 DEF IndexedInv
<1> QED
  BY ZenonT(60), <1>1, <1>6, <1>7, <1>8, <1>9, <1>10, <1>11 DEF SegmentInv

\* Nothing changes.
LEMMA StutterInv ==
  ASSUME SegmentInv, UNCHANGED vars
  PROVE  SegmentInv'
<1>1. /\ log' = log /\ logDur' = logDur /\ index' = index /\ indexTorn' = indexTorn
      /\ indexDur' = indexDur /\ pc' = pc /\ entries' = entries /\ size' = size
      /\ next' = next /\ cursor' = cursor /\ appendMode' = appendMode
      /\ pending' = pending /\ queue' = queue /\ acked' = acked /\ mix' = mix
  BY Zenon DEF vars, files, memory
<1>2. (Open' <=> Open) /\ (Appending' <=> Appending)
  BY Zenon, <1>1 DEF Open, Appending
<1>3. TypeOK'
  BY Zenon, NextTypes DEF SegmentInv
<1>4. FileInv'
  BY ZenonT(60), <1>1, <1>2 DEF SegmentInv, FileInv
<1>5. AckInv'
  BY ZenonT(60), <1>1, <1>2 DEF SegmentInv, AckInv, AckedDurable, OffsetsNotReused
<1>6. "io" \notin mix' => DenseInv'
  BY ZenonT(60), <1>1, <1>2 DEF SegmentInv, DenseInv, Aligned
<1>7. "power" \in mix' => SyncInv'
  BY Zenon, <1>1 DEF SegmentInv, SyncInv
<1>8. "power" \notin mix' => InsideInv'
  BY ZenonT(60), <1>1 DEF SegmentInv, InsideInv, Inside
<1>9. mix' \subseteq {"kill"} => IndexedInv'
  BY ZenonT(60), <1>1, <1>2 DEF SegmentInv, IndexedInv
<1> QED
  BY ZenonT(60), <1>3, <1>4, <1>5, <1>6, <1>7, <1>8, <1>9 DEF SegmentInv

\* Every step keeps the invariant.
LEMMA NextInv ==
  ASSUME Tolerated, SegmentInv, [Next]_vars
  PROVE  SegmentInv'
<1>1. CASE UNCHANGED vars
  BY Zenon, <1>1, StutterInv
<1>2. CASE \E o \in BaseOffset .. BaseOffset + MaxRecords : Read(o)
  <2>1. PICK o \in BaseOffset .. BaseOffset + MaxRecords : Read(o)
    BY Zenon, <1>2
  <2>2. o \in Nat
    BY SMT, BaseIsNat
  <2> QED
    BY Zenon, <2>1, <2>2, ReadInv
<1>3. CASE WriteIndex \/ RebuildEntry
  BY Zenon, <1>3, IndexAppendInv DEF WriteIndex, RebuildEntry
<1>4. CASE \E values \in Writes : WriteLog(values) \/ KillInWrite(values)
  BY Zenon, <1>4, WriteLogInv, KillInWriteInv
<1>5. CASE SyncLog \/ Commit \/ IoError \/ Kill \/ PowerLoss \/ Load \/ FinishLoad
  BY ZenonT(60), <1>5, SyncLogInv, CommitInv, IoErrorInv, KillInv, PowerLossInv, LoadInv,
     FinishLoadInv
<1> QED
  BY ZenonT(60), <1>1, <1>2, <1>3, <1>4, <1>5 DEF Next

-----------------------------------------------------------------------------
\* What follows for clients.

\* The invariant holds for every base offset, segment size, batch and number of
\* faults, whenever one read covers the segment and, where the power may fail,
\* append syncs the log and no write fails half-way.
THEOREM SegmentInvariance ==
  ASSUME Tolerated
  PROVE  Spec => []SegmentInv
<1>1. SegmentInv /\ [Next]_vars => SegmentInv'
  BY Zenon, NextInv
<1> QED
  BY <1>1, InitInv, PTL DEF Spec

\* No record whose append returned Ok is lost or overwritten by kills, recoveries
\* that are killed themselves, and power losses, or by kills and failed appends.
THEOREM AckedSurvive ==
  ASSUME Tolerated
  PROVE  Spec => []AckedDurable
<1>1. SegmentInv => AckedDurable
  BY Zenon DEF SegmentInv, AckInv
<1> QED
  BY <1>1, SegmentInvariance, PTL

\* Segment::load never lets append hand out an offset again that a client has.
THEOREM OffsetsStayUnique ==
  ASSUME Tolerated
  PROVE  Spec => []OffsetsNotReused
<1>1. SegmentInv => OffsetsNotReused
  BY Zenon DEF SegmentInv, AckInv
<1> QED
  BY <1>1, SegmentInvariance, PTL

\* The record at the cell an aligned entry points to is the acknowledged one.
LEMMA AlignedReads ==
  ASSUME SegmentInv, "io" \notin mix, NEW r \in acked, NEW p \in Positions(r.offset)
  PROVE  p < Len(log) /\ log[p + 1] = r
<1>1. PICK e \in Range(entries) : p = e.position /\ e.offset = r.offset
  BY Zenon DEF Positions
<1>2. PICK i \in DOMAIN entries : e = entries[i]
  BY Zenon, <1>1 DEF Range
<1>3. log \in Seq(Record) /\ Len(log) \in Nat
  BY ZenonT(60), WholeLog DEF SegmentInv
<1>4. e \in Entry
  BY ZenonT(60), <1>1, RangeIn DEF SegmentInv, TypeOK
<1>5. p \in Nat
  BY Zenon, <1>1, <1>4 DEF Entry
<1>6. r.offset = BaseOffset + p
  BY ZenonT(60), <1>1, <1>2 DEF SegmentInv, DenseInv, Aligned
<1>7. r \in Range(log)
  BY Zenon DEF SegmentInv, AckInv, AckedDurable
<1>8. PICK k \in 1 .. Len(log) : r = log[k]
  BY Zenon, <1>3, <1>7, RangeOf
<1>9. DOMAIN log = 1 .. Len(log)
  BY Zenon, <1>3, LenProperties
<1>10. r.offset = BaseOffset + k - 1
  BY ZenonT(60), <1>8, <1>9 DEF SegmentInv, DenseInv
<1>11. k = p + 1 /\ p < Len(log)
  BY SMTT(60), <1>3, <1>5, <1>6, <1>8, <1>10, BaseIsNat
<1> QED
  BY Zenon, <1>8, <1>11

\* An index that a power loss left behind or ahead of the log never makes read
\* return another record for an acknowledged offset.
THEOREM ReadsAreNotForeign ==
  ASSUME Tolerated
  PROVE  Spec => []NoForeignReads
<1>1. SegmentInv => NoForeignReads
  BY Zenon, AlignedReads DEF NoForeignReads
<1> QED
  BY <1>1, SegmentInvariance, PTL

\* Where no append fails half-way, current_size is the length of the log file
\* and the next record is written where the index will say it is.
THEOREM SizesAgree ==
  ASSUME Tolerated, \A m \in Faults : "io" \notin m
  PROVE  Spec => []SizeIsFileLength
<1>1. SegmentInv => SizeIsFileLength
  <2> SUFFICES ASSUME SegmentInv, pc = "idle" PROVE size = Len(log) /\ WritePosition = Len(log)
    BY Zenon DEF SizeIsFileLength
  <2>1. "io" \notin mix
    BY Zenon DEF SegmentInv, TypeOK
  <2> QED
    BY Zenon, <2>1, IdleFacts
<1> QED
  BY <1>1, SegmentInvariance, PTL

\* If processes are only killed, then at every sync_level the index file is in
\* ascending order and each entry points at its record, even right after a kill.
THEOREM IndexIsSound ==
  ASSUME MaxRecords <= ReadCells, Faults \subseteq SUBSET {"kill"}
  PROVE  Spec => []IndexSound
<1>1. Tolerated /\ \A m \in Faults : "io" \notin m /\ "power" \notin m
  BY Zenon, "io" \notin {"kill"}, "power" \notin {"kill"} DEF Tolerated
<1>2. SegmentInv => IndexSound
  <2> SUFFICES ASSUME SegmentInv PROVE IndexSound
    OBVIOUS
  <2>1. mix \in Faults
    BY ZenonT(60) DEF SegmentInv, TypeOK
  <2>2. IndexedInv /\ DenseInv /\ InsideInv
    BY ZenonT(60), <1>1, <2>1 DEF SegmentInv
  <2>3. index \in Seq(Entry) /\ log \in Seq(Record) /\ Len(log) \in Nat
    BY ZenonT(60), WholeLog DEF SegmentInv, TypeOK
  <2>4. Len(index) \in Nat /\ DOMAIN index = 1 .. Len(index) /\ DOMAIN log = 1 .. Len(log)
    BY Zenon, <2>3, LenProperties
  <2>5. \A i \in 1 .. Len(index) :
          /\ index[i].position \in Nat /\ index[i].offset = BaseOffset + index[i].position
          /\ index[i].position < Len(log)
    <3>1. \A i \in 1 .. Len(index) : index[i] \in Entry
      BY Zenon, <2>3, ElementOfSeq
    <3>2. \A i \in 1 .. Len(index) : index[i].position \in Nat
      BY Zenon, <3>1 DEF Entry
    <3> QED
      BY Zenon, <2>2, <2>4, <3>2 DEF DenseInv, Aligned, InsideInv, Inside
  <2>6. ASSUME NEW i \in DOMAIN index
        PROVE  log[index[i].position + 1] \in [offset : {index[i].offset}, value : Value]
    <3> DEFINE p == index[i].position
    <3>1. p \in Nat /\ p < Len(log) /\ index[i].offset = BaseOffset + p
      BY ZenonT(60), <2>4, <2>5
    <3> HIDE DEF p
    <3>2. p + 1 \in 1 .. Len(log) /\ BaseOffset + (p + 1) - 1 = BaseOffset + p
      BY SMTT(60), <2>3, <3>1, BaseIsNat
    <3>3. log[p + 1] \in Record /\ log[p + 1].offset = BaseOffset + (p + 1) - 1
      BY ZenonT(60), <2>2, <2>3, <2>4, <3>2, ElementOfSeq DEF DenseInv
    <3>4. log[p + 1].offset = index[i].offset
      BY ZenonT(60), <3>1, <3>2, <3>3
    <3>5. log[p + 1] \in [offset : {index[i].offset}, value : Value]
      BY Zenon, <3>3, <3>4 DEF Record
    <3> QED
      BY Zenon, <3>5 DEF p
  <2>7. ASSUME NEW i \in 1 .. Len(index) - 1 PROVE index[i].offset < index[i + 1].offset
    <3>1. i \in 1 .. Len(index) /\ i + 1 \in 1 .. Len(index)
      BY SMT, <2>4
    <3>2. index[i].position < index[i + 1].position
      BY Zenon, <2>2 DEF IndexedInv
    <3>3. /\ index[i].position \in Nat /\ index[i].offset = BaseOffset + index[i].position
          /\ index[i + 1].position \in Nat
          /\ index[i + 1].offset = BaseOffset + index[i + 1].position
      BY Zenon, <2>5, <3>1
    <3> QED
      BY SMTT(60), <3>2, <3>3, BaseIsNat
  <2> QED
    BY ZenonT(60), <2>4, <2>5, <2>6, <2>7 DEF IndexSound
<1> QED
  BY <1>1, <1>2, SegmentInvariance, PTL

\* If processes are only killed, then at every sync_level reading the offset of
\* an acknowledged record returns it.
THEOREM AckedStayReadable ==
  ASSUME MaxRecords <= ReadCells, Faults \subseteq SUBSET {"kill"}
  PROVE  Spec => []AckedReadable
<1>1. Tolerated /\ \A m \in Faults : "io" \notin m
  BY Zenon, "io" \notin {"kill"}, "power" \notin {"kill"} DEF Tolerated
<1>2. SegmentInv => AckedReadable
  <2> SUFFICES ASSUME SegmentInv, pc = "idle", NEW r \in acked
               PROVE  /\ Positions(r.offset) # {}
                      /\ \A p \in Positions(r.offset) : p < Len(log) /\ log[p + 1] = r
    BY ZenonT(60) DEF AckedReadable
  <2>1. mix \in Faults /\ "io" \notin mix
    BY ZenonT(60), <1>1 DEF SegmentInv, TypeOK
  <2>2. IndexedInv
    BY Zenon, <2>1 DEF SegmentInv
  <2>3. entries = index /\ \E i \in DOMAIN index : index[i].offset = r.offset
    BY Zenon, <2>2 DEF IndexedInv
  <2>4. PICK i \in DOMAIN entries : entries[i].offset = r.offset
    BY Zenon, <2>3
  <2>5. entries[i].position \in Positions(r.offset)
    BY Zenon, <2>4 DEF Positions, Range
  <2> QED
    BY ZenonT(60), <2>1, <2>5, AlignedReads
<1> QED
  BY <1>1, <1>2, SegmentInvariance, PTL

-----------------------------------------------------------------------------
\* What a step may never do to acknowledged records.

\* The log grows at its end, or does not change, and nothing is acknowledged.
LEMMA GrowthKeeps ==
  ASSUME SegmentInv, acked' = acked, log' \in Seq(Record), Len(log) <= Len(log'),
         \A i \in 1 .. Len(log) : log'[i] = log[i]
  PROVE  KeepsAcked
<1>1. log \in Seq(Record) /\ Len(log) \in Nat
  BY Zenon, WholeLog DEF SegmentInv
<1>2. DOMAIN log = 1 .. Len(log) /\ DOMAIN log' = 1 .. Len(log') /\ Len(log') \in Nat
  BY ZenonT(60), <1>1, LenProperties
<1>3. \A i \in DOMAIN log : i \in DOMAIN log'
  BY SMT, <1>1, <1>2
<1> QED
  BY Zenon, <1>2, <1>3 DEF KeepsAcked

\* The same of a step that leaves the log alone.
LEMMA SameLogKeeps ==
  ASSUME acked' = acked, log' = log
  PROVE  KeepsAcked
  BY Zenon DEF KeepsAcked

\* An append returns Ok: its records are the newest.
LEMMA CommitKeeps ==
  ASSUME SegmentInv, Commit
  PROVE  KeepsAcked
<1>1. pc = "synced" /\ acked' = acked \cup Range(pending) /\ log' = log
  BY Zenon DEF Commit
<1>2. Open /\ Appending
  BY ZenonT(60), <1>1 DEF Open, Appending
<1>3. pending \in Seq(Record) /\ next \in Nat /\ acked \subseteq Record
  BY Zenon DEF SegmentInv, TypeOK
<1>4. DOMAIN pending = 1 .. Len(pending) /\ Len(pending) \in Nat
  BY Zenon, <1>3, LenProperties
<1>5. ASSUME NEW r \in acked' \ acked, NEW s \in acked PROVE s.offset < r.offset
  <2>1. PICK j \in 1 .. Len(pending) : r = pending[j]
    BY ZenonT(60), <1>1, <1>3, <1>5, RangeOf
  <2>2. r.offset = next + j - 1
    BY ZenonT(60), <1>2, <1>4, <2>1 DEF SegmentInv, FileInv
  <2>3. s.offset < next
    BY ZenonT(60), <1>2, <1>5 DEF SegmentInv, AckInv
  <2>4. s.offset \in Nat
    BY ZenonT(60), <1>3, <1>5 DEF Record
  <2> QED
    BY SMTT(60), <1>3, <1>4, <2>2, <2>3, <2>4
<1> QED
  BY Zenon, <1>1, <1>5 DEF KeepsAcked

\* A power loss: the acknowledged records are in the part that was synced.
LEMMA PowerLossKeeps ==
  ASSUME SegmentInv, Tolerated, PowerLoss
  PROVE  KeepsAcked
<1>1. /\ Down /\ "power" \in mix /\ log' \in Survivors(log, logDur)
  BY Zenon DEF PowerLoss
<1>2. acked' = acked
  BY ZenonT(60), <1>1 DEF Down
<1>3. "io" \notin mix
  BY ZenonT(60), <1>1 DEF Tolerated, SegmentInv, TypeOK
<1>4. DenseInv /\ SyncInv
  BY Zenon, <1>1, <1>3 DEF SegmentInv
<1>5. log \in Seq(Record) /\ Len(log) \in Nat
  BY ZenonT(60), WholeLog DEF SegmentInv
<1>6. logDur \in Seq(Cell) /\ log \in Seq(Cell)
  BY Zenon DEF SegmentInv, TypeOK, Cell
<1>7. log' \in Seq(Cell) /\ IsPrefix(log', log) /\ IsPrefix(logDur, log')
  BY Zenon, <1>1, <1>4, <1>6, SurvivorBetween DEF SyncInv
<1>8. /\ DOMAIN log = 1 .. Len(log) /\ DOMAIN log' = 1 .. Len(log')
      /\ Len(logDur) \in Nat /\ Len(log') \in Nat
  BY ZenonT(60), <1>5, <1>6, <1>7, LenProperties
<1>9. \A i \in 1 .. Len(log') : i \in 1 .. Len(log) /\ log'[i] = log[i]
  BY Zenon, <1>6, <1>7, PrefixRange
<1>10. \A i \in 1 .. Len(logDur) : i \in 1 .. Len(log') /\ logDur[i] = log'[i]
  BY Zenon, <1>6, <1>7, PrefixRange
<1>11. ASSUME NEW i \in DOMAIN log, log[i] \in acked PROVE i \in DOMAIN log' /\ log'[i] = log[i]
  <2>1. log[i] \in Range(logDur)
    BY Zenon, <1>4, <1>11 DEF SyncInv
  <2>2. PICK j \in 1 .. Len(logDur) : log[i] = logDur[j]
    BY ZenonT(60), <1>6, <2>1, RangeOf
  <2>3. j \in 1 .. Len(log') /\ j \in 1 .. Len(log) /\ log[i] = log[j]
    BY ZenonT(60), <1>9, <1>10, <2>2
  <2>4. log[i].offset = BaseOffset + i - 1 /\ log[j].offset = BaseOffset + j - 1
    BY ZenonT(60), <1>4, <1>8, <1>11, <2>3 DEF DenseInv
  <2>5. i = j
    <3>1. BaseOffset + i - 1 = BaseOffset + j - 1 /\ i \in 1 .. Len(log)
      BY Zenon, <1>8, <1>11, <2>3, <2>4
    <3> QED
      BY SMTT(60), <1>5, <2>3, <3>1, BaseIsNat
  <2> QED
    BY ZenonT(60), <1>8, <1>9, <2>3, <2>5
<1> QED
  BY Zenon, <1>2, <1>11 DEF KeepsAcked

\* write_all, whole or cut short by a kill, writes behind the acknowledged records.
LEMMA WriteKeeps ==
  ASSUME SegmentInv, NEW values \in Writes, WriteLog(values) \/ KillInWrite(values)
  PROVE  KeepsAcked
<1>1. values \in Seq(Value) /\ Len(values) \in Nat
  <2>1. values \in Seq(Value)
    BY Zenon, SegmentAssumption DEF SegmentAssumption
  <2> QED
    BY <2>1
<1>2. pc = "idle" /\ acked' = acked
  BY Zenon DEF WriteLog, KillInWrite, Down
<1>3. \E n \in 0 .. Len(values) : log' = log \o SubSeq(Numbered(values), 1, n)
  <2>1. CASE WriteLog(values)
    <3>1. log' = Overlay(log, WritePosition, Numbered(values))
      BY Zenon, <2>1 DEF WriteLog
    <3>2. WritePosition = Len(log) /\ next \in Nat
      BY ZenonT(60), <1>2, IdleFacts
    <3>3. log \in Seq(Cell)
      BY ZenonT(60) DEF SegmentInv, TypeOK, Cell
    <3>4. Numbered(values) \in Seq(Record) /\ Len(Numbered(values)) = Len(values)
      BY ZenonT(60), <1>1, <3>2, NumberedRecords
    <3>5. log' = log \o Numbered(values)
      BY ZenonT(60), <3>1, <3>2, <3>3, <3>4, OverlayAtEnd
    <3>6. SubSeq(Numbered(values), 1, Len(values)) = Numbered(values)
      BY Zenon, <3>4, SubSeqFull
    <3>7. Len(values) \in 0 .. Len(values)
      BY SMT, <1>1
    <3> QED
      BY Zenon, <3>5, <3>6, <3>7
  <2>2. CASE KillInWrite(values)
    <3>1. PICK n \in 0 .. Len(values) - 1 : log' = log \o SubSeq(Numbered(values), 1, n)
      BY Zenon, <2>2 DEF KillInWrite
    <3>2. n \in 0 .. Len(values)
      BY SMT, <1>1, <3>1
    <3> QED
      BY Zenon, <3>1, <3>2
  <2> QED
    BY Zenon, <2>1, <2>2
<1>4. PICK n \in 0 .. Len(values) : log' = log \o SubSeq(Numbered(values), 1, n)
  BY Zenon, <1>3
<1>5. /\ Len(log) \in Nat /\ log' \in Seq(Record) /\ Len(log') = Len(log) + n
      /\ \A i \in 1 .. Len(log) : log'[i] = log[i]
  BY ZenonT(60), <1>2, <1>4, LogGrows
<1>6. Len(log) <= Len(log')
  BY SMT, <1>1, <1>4, <1>5
<1> QED
  BY ZenonT(60), <1>2, <1>5, <1>6, GrowthKeeps

\* Appends are acknowledged in the order of their offsets, and no kill, power
\* loss, failed append or recovery (Segment::load) takes an acknowledgement back
\* or moves the record in the log file.
THEOREM AckedNeverMove ==
  ASSUME Tolerated
  PROVE  Spec => AckedStayPut
<1>1. SegmentInv /\ [Next]_vars => [KeepsAcked]_vars
  <2> SUFFICES ASSUME SegmentInv, Next PROVE KeepsAcked
    BY Zenon
  <2>1. CASE \E values \in Writes : WriteLog(values) \/ KillInWrite(values)
    BY Zenon, <2>1, WriteKeeps
  <2>2. CASE Commit
    BY Zenon, <2>2, CommitKeeps
  <2>3. CASE PowerLoss
    BY Zenon, <2>3, PowerLossKeeps
  <2>4. CASE FinishLoad
    <3>1. Decoded = log
      BY Zenon, WholeLog DEF SegmentInv
    <3> QED
      BY Zenon, <2>4, <3>1, SameLogKeeps DEF FinishLoad
  <2>5. CASE SyncLog \/ WriteIndex \/ IoError \/ Kill \/ Load \/ RebuildEntry
    <3>1. acked' = acked /\ log' = log
      BY ZenonT(60), <2>5 DEF SyncLog, WriteIndex, IoError, Kill, Down, Load, RebuildEntry,
         IndexAppend, files
    <3> QED
      BY Zenon, <3>1, SameLogKeeps
  <2>6. CASE \E o \in BaseOffset .. BaseOffset + MaxRecords : Read(o)
    <3>1. acked' = acked /\ log' = log
      BY Zenon, <2>6 DEF Read, files
    <3> QED
      BY Zenon, <3>1, SameLogKeeps
  <2> QED
    BY ZenonT(60), <2>1, <2>2, <2>3, <2>4, <2>5, <2>6 DEF Next
<1> QED
  BY <1>1, SegmentInvariance, PTL DEF Spec, AckedStayPut
=============================================================================
