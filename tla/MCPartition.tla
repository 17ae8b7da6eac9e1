----------------------------- MODULE MCPartition -----------------------------
(***************************************************************************)
(* Values for model checking Partition.  In segments of 100 bytes, records  *)
(* with values of 2, 22 and 73 bytes are 30, 50 and 101 bytes long: three   *)
(* of the first kind leave 10 bytes unused, two of the second fill a file   *)
(* to the last byte, one of the third is one byte too large for any file.   *)
(***************************************************************************)
EXTENDS Partition, SequencesExt

CONSTANTS small, half, huge

MCBlob == {small, half, huge}

MCBlobLen == (small :> 2) @@ (half :> 22) @@ (huge :> 73)

\* A record of 28 bytes with no key and no value is legal.
MCMessages == {<<None, None>>, <<small, half>>, <<half, huge>>}

\* All batches of up to two, and longer ones that fill segments exactly, leave
\* bytes unused, or end in a payload too large after a segment was filled.
MCBatches ==
  BoundedSeq(MCBlob, 2) \cup
  {<<half, half, half>>, <<half, half, huge>>, <<half, small, half>>,
   <<small, half, half, half>>, <<small, small, small, small>>}

\* Nothing, a small record exactly, one byte short of two records of different
\* size, and more than a segment.
MCBudgets == {0, 30, 79, 130}
=============================================================================
