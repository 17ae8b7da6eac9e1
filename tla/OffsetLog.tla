------------------------------ MODULE OffsetLog ------------------------------
(***************************************************************************)
(* What a partition promises its clients, with segments, index files and    *)
(* bytes left out: a set of records that only grows, in which every offset  *)
(* below `next' names exactly one record.                                   *)
(*                                                                          *)
(* The paragraph at the head of src/src/storage/partition.rs ("All writes   *)
(* go to the active (newest) segment") and the comments of                  *)
(* src/src/protocol/response.rs ("The committed offset assigned to the      *)
(* message", "The base committed offset assigned to the first message in    *)
(* the batch") are this contract; module Partition implements it.           *)
(***************************************************************************)
EXTENDS Integers

VARIABLES stored,     \* the records of the log; r.offset is the offset of r
          next        \* the offset the next record will get

vars == <<stored, next>>

Init == /\ stored = {}
        /\ next = 0

\* The records written by a step: those of stored' that stored lacks.
Written == stored' \ stored

(***************************************************************************)
(* One write of one or several records: they get the offsets from `next'    *)
(* on, one each and without holes, and nothing already stored changes.      *)
(***************************************************************************)
Write ==
  /\ next' > next
  /\ stored \subseteq stored'
  /\ {r.offset : r \in Written} = next .. next' - 1
  /\ \A r, s \in Written : r.offset = s.offset => r = s

Spec == Init /\ [][Write]_vars
=============================================================================
