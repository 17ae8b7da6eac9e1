---------------------------- MODULE MCSegmentFile ----------------------------
(***************************************************************************)
(* Values for model checking SegmentFile: appends of one record, and of two *)
(* in a batch.                                                              *)
(***************************************************************************)
EXTENDS SegmentFile

CONSTANTS a, b

MCValue == {a, b}

\* Kills and power losses, or kills and I/O errors.
MCMixes == {{"kill", "power"}, {"kill", "io"}}

MCWrites == {<<a>>, <<b>>, <<a, b>>}
=============================================================================
