--------------------------- MODULE MCSegmentStore ---------------------------
(***************************************************************************)
(* SegmentStore for TLC.  Keys and values are interchangeable: the         *)
(* specification never orders or chooses among them.                       *)
(***************************************************************************)
EXTENDS SegmentStore, TLC

Interchangeable == Permutations(Keys) \cup Permutations(Values)
=============================================================================
