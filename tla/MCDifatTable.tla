---------------------------- MODULE MCDifatTable ----------------------------
(***************************************************************************)
(* In a geometry of two slots and four words a sector, every F up to 20:   *)
(* no DIFAT, one that is partly filled, one that is full, several chained. *)
(***************************************************************************)
EXTENDS DifatTable

SmallFatCounts == 1 .. 20
=============================================================================
