---------------------------- MODULE MCFatChains -----------------------------
(***************************************************************************)
(* Every table of four sectors over the sectors, the four markers and a    *)
(* word that is neither: cycles, joins, self links and back links included.*)
(***************************************************************************)
EXTENDS FatChains

Words == Sectors \cup Markers \cup {NumSectors}
AllFats == [Sectors -> Words]
=============================================================================
