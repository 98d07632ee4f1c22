---------------------------- MODULE CfbGeometry -----------------------------
(***************************************************************************)
(* The geometry of a compound file and the two mutually dependent counts   *)
(* derived from it (one round of detectSectorNum,                          *)
(* include/make_dataspace.hpp).                                            *)
(***************************************************************************)
EXTENDS CfbWords

CONSTANTS
    EntriesPerSector,   \* sectorSize / 4: 128 in a version 3 file
    HeaderSlots         \* Header::firstNumDIFAT: 109

ASSUME EntriesAssumption == EntriesPerSector \in Nat /\ EntriesPerSector >= 2
ASSUME SlotsAssumption == HeaderSlots \in Nat

\* Mutations: rounding up one too far; the FAT's own sectors not counted; a
\* DIFAT's link word counted as a slot.
FatForRoundsTooFar(d, f, m) == (d + f + m + EntriesPerSector) \div EntriesPerSector
FatForForgetsItself(d, f, m) == BlockNum(d + m, EntriesPerSector)
DifatForNoLink(f) ==
    IF f <= HeaderSlots THEN 0 ELSE BlockNum(f - HeaderSlots, EntriesPerSector)

\* One round: the FAT for d + f + m sectors, then the DIFAT for that FAT.
FatFor(d, f, m) == BlockNum(d + f + m, EntriesPerSector)
DifatFor(f) ==
    IF f <= HeaderSlots THEN 0 ELSE BlockNum(f - HeaderSlots, EntriesPerSector - 1)
=============================================================================
