----------------------------- MODULE MCCfbFile ------------------------------
(***************************************************************************)
(* Scaled-down files: a sector of 8 units with 4 mini sectors and 16       *)
(* words, a header with one DIFAT slot, a cutoff of two sectors.  The      *)
(* package sizes go through every size up to the cutoff and around the     *)
(* sector boundaries after it, and on to files with one and two DIFAT      *)
(* sectors and one whose DIFAT fits exactly.  Only the cutoff itself is    *)
(* left out: a package is 8 bytes longer than a multiple of 16 (module     *)
(* PackageCodec), so no document makes one of exactly 4096 bytes.          *)
(***************************************************************************)
EXTENDS CfbFile

MCFixedSizes ==
    [s \in {"Version", "DataSpaceMap", "StrongEncryptionDataSpace", "~Primary"} |->
        CASE s = "Version" -> 3
          [] s = "DataSpaceMap" -> 4
          [] s = "StrongEncryptionDataSpace" -> 2
          [] s = "~Primary" -> 5]

SmallPackages == 1 .. 15
LargePackages == (17 .. 34) \cup {56, 57, 58, 64, 65, 200, 1000}
ExactPackages == {1768}
HugePackages == {2000}
AboveCutoff == LargePackages \cup ExactPackages \cup HugePackages
AllPackages == SmallPackages \cup AboveCutoff
=============================================================================
