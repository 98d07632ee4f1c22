---------------------------- MODULE MCSectorNum -----------------------------
(***************************************************************************)
(* The real geometry (128 entries, 109 header slots), with n around the    *)
(* multiples of 127 at which a further FAT sector is needed, around those  *)
(* at which a further DIFAT sector is, and at the sectors of files up to   *)
(* 4 GB.                                                                   *)
(***************************************************************************)
EXTENDS SectorNum

Around(S) == UNION {s - 2 .. s + 2 : s \in S}

RealContentCounts ==
    Around({127 * k : k \in 1 .. 480})             \* F up to 480: D = 0 .. 3
        \cup Around({127 * 127 * k : k \in {4, 5, 6, 7, 50, 100}})
        \cup {127 * 127 * 520, 2 ^ 16, 2 ^ 20, 2 ^ 22, 2 ^ 23 - 2 ^ 17}
=============================================================================
