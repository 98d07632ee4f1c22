----------------------------- MODULE SectorNum ------------------------------
(***************************************************************************)
(* detectSectorNum (include/make_dataspace.hpp): how many FAT sectors F    *)
(* and DIFAT sectors D the writer reserves for n content sectors.          *)
(*                                                                         *)
(* The FAT must describe every sector of the file, itself and the DIFAT    *)
(* included, and the DIFAT must list every FAT sector the header has no    *)
(* slot for, so the two counts feed each other: the code recomputes both   *)
(* from the previous pair until a round changes nothing.  After ten rounds *)
(* it builds a cybozu::Exception and drops it (there is no throw), so only *)
(* the fixpoint ends the loop; that there always is one, within ten        *)
(* rounds, is what this module is about.                                   *)
(***************************************************************************)
EXTENDS CfbGeometry

CONSTANT ContentCounts      \* the values of n that are tried
ASSUME ContentAssumption == ContentCounts \subseteq Nat

VARIABLES
    n,                  \* content sectors: mini FAT, directory, data
    difatNum,           \* difatSectorNum: D of the previous round
    fatNum,             \* fatSectorNum: F of the previous round
    count,              \* rounds that changed the pair; the code only compares
                        \* it with MaxLoop, where it saturates here
    returned            \* the loop has returned

counts == <<n, difatNum, fatNum, count, returned>>

\* make_dataspace.hpp:174 takes ten rounds for impossible; nothing enforces it.
MaxLoop == 10

\* Mutation: the test for the fixpoint compares the counts crosswise.
UnchangedCrosswise(b, a) == b = fatNum /\ a = difatNum

\* The round changed nothing.
Unchanged(b, a) == b = difatNum /\ a = fatNum

CountsInit ==
    /\ n \in ContentCounts
    /\ difatNum = 0
    /\ fatNum = 0
    /\ count = 0
    /\ returned = FALSE

Round ==
    LET a == FatFor(difatNum, fatNum, n)
        b == DifatFor(a)
    IN  /\ ~returned
        /\ \/ /\ Unchanged(b, a)
              /\ returned' = TRUE
              /\ UNCHANGED <<difatNum, fatNum, count>>
           \/ /\ ~Unchanged(b, a)
              /\ difatNum' = b
              /\ fatNum' = a
              /\ count' = IF count < MaxLoop THEN count + 1 ELSE count
              /\ UNCHANGED returned
        /\ UNCHANGED n

CountsSpec == CountsInit /\ [][Round]_counts
FairSpec == CountsSpec /\ WF_counts(Round)       \* a sequential loop: it keeps running
-----------------------------------------------------------------------------
CountsTypeOK ==
    /\ n \in ContentCounts
    /\ difatNum \in Nat
    /\ fatNum \in Nat
    /\ count \in 0 .. MaxLoop
    /\ returned \in BOOLEAN

(* A pair (d, f) is adequate for m content sectors when the f FAT sectors   *)
(* have an entry for every sector of the file and the header slots and the *)
(* d DIFAT sectors (one word of each is the link to the next) list all f.  *)
Adequate(d, f, m) ==
    /\ d + f + m <= f * EntriesPerSector
    /\ f <= HeaderSlots + d * (EntriesPerSector - 1)

\* detectSectorNum returns an adequate pair: makeFat never runs past the
\* reserved FAT sectors and makeDifat can name each of them.
ResultAdequate == returned => Adequate(difatNum, fatNum, n)

\* No round ever overshoots: every adequate pair is at least the pair held,
\* so what is returned wastes no sector, although F and D depend on each other.
\* (DifatFor(f) is the least d that f may be paired with.)
NeverOvershoots ==
    \A f \in 0 .. fatNum :
        Adequate(DifatFor(f), f, n) => difatNum <= DifatFor(f) /\ fatNum <= f

\* Both counts only grow, although D is recomputed from the new F and F from
\* the old pair: the loop cannot cycle between two pairs.
CountsGrow ==
    [][difatNum' >= difatNum /\ fatNum' >= fatNum]_counts

\* The loop returns, and before the round at which the code has its guard: an
\* exception "max loop" that is built and not thrown, so that nothing else would
\* end a loop that does not settle (make_dataspace.hpp:174).
Terminates == <>(returned /\ count < MaxLoop)
=============================================================================
