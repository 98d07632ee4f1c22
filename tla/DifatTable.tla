----------------------------- MODULE DifatTable -----------------------------
(***************************************************************************)
(* The DIFAT: the list of the FAT's sectors, written by makeLayout and     *)
(* makeDifat (include/make_dataspace.hpp) and read back by Header::analyze *)
(* and addExtraDifat (include/cfb.hpp).                                    *)
(*                                                                         *)
(* The file starts with the D DIFAT sectors, then the F FAT sectors.  The  *)
(* header lists the first HeaderSlots of them; every DIFAT sector lists    *)
(* EntriesPerSector - 1 more, its last word linking to the next.  Both     *)
(* sides are modelled word by word: what the reader follows is what the    *)
(* writer's loop left on disk, and where that link leads into the FAT, the *)
(* words of the FAT.                                                       *)
(***************************************************************************)
EXTENDS CfbGeometry, Sequences

CONSTANT FatCounts      \* the values of F that are tried
ASSUME FatCountsAssumption == FatCounts \subseteq Nat \ {0}

VARIABLES
    fatSectorNum,       \* F, and numFatSectors of the header
    disk,               \* the words of the DIFAT sectors
    i, j, v,            \* makeDifat: sector, word in it, next FAT sector
    pos, k,             \* addExtraDifat: sector, word in it
    difat,              \* what the reader has collected
    pc

vars == <<fatSectorNum, disk, i, j, v, pos, k, difat, pc>>

difatSectorNum == DifatFor(fatSectorNum)
LinkWord == EntriesPerSector - 1
DifatWords == (0 .. difatSectorNum - 1) \X (0 .. LinkWord)

\* data.resize zero-fills; makeDifat is only called when there is a DIFAT.
Init ==
    /\ fatSectorNum \in FatCounts
    /\ disk = [p \in DifatWords |-> 0]
    /\ i = 0 /\ j = 0
    /\ v = HeaderSlots + difatSectorNum
    /\ pos = 0 /\ k = 0
    /\ difat = <<>>
    /\ pc = IF difatSectorNum > 0 THEN "entries" ELSE "header"
-----------------------------------------------------------------------------
(* makeDifat *)

\* The test that ends the list.  It lets the entry F + D, one past the last
\* FAT sector, be written; FillRest starts on that word and overwrites it.
PastTheList(w) == w > difatSectorNum + fatSectorNum

\* A word of the list; j stays on it when it was the last.
WriteEntry ==
    /\ pc = "entries"
    /\ disk' = [disk EXCEPT ![<<i, j>>] = v]
    /\ v' = v + 1
    /\ \/ /\ PastTheList(v + 1)
          /\ pc' = "fill"
          /\ UNCHANGED j
       \/ /\ ~PastTheList(v + 1)
          /\ pc' = IF j + 1 < LinkWord THEN "entries" ELSE "link"
          /\ j' = j + 1
    /\ UNCHANGED <<fatSectorNum, i, pos, k, difat>>

\* The rest of the last sector, and the end of the DIFAT chain.
FillRest ==
    /\ pc = "fill"
    /\ disk' = [p \in DifatWords |->
                   IF p = <<i, LinkWord>> THEN ENDOFCHAIN
                   ELSE IF p[1] = i /\ p[2] >= j THEN FREESECT ELSE disk[p]]
    /\ pc' = "header"
    /\ UNCHANGED <<fatSectorNum, i, j, v, pos, k, difat>>

\* Mutation: a sector's link leads to the sector itself.
NextDifatStays(s) == s

NextDifat(s) == s + 1

\* A full sector: link to the next one, whether or not there is one.
WriteLink ==
    /\ pc = "link"
    /\ disk' = [disk EXCEPT ![<<i, LinkWord>>] = NextDifat(i)]
    /\ i' = i + 1
    /\ j' = 0
    /\ pc' = IF i + 1 < difatSectorNum THEN "entries" ELSE "header"
    /\ UNCHANGED <<fatSectorNum, v, pos, k, difat>>
-----------------------------------------------------------------------------
(* Header::analyze, addExtraDifat *)

\* Word w of the FAT, for the sectors of the two tables (makeFat's markers).
TableFatWord(w) == IF w < difatSectorNum THEN DIFSECT ELSE FATSECT

\* Word x of sector s, where s is a DIFAT sector or lies in the part of the
\* FAT that describes the tables; the reader never gets further (a word the
\* model does not define would stop it, which TLC reports as a deadlock).
Readable(s, x) ==
    s < difatSectorNum \/ (s - difatSectorNum) * EntriesPerSector + x < difatSectorNum + fatSectorNum
WordAt(s, x) ==
    IF s < difatSectorNum THEN disk[<<s, x>>]
    ELSE TableFatWord((s - difatSectorNum) * EntriesPerSector + x)

InHeader(f) == IF f < HeaderSlots THEN f ELSE HeaderSlots

\* makeLayout fills the header's slots, addDifat takes those that are filled.
ReadHeader ==
    /\ pc = "header"
    /\ difat' = [x \in 1 .. InHeader(fatSectorNum) |-> difatSectorNum + x - 1]
    /\ pc' = IF difatSectorNum > 0 THEN "words" ELSE "ok"
    /\ UNCHANGED <<fatSectorNum, disk, i, j, v, pos, k>>

ReadWord ==
    /\ pc = "words"
    /\ Readable(pos, k)
    /\ LET w == WordAt(pos, k)
       IN  /\ difat' = IF w = FREESECT THEN difat ELSE Append(difat, w)
           /\ k' = k + 1
           /\ pc' = IF k' < LinkWord THEN "words" ELSE "next"
    /\ UNCHANGED <<fatSectorNum, disk, i, j, v, pos>>

\* The link: the end (the count is checked), a word no sector has (a marker
\* times the sector size lies past any file), or the next sector.
ReadLink ==
    /\ pc = "next"
    /\ Readable(pos, LinkWord)
    /\ LET w == WordAt(pos, LinkWord)
       IN  \/ /\ w = ENDOFCHAIN
              /\ pc' = IF Len(difat) = fatSectorNum THEN "ok" ELSE "throw"
              /\ UNCHANGED <<pos, k>>
           \/ /\ w # ENDOFCHAIN /\ w < 0
              /\ pc' = "throw"
              /\ UNCHANGED <<pos, k>>
           \/ /\ w >= 0
              /\ pos' = w
              /\ k' = 0
              /\ pc' = "words"
    /\ UNCHANGED <<fatSectorNum, disk, i, j, v, difat>>

Stop == pc \in {"ok", "throw"} /\ UNCHANGED vars

Next == WriteEntry \/ FillRest \/ WriteLink \/ ReadHeader \/ ReadWord \/ ReadLink \/ Stop
Spec == Init /\ [][Next]_vars
-----------------------------------------------------------------------------
\* What the reader should end up with: every FAT sector, in file order.
FatSectors == [x \in 1 .. fatSectorNum |-> difatSectorNum + x - 1]

\* The FAT sectors beyond the header fill the DIFAT sectors to the last word.
ExactFit ==
    /\ difatSectorNum > 0
    /\ fatSectorNum - HeaderSlots = difatSectorNum * LinkWord

\* The words the reader has passed in the header and the DIFAT sectors.
WordsRead == InHeader(fatSectorNum) + (pos * LinkWord) + k

\* The reader accepts no list other than the FAT's sectors in order: with one
\* missing, doubled or out of place every chain of the file is garbage.  It
\* refuses a file of this writer only when the DIFAT fits exactly.  And though
\* it has no protection against a DIFAT that comes back to a sector it has read,
\* the links of this writer's files lead it on from sector to sector, each read
\* once, until the list is complete.
DifatReadBack ==
    /\ pc = "ok" => difat = FatSectors
    /\ pc = "throw" => ExactFit
    /\ pc \in {"words", "next"} /\ ~ExactFit =>
         /\ pos < difatSectorNum
         /\ difat = SubSeq(FatSectors, 1, IF WordsRead < fatSectorNum THEN WordsRead ELSE fatSectorNum)
=============================================================================
