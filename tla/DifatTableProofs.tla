-------------------------- MODULE DifatTableProofs --------------------------
(***************************************************************************)
(* The DIFAT for every number of FAT sectors and every geometry: what the  *)
(* reader accepts is the list of the FAT's sectors, and it refuses nothing *)
(* but an exactly full DIFAT.  And the counts it begins with: what         *)
(* detectSectorNum (module SectorNum) returns, for every n.                *)
(*                                                                         *)
(* Both loops count words by sector and place; the list counts them        *)
(* through.  Row(s) is where sector s begins in that count, and all that   *)
(* is used of the product it stands for is in the lemmas about it.         *)
(***************************************************************************)
EXTENDS DifatTable, SectorNum, TLAPS

Row(s) == s * LinkWord

\* The FAT sectors listed outside of the header, and the first c of the list.
Outside == fatSectorNum - HeaderSlots
Prefix(c) == [x \in 1 .. c |-> difatSectorNum + x - 1]

\* The word the list has in a place of sector s, before and after its end.
Entry(s, x) == HeaderSlots + difatSectorNum + Row(s) + x
Word(s, x) == IF Row(s) + x < Outside THEN Entry(s, x) ELSE FREESECT
LastLink == IF ExactFit THEN difatSectorNum ELSE ENDOFCHAIN
-----------------------------------------------------------------------------
(* The invariant *)

Types ==
    /\ fatSectorNum \in Nat /\ fatSectorNum > 0
    /\ i \in Nat /\ j \in Nat /\ v \in Nat /\ pos \in Nat /\ k \in Nat
    /\ disk \in [DifatWords -> Int]
    /\ pc \in {"entries", "fill", "link", "header", "words", "next", "ok", "throw"}
    /\ pc \in {"entries", "fill", "link", "words", "next"} => difatSectorNum > 0

\* Where the writer is; in "fill" it stands on the word after the list.
Writing ==
    /\ pc \in {"entries", "fill", "link"} =>
         /\ i < difatSectorNum /\ v = Entry(i, j) + (IF pc = "fill" THEN 1 ELSE 0)
         /\ Row(i) + j <= Outside
    /\ pc \in {"entries", "fill"} => j < LinkWord
    /\ pc = "link" => j = LinkWord
    /\ pc = "fill" => Row(i) + j = Outside

\* What it has written.
Written ==
    pc \in {"entries", "fill", "link"} =>
        /\ \A s \in Nat, x \in Nat :
              x < LinkWord /\ (s < i \/ (s = i /\ x < j)) => disk[<<s, x>>] = Entry(s, x)
        /\ \A s \in Nat : s < i => disk[<<s, LinkWord>>] = s + 1

\* What is on the disk when it has finished.
Finished ==
    pc \notin {"entries", "fill", "link"} =>
        /\ \A s \in Nat, x \in Nat :
              s < difatSectorNum /\ x < LinkWord => disk[<<s, x>>] = Word(s, x)
        /\ \A s \in Nat :
              /\ s + 1 < difatSectorNum => disk[<<s, LinkWord>>] = s + 1
              /\ s + 1 = difatSectorNum => disk[<<s, LinkWord>>] = LastLink

\* Where the reader is, and that it has the list up to there.
Passed == HeaderSlots + Row(pos) + k
Reading ==
    /\ pc \in {"entries", "fill", "link", "header"} => pos = 0 /\ k = 0
    /\ pc \in {"words", "next"} =>
         /\ pos < difatSectorNum =>
                difat = Prefix(IF Passed < fatSectorNum THEN Passed ELSE fatSectorNum)
         /\ ~ pos < difatSectorNum => ExactFit
    /\ pc = "words" => k < LinkWord
    /\ pc = "next" => k = LinkWord
    /\ pc = "ok" => difat = Prefix(fatSectorNum)
    /\ pc = "throw" => ExactFit

IInv == Types /\ Writing /\ Written /\ Finished /\ Reading
-----------------------------------------------------------------------------
(* Arithmetic *)

LEMMA LinkWordType == LinkWord \in Nat /\ LinkWord >= 1
  BY EntriesAssumption DEF LinkWord

LEMMA RowFacts ==
    ASSUME NEW s \in Nat
    PROVE  /\ Row(s) \in Nat
           /\ Row(s + 1) = Row(s) + LinkWord
           /\ Row(0) = 0
  BY LinkWordType DEF Row

LEMMA RowMonotone ==
    ASSUME NEW s \in Nat, NEW t \in Nat, s < t
    PROVE  Row(s) + LinkWord <= Row(t)
  <1>1. (s + 1) * LinkWord <= t * LinkWord
    BY LinkWordType, s + 1 <= t
  <1>2. Row(s + 1) = Row(s) + LinkWord
    BY RowFacts
  <1> QED
    BY <1>1, <1>2 DEF Row

LEMMA DivMod ==
    ASSUME NEW w \in Nat, NEW y \in Nat, w >= 1
    PROVE  /\ y \div w \in Nat
           /\ (y \div w) * w <= y
           /\ y < (y \div w) * w + w
  OBVIOUS

\* The DIFAT has room for the rest of the list, and less by one sector not.
LEMMA Room ==
    ASSUME fatSectorNum \in Nat
    PROVE  /\ difatSectorNum \in Nat
           /\ difatSectorNum = 0 => fatSectorNum <= HeaderSlots
           /\ difatSectorNum > 0 =>
                /\ Outside \in Nat /\ Outside > 0
                /\ Outside <= Row(difatSectorNum)
                /\ Row(difatSectorNum - 1) < Outside
  <1>1. CASE fatSectorNum <= HeaderSlots
    BY <1>1, SlotsAssumption DEF difatSectorNum, DifatFor
  <1>2. CASE fatSectorNum > HeaderSlots
    <2> DEFINE q == (Outside + LinkWord - 1) \div LinkWord
    <2>1. Outside \in Nat /\ Outside > 0
      BY <1>2, SlotsAssumption DEF Outside
    <2>2. Outside + LinkWord - 1 \in Nat
      BY <2>1, LinkWordType
    <2>3. q \in Nat /\ q * LinkWord <= Outside + LinkWord - 1 /\ Outside + LinkWord - 1 < q * LinkWord + LinkWord
      BY <2>2, LinkWordType, DivMod
    <2>4. difatSectorNum = q
      BY <1>2, <2>1, SlotsAssumption DEF difatSectorNum, DifatFor, BlockNum, Outside, LinkWord
    <2> HIDE DEF q
    <2>5. q * LinkWord \in Nat
      BY <2>3, LinkWordType
    <2>6. Outside <= q * LinkWord
      BY <2>1, <2>3, <2>5, LinkWordType
    <2>7. q > 0
      <3>1. CASE q = 0
        <4>1. q * LinkWord = 0
          BY <3>1, LinkWordType
        <4> QED
          BY <2>1, <2>6, <4>1
      <3> QED
        BY <2>3, <3>1
    <2>8. Row(q - 1) + LinkWord = q * LinkWord /\ Row(q - 1) \in Nat
      BY <2>3, <2>7, RowFacts, q - 1 \in Nat, (q - 1) + 1 = q DEF Row
    <2>9. Row(q - 1) < Outside
      BY <2>1, <2>3, <2>5, <2>8, LinkWordType
    <2> QED
      BY <1>2, <2>1, <2>3, <2>4, <2>6, <2>7, <2>9, SlotsAssumption DEF Row
  <1> QED
    BY <1>1, <1>2, SlotsAssumption

\* The list goes on word by word.
LEMMA PrefixFacts ==
    ASSUME fatSectorNum \in Nat, NEW c \in Nat
    PROVE  /\ Prefix(c) \in Seq(Int)
           /\ Len(Prefix(c)) = c
           /\ Append(Prefix(c), difatSectorNum + c) = Prefix(c + 1)
           /\ c <= fatSectorNum => Prefix(c) = SubSeq(FatSectors, 1, c)
  <1>1. difatSectorNum \in Nat
    BY Room
  <1>2. Prefix(c) \in Seq(Int) /\ Len(Prefix(c)) = c
    BY <1>1 DEF Prefix
  <1>3. Append(Prefix(c), difatSectorNum + c) = Prefix(c + 1)
    BY <1>1 DEF Prefix
  <1>4. ASSUME c <= fatSectorNum PROVE Prefix(c) = SubSeq(FatSectors, 1, c)
    BY <1>1, <1>4 DEF Prefix, FatSectors
  <1> QED
    BY <1>2, <1>3, <1>4
-----------------------------------------------------------------------------
(* The invariant holds *)

LEMMA InitIInv == Init => IInv
  <1> SUFFICES ASSUME Init PROVE IInv
    OBVIOUS
  <1>1. fatSectorNum \in Nat /\ fatSectorNum > 0
    BY FatCountsAssumption DEF Init
  <1>2. difatSectorNum \in Nat
    BY <1>1, Room
  <1>3. HeaderSlots + difatSectorNum \in Nat
    BY <1>2, SlotsAssumption
  <1>4. pc \in {"entries", "header"} /\ (pc = "entries" <=> difatSectorNum > 0)
    BY DEF Init
  <1>5. disk = [p \in DifatWords |-> 0]
    BY DEF Init
  <1>6. Types
    <2>1. disk \in [DifatWords -> Int]
      BY <1>5
    <2>2. v \in Nat
      BY <1>3 DEF Init
    <2> QED
      BY <1>1, <1>4, <2>1, <2>2 DEF Init, Types
  <1>7. Writing
    <2>1. Row(0) = 0
      BY RowFacts
    <2>2. pc = "entries" => Outside \in Nat
      BY <1>1, <1>4, Room
    <2> QED
      BY <1>2, <1>3, <1>4, <2>1, <2>2, LinkWordType, SlotsAssumption DEF Init, Writing, Entry
  <1>8. Written
    BY DEF Init, Written
  <1>9. Finished
    <2>1. pc = "header" => difatSectorNum = 0
      BY <1>2, <1>4
    <2> QED
      BY <1>4, <2>1 DEF Finished
  <1>10. Reading
    BY <1>4 DEF Init, Reading
  <1> QED
    BY <1>6, <1>7, <1>8, <1>9, <1>10 DEF IInv

\* The definitions do not change with the step: F is the input.
LEMMA Fixed ==
    ASSUME UNCHANGED fatSectorNum
    PROVE  /\ UNCHANGED <<difatSectorNum, Outside, LastLink, ExactFit, DifatWords>>
           /\ \A c : Prefix(c)' = Prefix(c)
           /\ \A s, x : Entry(s, x)' = Entry(s, x) /\ Word(s, x)' = Word(s, x)
  BY DEF difatSectorNum, Outside, LastLink, ExactFit, DifatWords, Prefix, Entry, Word

\* Every place of the DIFAT is one of the disk's.
LEMMA Places ==
    ASSUME NEW s \in Nat, NEW x \in Nat, s < difatSectorNum, x <= LinkWord, difatSectorNum \in Nat
    PROVE  <<s, x>> \in DifatWords
  BY LinkWordType DEF DifatWords

LEMMA WriteEntryInv ==
    ASSUME IInv, WriteEntry
    PROVE  IInv'
  <1>1. /\ UNCHANGED <<difatSectorNum, Outside, LastLink, ExactFit, DifatWords>>
        /\ \A c : Prefix(c)' = Prefix(c)
        /\ \A s, x : Entry(s, x)' = Entry(s, x) /\ Word(s, x)' = Word(s, x)
    BY Fixed DEF WriteEntry
  <1>2. /\ difatSectorNum \in Nat /\ difatSectorNum > 0
        /\ Outside \in Nat /\ Outside > 0
        /\ i \in Nat /\ j \in Nat /\ i < difatSectorNum /\ j < LinkWord
        /\ Row(i) + j <= Outside /\ Row(i) \in Nat
        /\ v = Entry(i, j)
    <2>1. difatSectorNum > 0 /\ fatSectorNum \in Nat
      BY DEF IInv, Types, WriteEntry
    <2>2. i \in Nat /\ j \in Nat /\ v \in Nat
      BY DEF IInv, Types
    <2>3. Row(i) \in Nat
      BY <2>2, RowFacts
    <2>4. Entry(i, j) + 0 = Entry(i, j)
      BY <2>1, <2>2, <2>3, Room, SlotsAssumption DEF Entry
    <2> QED
      BY <2>1, <2>2, <2>3, <2>4, Room DEF IInv, Writing, WriteEntry
  <1>3. v + 1 > difatSectorNum + fatSectorNum <=> Row(i) + j >= Outside
    BY <1>2, SlotsAssumption DEF Entry, Outside, IInv, Types
  <1>4. disk' = [disk EXCEPT ![<<i, j>>] = Entry(i, j)]
    BY <1>2 DEF WriteEntry
  <1>5. i' = i /\ v' = v + 1 /\ fatSectorNum' = fatSectorNum /\ pos' = pos /\ k' = k
    BY DEF WriteEntry
  <1>6. \/ /\ Row(i) + j = Outside /\ pc' = "fill" /\ j' = j
        \/ /\ Row(i) + j < Outside /\ j + 1 < LinkWord /\ pc' = "entries" /\ j' = j + 1
        \/ /\ Row(i) + j < Outside /\ j + 1 = LinkWord /\ pc' = "link" /\ j' = j + 1
    BY <1>2, <1>3, LinkWordType DEF WriteEntry, PastTheList
  <1>7. Types'
    <2>1. Entry(i, j) \in Int
      BY <1>2, SlotsAssumption DEF Entry
    <2>2. disk' \in [DifatWords -> Int]
      <3>1. disk \in [DifatWords -> Int]
        BY DEF IInv, Types
      <3> QED
        BY <1>4, <2>1, <3>1
    <2> QED
      BY <1>1, <1>2, <1>5, <1>6, <2>2 DEF IInv, Types
  <1>8. Writing'
    <2>1. \A x \in Nat : Entry(i, x) + 1 = Entry(i, x + 1)
      BY <1>2, SlotsAssumption DEF Entry
    <2>2. Entry(i, j + 1) + 0 = Entry(i, j + 1)
      BY <1>2, SlotsAssumption DEF Entry
    <2> QED
      BY <1>1, <1>2, <1>5, <1>6, <2>1, <2>2 DEF Writing, Row, LinkWord
  <1>9. Written'
    <2>1. ASSUME NEW s \in Nat, NEW x \in Nat, x < LinkWord, s < i \/ (s = i /\ x < j + 1)
          PROVE  disk'[<<s, x>>] = Entry(s, x)
      <3>1. <<s, x>> \in DifatWords /\ <<i, j>> \in DifatWords
        BY <1>2, <2>1, LinkWordType, Places
      <3>2. CASE s = i /\ x = j
        BY <1>4, <3>1, <3>2 DEF IInv, Types
      <3>3. CASE ~(s = i /\ x = j)
        <4>1. s < i \/ (s = i /\ x < j)
          BY <1>2, <2>1, <3>3
        <4>2. disk[<<s, x>>] = Entry(s, x)
          BY <2>1, <4>1 DEF IInv, Written, WriteEntry
        <4> QED
          BY <1>4, <3>1, <3>3, <4>2 DEF IInv, Types
      <3> QED
        BY <3>2, <3>3
    <2>2. ASSUME NEW s \in Nat, s < i
          PROVE  disk'[<<s, LinkWord>>] = s + 1
      <3>1. <<s, LinkWord>> \in DifatWords
        BY <1>2, <2>2, LinkWordType, Places
      <3>2. disk[<<s, LinkWord>>] = s + 1
        BY <2>2 DEF IInv, Written, WriteEntry
      <3> QED
        BY <1>2, <1>4, <3>1, <3>2 DEF IInv, Types
    <2>3. j' \in Nat /\ j' <= j + 1
      BY <1>2, <1>6
    <2>4. LinkWord' = LinkWord
      BY DEF LinkWord
    <2>5. ASSUME NEW s \in Nat, NEW x \in Nat, x < LinkWord, s < i \/ (s = i /\ x < j')
          PROVE  s < i \/ (s = i /\ x < j + 1)
      BY <1>2, <2>3, <2>5
    <2> QED
      BY <1>1, <1>5, <2>1, <2>2, <2>4, <2>5 DEF Written
  <1>10. Finished' /\ Reading'
    BY <1>5, <1>6 DEF Finished, Reading, IInv, WriteEntry
  <1> QED
    BY <1>7, <1>8, <1>9, <1>10 DEF IInv

\* In a sector that the list ends in, it is the last one, and not exactly full.
LEMMA LastSector ==
    ASSUME fatSectorNum \in Nat, difatSectorNum > 0,
           NEW s \in Nat, NEW x \in Nat, s < difatSectorNum, x < LinkWord, Row(s) + x = Outside
    PROVE  s + 1 = difatSectorNum /\ ~ExactFit
  <1>1. /\ difatSectorNum \in Nat /\ Outside \in Nat
        /\ Row(difatSectorNum - 1) < Outside /\ Outside <= Row(difatSectorNum)
    BY Room
  <1>2. Row(s) \in Nat /\ Row(s + 1) = Row(s) + LinkWord
    BY RowFacts
  <1>3. s + 1 = difatSectorNum
    <2>1. CASE s < difatSectorNum - 1
      <3>1. difatSectorNum - 1 \in Nat
        BY <1>1
      <3>2. Row(s) + LinkWord <= Row(difatSectorNum - 1) /\ Row(difatSectorNum - 1) \in Nat
        BY <2>1, <3>1, RowMonotone, RowFacts
      <3> QED
        BY <1>1, <1>2, <3>2, LinkWordType
    <2> QED
      BY <1>1, <2>1
  <1>4. Outside < Row(difatSectorNum)
    BY <1>1, <1>2, <1>3, LinkWordType
  <1>5. Row(difatSectorNum) \in Nat
    BY <1>1, RowFacts
  <1> QED
    BY <1>1, <1>3, <1>4, <1>5 DEF ExactFit, Outside, Row

LEMMA FillRestInv ==
    ASSUME IInv, FillRest
    PROVE  IInv'
  <1>1. /\ UNCHANGED <<difatSectorNum, Outside, LastLink, ExactFit, DifatWords>>
        /\ \A c : Prefix(c)' = Prefix(c)
        /\ \A s, x : Entry(s, x)' = Entry(s, x) /\ Word(s, x)' = Word(s, x)
    BY Fixed DEF FillRest
  <1>2. /\ fatSectorNum \in Nat
        /\ difatSectorNum \in Nat /\ difatSectorNum > 0
        /\ i \in Nat /\ j \in Nat /\ i < difatSectorNum /\ j < LinkWord
        /\ Row(i) + j = Outside /\ Row(i) \in Nat
    <2>1. fatSectorNum \in Nat /\ difatSectorNum > 0 /\ i \in Nat /\ j \in Nat
      BY DEF IInv, Types, FillRest
    <2> QED
      BY <2>1, Room, RowFacts DEF IInv, Writing, FillRest
  <1>3. i + 1 = difatSectorNum /\ ~ExactFit
    BY <1>2, LastSector
  <1>4. Types'
    <2>1. disk' \in [DifatWords -> Int]
      BY DEF FillRest, IInv, Types, ENDOFCHAIN, FREESECT
    <2> QED
      BY <1>1, <2>1 DEF FillRest, IInv, Types
  <1>5. ASSUME NEW s \in Nat, NEW x \in Nat, s < difatSectorNum, x < LinkWord
        PROVE  disk'[<<s, x>>] = Word(s, x)
    <2>1. <<s, x>> \in DifatWords
      BY <1>2, <1>5, LinkWordType, Places
    <2>2. CASE s = i /\ x >= j
      <3>1. disk'[<<s, x>>] = FREESECT
        BY <1>2, <1>5, <2>1, <2>2, LinkWordType DEF FillRest
      <3>2. ~(Row(s) + x < Outside)
        BY <1>2, <1>5, <2>2
      <3> QED
        BY <3>1, <3>2 DEF Word
    <2>3. CASE s < i \/ (s = i /\ x < j)
      <3>1. disk[<<s, x>>] = Entry(s, x)
        BY <1>5, <2>3 DEF IInv, Written, FillRest
      <3>2. disk'[<<s, x>>] = disk[<<s, x>>]
        BY <1>2, <1>5, <2>1, <2>3, LinkWordType DEF FillRest
      <3>3. Row(s) + x < Outside
        <4>1. CASE s < i
          BY <1>2, <1>5, <4>1, RowMonotone, RowFacts, LinkWordType
        <4>2. CASE s = i /\ x < j
          BY <1>2, <4>2
        <4> QED
          BY <2>3, <4>1, <4>2
      <3> QED
        BY <3>1, <3>2, <3>3 DEF Word
    <2> QED
      BY <1>2, <1>3, <1>5, <2>2, <2>3
  <1>6. ASSUME NEW s \in Nat, s < difatSectorNum
        PROVE  /\ s < i => disk'[<<s, LinkWord>>] = s + 1
               /\ s = i => disk'[<<s, LinkWord>>] = LastLink
    <2>1. <<s, LinkWord>> \in DifatWords
      BY <1>2, <1>6, LinkWordType, Places
    <2>2. CASE s = i
      BY <1>2, <1>3, <2>1, <2>2 DEF FillRest, LastLink
    <2>3. CASE s < i
      <3>1. disk[<<s, LinkWord>>] = s + 1
        BY <2>3 DEF IInv, Written, FillRest
      <3>2. disk'[<<s, LinkWord>>] = disk[<<s, LinkWord>>]
        BY <1>2, <2>1, <2>3 DEF FillRest
      <3> QED
        BY <1>2, <2>3, <3>1, <3>2
    <2> QED
      BY <1>2, <2>2, <2>3
  <1>7. Finished'
    <2>1. LinkWord' = LinkWord
      BY DEF LinkWord
    <2>2. ASSUME NEW s \in Nat, s + 1 < difatSectorNum PROVE disk'[<<s, LinkWord>>] = s + 1
      <3>1. s < i /\ s < difatSectorNum
        BY <1>2, <1>3, <2>2
      <3> QED
        BY <1>6, <3>1
    <2>3. ASSUME NEW s \in Nat, s + 1 = difatSectorNum PROVE disk'[<<s, LinkWord>>] = LastLink
      <3>1. s = i /\ s < difatSectorNum
        BY <1>2, <1>3, <2>3
      <3> QED
        BY <1>6, <3>1
    <2> QED
      BY <1>1, <1>5, <2>1, <2>2, <2>3 DEF Finished
  <1>8. Writing' /\ Written' /\ Reading'
    BY DEF FillRest, Writing, Written, Reading, IInv
  <1> QED
    BY <1>4, <1>7, <1>8 DEF IInv

LEMMA WriteLinkInv ==
    ASSUME IInv, WriteLink
    PROVE  IInv'
  <1>1. /\ UNCHANGED <<difatSectorNum, Outside, LastLink, ExactFit, DifatWords>>
        /\ \A c : Prefix(c)' = Prefix(c)
        /\ \A s, x : Entry(s, x)' = Entry(s, x) /\ Word(s, x)' = Word(s, x)
    BY Fixed DEF WriteLink
  <1>2. /\ fatSectorNum \in Nat
        /\ difatSectorNum \in Nat /\ difatSectorNum > 0
        /\ Outside \in Nat /\ Outside <= Row(difatSectorNum)
        /\ i \in Nat /\ i < difatSectorNum /\ j = LinkWord
        /\ Row(i) \in Nat /\ Row(i) + LinkWord <= Outside
        /\ v = Entry(i, LinkWord) + 0
    <2>1. fatSectorNum \in Nat /\ difatSectorNum > 0 /\ i \in Nat
      BY DEF IInv, Types, WriteLink
    <2> QED
      BY <2>1, Room, RowFacts DEF IInv, Writing, WriteLink
  <1>3. Row(i + 1) = Row(i) + LinkWord /\ LinkWord \in Nat
    BY <1>2, RowFacts, LinkWordType
  <1>4. /\ disk' = [disk EXCEPT ![<<i, LinkWord>>] = i + 1]
        /\ i' = i + 1 /\ j' = 0
    BY DEF WriteLink, NextDifat
  <1>5. Types'
    <2>1. disk' \in [DifatWords -> Int]
      <3>1. disk \in [DifatWords -> Int] /\ i + 1 \in Int
        BY <1>2 DEF IInv, Types
      <3> QED
        BY <1>4, <3>1
    <2> QED
      BY <1>1, <1>2, <1>4, <2>1 DEF WriteLink, IInv, Types
  <1>6. ASSUME NEW s \in Nat, NEW x \in Nat, x < LinkWord, s < i + 1
        PROVE  disk'[<<s, x>>] = Entry(s, x) /\ Row(s) + x < Outside
    <2>1. <<s, x>> \in DifatWords
      BY <1>2, <1>6, LinkWordType, Places
    <2>2. disk[<<s, x>>] = Entry(s, x)
      BY <1>2, <1>6 DEF IInv, Written, WriteLink
    <2>3. disk'[<<s, x>>] = disk[<<s, x>>]
      BY <1>4, <1>6, <2>1, LinkWordType DEF IInv, Types
    <2>4. Row(s) + x < Outside
      <3>1. CASE s < i
        BY <1>2, <1>6, <3>1, RowMonotone, RowFacts, LinkWordType
      <3>2. CASE s = i
        BY <1>2, <1>6, <3>2, LinkWordType
      <3> QED
        BY <1>2, <1>6, <3>1, <3>2
    <2> QED
      BY <2>2, <2>3, <2>4
  <1>7. ASSUME NEW s \in Nat, s < i + 1
        PROVE  disk'[<<s, LinkWord>>] = s + 1
    <2>1. <<s, LinkWord>> \in DifatWords /\ <<i, LinkWord>> \in DifatWords
      BY <1>2, <1>7, LinkWordType, Places
    <2>2. CASE s = i
      BY <1>4, <2>1, <2>2 DEF IInv, Types
    <2>3. CASE s < i
      <3>1. disk[<<s, LinkWord>>] = s + 1
        BY <2>3 DEF IInv, Written, WriteLink
      <3> QED
        BY <1>2, <1>4, <2>1, <2>3, <3>1 DEF IInv, Types
    <2> QED
      BY <1>2, <1>7, <2>2, <2>3
  <1>8. LinkWord' = LinkWord
    BY DEF LinkWord
  <1>9. CASE i + 1 < difatSectorNum
    <2>1. pc' = "entries"
      BY <1>9 DEF WriteLink
    <2>2. Writing'
      <3>1. Entry(i, LinkWord) = Entry(i + 1, 0) /\ Entry(i, LinkWord) + 0 = Entry(i, LinkWord)
            /\ Entry(i + 1, 0) + 0 = Entry(i + 1, 0)
        BY <1>2, <1>3, SlotsAssumption DEF Entry
      <3>2. v' = v
        BY DEF WriteLink
      <3>3. Row(i + 1) + 0 <= Outside
        BY <1>2, <1>3
      <3>4. 0 < LinkWord
        BY LinkWordType
      <3>5. Entry(i, j)' = Entry(i + 1, 0) /\ (Row(i) + j)' = Row(i + 1) + 0
        BY <1>1, <1>4 DEF Entry, Row, LinkWord
      <3> QED
        BY <1>1, <1>2, <1>4, <1>8, <1>9, <2>1, <3>1, <3>2, <3>3, <3>4, <3>5 DEF Writing
    <2>3. Written'
      <3>1. \A s \in Nat, x \in Nat : s < i + 1 \/ (s = i + 1 /\ x < 0) => s < i + 1
        BY <1>2
      <3> QED
        BY <1>1, <1>4, <1>6, <1>7, <1>8, <3>1 DEF Written
    <2>4. Finished' /\ Reading'
      BY <2>1 DEF Finished, Reading, IInv, WriteLink
    <2> QED
      BY <1>5, <2>2, <2>3, <2>4 DEF IInv
  <1>10. CASE ~(i + 1 < difatSectorNum)
    <2>1. pc' = "header" /\ i + 1 = difatSectorNum
      BY <1>2, <1>10 DEF WriteLink
    <2>2. LastLink = difatSectorNum
      <3>1. Outside = Row(difatSectorNum)
        BY <1>2, <1>3, <2>1
      <3>2. ExactFit
        BY <1>2, <3>1 DEF ExactFit, Outside, Row
      <3> QED
        BY <3>2 DEF LastLink
    <2>3. Finished'
      <3>1. ASSUME NEW s \in Nat, NEW x \in Nat, s < difatSectorNum, x < LinkWord
            PROVE  disk'[<<s, x>>] = Word(s, x)
        BY <1>6, <2>1, <3>1 DEF Word
      <3>2. ASSUME NEW s \in Nat, s + 1 < difatSectorNum PROVE disk'[<<s, LinkWord>>] = s + 1
        BY <1>2, <1>7, <2>1, <3>2
      <3>3. ASSUME NEW s \in Nat, s + 1 = difatSectorNum PROVE disk'[<<s, LinkWord>>] = LastLink
        BY <1>2, <1>7, <2>1, <2>2, <3>3
      <3> QED
        BY <1>1, <1>8, <3>1, <3>2, <3>3 DEF Finished
    <2>4. Writing' /\ Written' /\ Reading'
      BY <2>1 DEF Writing, Written, Reading, IInv, WriteLink
    <2> QED
      BY <1>5, <2>3, <2>4 DEF IInv
  <1> QED
    BY <1>9, <1>10

LEMMA ReadHeaderInv ==
    ASSUME IInv, ReadHeader
    PROVE  IInv'
  <1>1. /\ UNCHANGED <<difatSectorNum, Outside, LastLink, ExactFit, DifatWords>>
        /\ \A c : Prefix(c)' = Prefix(c)
        /\ \A s, x : Entry(s, x)' = Entry(s, x) /\ Word(s, x)' = Word(s, x)
    BY Fixed DEF ReadHeader
  <1>2. fatSectorNum \in Nat /\ pos = 0 /\ k = 0
    BY DEF IInv, Types, Reading, ReadHeader
  <1>3. difat' = Prefix(InHeader(fatSectorNum))
    BY DEF ReadHeader, Prefix
  <1>4. Types'
    BY <1>1, <1>2, Room DEF IInv, Types, ReadHeader
  <1>5. Finished'
    BY <1>1 DEF IInv, Finished, ReadHeader, LinkWord
  <1>6. Writing' /\ Written'
    BY DEF ReadHeader, Writing, Written
  <1>7. Reading'
    <2>1. CASE difatSectorNum > 0
      <3>1. Passed = HeaderSlots
        BY <1>2, RowFacts, SlotsAssumption DEF Passed
      <3>2. HeaderSlots < fatSectorNum
        BY <1>2, <2>1, Room, SlotsAssumption DEF Outside
      <3>3. InHeader(fatSectorNum) = HeaderSlots
        BY <1>2, <3>2, SlotsAssumption DEF InHeader
      <3>4. Passed' = Passed
        BY DEF Passed, ReadHeader, Row, LinkWord
      <3>5. difat' = Prefix(IF Passed' < fatSectorNum' THEN Passed' ELSE fatSectorNum')
        BY <1>3, <3>1, <3>2, <3>3, <3>4 DEF ReadHeader
      <3>6. pc' = "words" /\ pos' < difatSectorNum' /\ k' < LinkWord'
        BY <1>1, <1>2, <2>1, LinkWordType DEF ReadHeader, LinkWord
      <3> QED
        BY <1>1, <3>5, <3>6 DEF Reading
    <2>2. CASE ~(difatSectorNum > 0)
      <3>1. fatSectorNum <= HeaderSlots
        BY <1>2, <2>2, Room
      <3>2. InHeader(fatSectorNum) = fatSectorNum
        BY <1>2, <3>1, SlotsAssumption DEF InHeader
      <3>3. pc' = "ok" /\ fatSectorNum' = fatSectorNum
        BY <2>2 DEF ReadHeader
      <3> QED
        BY <1>1, <1>3, <3>2, <3>3 DEF Reading
    <2> QED
      BY <2>1, <2>2
  <1> QED
    BY <1>4, <1>5, <1>6, <1>7 DEF IInv

LEMMA ReadWordInv ==
    ASSUME IInv, ReadWord
    PROVE  IInv'
  <1>1. /\ UNCHANGED <<difatSectorNum, Outside, LastLink, ExactFit, DifatWords>>
        /\ \A c : Prefix(c)' = Prefix(c)
        /\ \A s, x : Entry(s, x)' = Entry(s, x) /\ Word(s, x)' = Word(s, x)
    BY Fixed DEF ReadWord
  <1>2. /\ fatSectorNum \in Nat /\ fatSectorNum > 0 /\ pos \in Nat /\ k \in Nat
        /\ difatSectorNum > 0 /\ k < LinkWord
        /\ fatSectorNum' = fatSectorNum /\ pos' = pos /\ k' = k + 1
    BY DEF IInv, Types, Reading, ReadWord
  <1>3. /\ difatSectorNum \in Nat /\ Outside \in Nat
        /\ Row(pos) \in Nat /\ LinkWord \in Nat /\ HeaderSlots \in Nat
    BY <1>2, Room, RowFacts, LinkWordType, SlotsAssumption
  <1>4. \/ pc' = "words" /\ k' < LinkWord
        \/ pc' = "next" /\ k' = LinkWord
    BY <1>2, <1>3 DEF ReadWord
  <1>5. LinkWord' = LinkWord
    BY DEF LinkWord
  <1>6. Types'
    BY <1>1, <1>2, <1>4 DEF IInv, Types, ReadWord
  <1>7. Finished'
    BY <1>1, <1>4, <1>5 DEF IInv, Finished, ReadWord
  <1>8. Writing' /\ Written'
    BY <1>4 DEF Writing, Written
  <1>9. CASE pos < difatSectorNum
    <2>1. Passed \in Nat /\ Passed' = Passed + 1
      <3>1. Passed' = HeaderSlots + Row(pos) + (k + 1)
        BY <1>2 DEF Passed, Row, LinkWord
      <3> QED
        BY <1>2, <1>3, <3>1 DEF Passed
    <2>2. difat = Prefix(IF Passed < fatSectorNum THEN Passed ELSE fatSectorNum)
      BY <1>9 DEF IInv, Reading, ReadWord
    <2>3. WordAt(pos, k) = Word(pos, k)
      BY <1>2, <1>9 DEF IInv, Finished, ReadWord, WordAt
    <2>4. Passed < fatSectorNum <=> Row(pos) + k < Outside
      BY <1>2, <1>3 DEF Passed, Outside
    <2>5. CASE Passed < fatSectorNum
      <3>1. Word(pos, k) = difatSectorNum + Passed
        BY <1>2, <1>3, <2>4, <2>5 DEF Word, Entry, Passed
      <3>2. difatSectorNum + Passed # FREESECT
        BY <1>3, <2>1 DEF FREESECT
      <3>3. difat = Prefix(Passed)
        BY <2>2, <2>5
      <3>4. difat' = Append(Prefix(Passed), difatSectorNum + Passed)
        BY <2>3, <3>1, <3>2, <3>3 DEF ReadWord
      <3>5. difat' = Prefix(Passed + 1)
        BY <1>2, <2>1, <3>4, PrefixFacts
      <3>6. Passed + 1 = IF Passed + 1 < fatSectorNum THEN Passed + 1 ELSE fatSectorNum
        BY <1>2, <2>1, <2>5
      <3>7. difat' = Prefix(IF Passed + 1 < fatSectorNum THEN Passed + 1 ELSE fatSectorNum)
        BY <3>5, <3>6
      <3> QED
        BY <1>1, <1>2, <1>4, <1>5, <1>6, <1>7, <1>8, <1>9, <2>1, <3>7 DEF IInv, Reading
    <2>6. CASE ~(Passed < fatSectorNum)
      <3>1. Word(pos, k) = FREESECT
        BY <2>4, <2>6 DEF Word
      <3>2. difat' = difat
        BY <2>3, <3>1 DEF ReadWord
      <3>3. ~(Passed + 1 < fatSectorNum)
        BY <1>2, <2>1, <2>6
      <3>4. difat' = Prefix(IF Passed + 1 < fatSectorNum THEN Passed + 1 ELSE fatSectorNum)
        BY <2>2, <2>6, <3>2, <3>3
      <3> QED
        BY <1>1, <1>2, <1>4, <1>5, <1>6, <1>7, <1>8, <1>9, <2>1, <3>4 DEF IInv, Reading
    <2> QED
      BY <2>5, <2>6
  <1>10. CASE ~(pos < difatSectorNum)
    <2>1. ExactFit
      BY <1>10 DEF IInv, Reading, ReadWord
    <2> QED
      BY <1>1, <1>2, <1>4, <1>5, <1>6, <1>7, <1>8, <1>10, <2>1 DEF IInv, Reading
  <1> QED
    BY <1>9, <1>10

LEMMA ReadLinkInv ==
    ASSUME IInv, ReadLink
    PROVE  IInv'
  <1>1. /\ UNCHANGED <<difatSectorNum, Outside, LastLink, ExactFit, DifatWords>>
        /\ \A c : Prefix(c)' = Prefix(c)
        /\ \A s, x : Entry(s, x)' = Entry(s, x) /\ Word(s, x)' = Word(s, x)
    BY Fixed DEF ReadLink
  <1>2. /\ fatSectorNum \in Nat /\ fatSectorNum > 0 /\ pos \in Nat
        /\ difatSectorNum > 0 /\ k = LinkWord /\ pc = "next"
        /\ fatSectorNum' = fatSectorNum /\ difat' = difat
    BY DEF IInv, Types, Reading, ReadLink
  <1>3. /\ difatSectorNum \in Nat /\ Outside \in Nat /\ Outside <= Row(difatSectorNum)
        /\ Row(pos) \in Nat /\ Row(pos + 1) = Row(pos) + LinkWord
        /\ LinkWord \in Nat /\ LinkWord >= 1 /\ HeaderSlots \in Nat
    BY <1>2, Room, RowFacts, LinkWordType, SlotsAssumption
  <1> DEFINE w == WordAt(pos, LinkWord)
  <1>4. \/ w = ENDOFCHAIN /\ pc' = (IF Len(difat) = fatSectorNum THEN "ok" ELSE "throw")
                          /\ pos' = pos /\ k' = k
        \/ w # ENDOFCHAIN /\ w < 0 /\ pc' = "throw" /\ pos' = pos /\ k' = k
        \/ w >= 0 /\ pos' = w /\ k' = 0 /\ pc' = "words"
    BY DEF ReadLink
  <1> HIDE DEF w
  <1>5. LinkWord' = LinkWord
    BY DEF LinkWord
  <1>6. w \in Int
    <2>1. CASE pos < difatSectorNum
      <3>1. <<pos, LinkWord>> \in DifatWords
        BY <1>2, <1>3, <2>1, Places
      <3> QED
        BY <2>1, <3>1 DEF w, WordAt, IInv, Types
    <2>2. CASE ~(pos < difatSectorNum)
      BY <2>2 DEF w, WordAt, TableFatWord, DIFSECT, FATSECT
    <2> QED
      BY <2>1, <2>2
  <1>7. Types'
    <2>1. pc' \in {"ok", "throw", "words"} /\ pos' \in Nat /\ k' \in Nat
      BY <1>2, <1>3, <1>4, <1>6
    <2> QED
      BY <1>1, <1>2, <2>1 DEF IInv, Types, ReadLink
  <1>8. pc' \notin {"entries", "fill", "link", "header"}
    BY <1>4
  <1>9. Finished'
    BY <1>1, <1>2, <1>5, <1>8 DEF IInv, Finished, ReadLink
  <1>10. Writing' /\ Written'
    BY <1>8 DEF Writing, Written
  <1>11. CASE pos < difatSectorNum
    <2>1. difat = Prefix(IF Passed < fatSectorNum THEN Passed ELSE fatSectorNum)
      BY <1>2, <1>11 DEF IInv, Reading
    <2>2. Passed = HeaderSlots + Row(pos) + LinkWord
      BY <1>2 DEF Passed
    <2>3. CASE pos + 1 < difatSectorNum
      <3>1. w = pos + 1
        BY <1>2, <1>11, <2>3 DEF w, WordAt, IInv, Finished
      <3>2. pos' = pos + 1 /\ k' = 0 /\ pc' = "words"
        BY <1>2, <1>4, <3>1 DEF ENDOFCHAIN
      <3>3. Passed' = Passed
        <4>1. Passed' = HeaderSlots + Row(pos + 1) + 0
          BY <3>2 DEF Passed, Row, LinkWord
        <4> QED
          BY <1>3, <2>2, <4>1
      <3> QED
        BY <1>1, <1>2, <1>3, <1>5, <1>7, <1>9, <1>10, <2>1, <2>3, <3>2, <3>3 DEF IInv, Reading
    <2>4. CASE ~(pos + 1 < difatSectorNum)
      <3>1. pos + 1 = difatSectorNum
        BY <1>2, <1>3, <1>11, <2>4
      <3>2. w = LastLink
        BY <1>2, <1>11, <3>1 DEF w, WordAt, IInv, Finished
      <3>3. CASE ExactFit
        <4>1. pos' = difatSectorNum /\ k' = 0 /\ pc' = "words"
          BY <1>3, <1>4, <3>2, <3>3 DEF LastLink, ENDOFCHAIN
        <4>2. ~(pos' < difatSectorNum)
          BY <1>3, <4>1
        <4> QED
          BY <1>1, <1>3, <1>5, <1>7, <1>9, <1>10, <3>3, <4>1, <4>2 DEF IInv, Reading
      <3>4. CASE ~ExactFit
        <4>1. w = ENDOFCHAIN /\ ~(w >= 0)
          BY <3>2, <3>4 DEF LastLink, ENDOFCHAIN
        <4>2. ~(Passed < fatSectorNum)
          <5>1. Row(pos + 1) = Row(difatSectorNum)
            BY <3>1
          <5>2. Outside <= Row(pos) + LinkWord
            BY <1>3, <5>1
          <5> QED
            BY <1>2, <1>3, <2>2, <5>2 DEF Outside
        <4>3. difat = Prefix(fatSectorNum)
          BY <2>1, <4>2
        <4>4. Len(difat) = fatSectorNum
          BY <1>2, <4>3, PrefixFacts
        <4>5. pc' = "ok"
          BY <1>4, <4>1, <4>4
        <4> QED
          BY <1>1, <1>2, <1>7, <1>9, <1>10, <4>3, <4>5 DEF IInv, Reading
      <3> QED
        BY <3>3, <3>4
    <2> QED
      BY <2>3, <2>4
  <1>12. CASE ~(pos < difatSectorNum)
    <2>1. ExactFit
      BY <1>2, <1>12 DEF IInv, Reading
    <2>2. w < 0 /\ w # ENDOFCHAIN
      BY <1>12 DEF w, WordAt, TableFatWord, DIFSECT, FATSECT, ENDOFCHAIN
    <2>3. pc' = "throw"
      BY <1>4, <1>6, <2>2
    <2> QED
      BY <1>1, <1>7, <1>9, <1>10, <2>1, <2>3 DEF IInv, Reading
  <1> QED
    BY <1>11, <1>12

LEMMA StutterInv ==
    ASSUME IInv, UNCHANGED vars
    PROVE  IInv'
  <1>1. /\ UNCHANGED <<difatSectorNum, Outside, LastLink, ExactFit, DifatWords>>
        /\ \A c : Prefix(c)' = Prefix(c)
        /\ \A s, x : Entry(s, x)' = Entry(s, x) /\ Word(s, x)' = Word(s, x)
    BY Fixed DEF vars
  <1>2. UNCHANGED <<fatSectorNum, disk, i, j, v, pos, k, difat, pc>>
    BY DEF vars
  <1>3. Types' /\ Written' /\ Finished'
    BY <1>1, <1>2 DEF IInv, Types, Written, Finished, LinkWord
  <1>4. Writing'
    <2>1. Entry(i, j)' = Entry(i, j) /\ Row(i)' = Row(i) /\ LinkWord' = LinkWord
      BY <1>1, <1>2 DEF Entry, Row, LinkWord
    <2> QED
      BY <1>1, <1>2, <2>1 DEF IInv, Writing
  <1>5. Reading'
    <2>1. Passed' = Passed /\ LinkWord' = LinkWord
      BY <1>2 DEF Passed, Row, LinkWord
    <2> QED
      BY <1>1, <1>2, <2>1 DEF IInv, Reading
  <1> QED
    BY <1>3, <1>4, <1>5 DEF IInv

LEMMA NextIInv == IInv /\ [Next]_vars => IInv'
  BY WriteEntryInv, FillRestInv, WriteLinkInv, ReadHeaderInv, ReadWordInv, ReadLinkInv, StutterInv
     DEF Next, Stop
-----------------------------------------------------------------------------
(* The invariant holds in every reachable state. *)
THEOREM Invariant == Spec => []IInv
  BY InitIInv, NextIInv, PTL DEF Spec

(* For every number of FAT sectors and every geometry: the list the reader  *)
(* accepts is the FAT's, a file of this writer is refused only when its    *)
(* DIFAT is exactly full, and the reader is led on from sector to sector.  *)
THEOREM ListReadBack == Spec => []DifatReadBack
  <1>1. IInv => DifatReadBack
    <2> SUFFICES ASSUME IInv PROVE DifatReadBack
      OBVIOUS
    <2>1. pc = "ok" => difat = FatSectors
      BY DEF IInv, Reading, Prefix, FatSectors
    <2>2. pc = "throw" => ExactFit
      BY DEF IInv, Reading
    <2>3. ASSUME pc \in {"words", "next"}, ~ExactFit
          PROVE  /\ pos < difatSectorNum
                 /\ difat = SubSeq(FatSectors, 1, IF WordsRead < fatSectorNum THEN WordsRead ELSE fatSectorNum)
      <3>1. /\ fatSectorNum \in Nat /\ difatSectorNum > 0 /\ pos \in Nat /\ k \in Nat
            /\ HeaderSlots \in Nat
        BY <2>3, SlotsAssumption DEF IInv, Types
      <3>2. pos < difatSectorNum
        BY <2>3 DEF IInv, Reading
      <3>3. difat = Prefix(IF Passed < fatSectorNum THEN Passed ELSE fatSectorNum)
        BY <2>3, <3>2 DEF IInv, Reading
      <3>4. HeaderSlots < fatSectorNum
        BY <3>1, Room DEF Outside
      <3>5. InHeader(fatSectorNum) = HeaderSlots
        BY <3>1, <3>4 DEF InHeader
      <3>6. WordsRead = Passed /\ Passed \in Nat
        BY <3>1, <3>5, RowFacts DEF WordsRead, Passed, Row
      <3> DEFINE c == IF WordsRead < fatSectorNum THEN WordsRead ELSE fatSectorNum
      <3>7. c \in Nat /\ c <= fatSectorNum
        BY <3>1, <3>6
      <3>8. difat = Prefix(c)
        BY <3>3, <3>6
      <3> HIDE DEF c
      <3>9. difat = SubSeq(FatSectors, 1, c)
        BY <3>1, <3>7, <3>8, PrefixFacts
      <3> QED
        BY <3>2, <3>9 DEF c
    <2> QED
      BY <2>1, <2>2, <2>3 DEF DifatReadBack
  <1> QED
    BY <1>1, Invariant, PTL
-----------------------------------------------------------------------------
(* The counts: detectSectorNum, with variables of its own, for every n.    *)
(* The loop is a fixpoint iteration from below of two monotone maps: the   *)
(* inductive invariant says that the pair held is below the next pair      *)
(* (Growing) and below every adequate pair (Least), and that what was      *)
(* returned is a fixpoint (Fixpoint).                                      *)

LEMMA MulMonotone ==
    ASSUME NEW w \in Nat, NEW a \in Int, NEW b \in Int, a <= b
    PROVE  a * w <= b * w
  OBVIOUS

LEMMA BlockNumLeast ==
    ASSUME NEW w \in Nat, w >= 1, NEW x \in Nat
    PROVE  /\ BlockNum(x, w) \in Nat
           /\ x <= BlockNum(x, w) * w
           /\ \A m \in Nat : x <= m * w => BlockNum(x, w) <= m
  <1> DEFINE q == BlockNum(x, w)
  <1>1. /\ q \in Nat
        /\ q * w <= x + w - 1
        /\ x + w - 1 < q * w + w
    BY DivMod, x + w - 1 \in Nat DEF BlockNum
  <1>2. ASSUME NEW m \in Nat, x <= m * w, m < q
        PROVE  FALSE
    <2>1. (m + 1) * w <= q * w
      BY <1>1, <1>2, MulMonotone
    <2>2. (m + 1) * w = m * w + w
      OBVIOUS
    <2>3. m * w \in Nat /\ q * w \in Nat
      BY <1>1
    <2> QED
      BY <1>1, <1>2, <2>1, <2>2, <2>3
  <1>3. x <= q * w
    <2>1. q * w \in Nat
      BY <1>1
    <2> QED BY <1>1, <2>1
  <1> QED
    BY <1>1, <1>2, <1>3

LEMMA BlockNumMonotone ==
    ASSUME NEW w \in Nat, w >= 1, NEW x \in Nat, NEW y \in Nat, x <= y
    PROVE  BlockNum(x, w) <= BlockNum(y, w)
  <1>1. y <= BlockNum(y, w) * w /\ BlockNum(y, w) \in Nat
    BY BlockNumLeast
  <1>2. BlockNum(y, w) * w \in Nat
    BY <1>1
  <1>3. x <= BlockNum(y, w) * w
    BY <1>1, <1>2
  <1> QED
    BY <1>1, <1>3, BlockNumLeast

(* The two maps of a round are monotone and stay in Nat. *)
LEMMA FatForMonotone ==
    ASSUME NEW d \in Nat, NEW f \in Nat, NEW e \in Nat, NEW g \in Nat, NEW m \in Nat,
           d <= e, f <= g
    PROVE  /\ FatFor(d, f, m) \in Nat
           /\ FatFor(d, f, m) <= FatFor(e, g, m)
  BY EntriesAssumption, BlockNumLeast, BlockNumMonotone,
     d + f + m \in Nat, e + g + m \in Nat DEF FatFor

LEMMA FatForType ==
    ASSUME NEW d \in Nat, NEW f \in Nat, NEW m \in Nat
    PROVE  FatFor(d, f, m) \in Nat
  BY EntriesAssumption, BlockNumLeast, d + f + m \in Nat DEF FatFor

LEMMA DifatForMonotone ==
    ASSUME NEW f \in Nat, NEW g \in Nat, f <= g
    PROVE  /\ DifatFor(f) \in Nat
           /\ DifatFor(f) <= DifatFor(g)
  <1>1. EntriesPerSector - 1 \in Nat /\ EntriesPerSector - 1 >= 1
    BY EntriesAssumption
  <1>2. CASE f <= HeaderSlots /\ g <= HeaderSlots
    BY <1>2 DEF DifatFor
  <1>3. CASE f <= HeaderSlots /\ g > HeaderSlots
    <2>1. g - HeaderSlots \in Nat
      BY <1>3, SlotsAssumption
    <2>2. BlockNum(g - HeaderSlots, EntriesPerSector - 1) \in Nat
      BY <1>1, <2>1, BlockNumLeast
    <2> QED
      BY <1>3, <2>2, SlotsAssumption DEF DifatFor
  <1>4. CASE f > HeaderSlots /\ g > HeaderSlots
    <2>1. f - HeaderSlots \in Nat /\ g - HeaderSlots \in Nat
          /\ f - HeaderSlots <= g - HeaderSlots
      BY <1>4, SlotsAssumption
    <2>2. /\ BlockNum(f - HeaderSlots, EntriesPerSector - 1) \in Nat
          /\ BlockNum(f - HeaderSlots, EntriesPerSector - 1)
                <= BlockNum(g - HeaderSlots, EntriesPerSector - 1)
      BY <1>1, <2>1, BlockNumLeast, BlockNumMonotone
    <2> QED
      BY <1>4, <2>2, SlotsAssumption DEF DifatFor
  <1> QED
    BY <1>2, <1>3, <1>4, SlotsAssumption

LEMMA DifatForType ==
    ASSUME NEW f \in Nat
    PROVE  DifatFor(f) \in Nat
  BY DifatForMonotone, f <= f

(* An adequate pair stays above the next pair of a round that starts below it. *)
LEMMA RoundStaysBelow ==
    ASSUME NEW d \in Nat, NEW f \in Nat, NEW m \in Nat, Adequate(d, f, m),
           NEW dd \in Nat, NEW ff \in Nat, dd <= d, ff <= f
    PROVE  /\ FatFor(dd, ff, m) <= f
           /\ DifatFor(FatFor(dd, ff, m)) <= d
  <1>1. FatFor(d, f, m) <= f
    <2>1. \A x \in Nat : d + f + m <= x * EntriesPerSector
                            => BlockNum(d + f + m, EntriesPerSector) <= x
      BY EntriesAssumption, BlockNumLeast, d + f + m \in Nat
    <2> QED
      BY <2>1 DEF FatFor, Adequate
  <1>2. FatFor(dd, ff, m) \in Nat /\ FatFor(d, f, m) \in Nat
        /\ FatFor(dd, ff, m) <= FatFor(d, f, m)
    <2>1. FatFor(dd, ff, m) \in Nat /\ FatFor(d, f, m) \in Nat
      BY FatForType
    <2> QED
      BY <2>1, FatForMonotone
  <1>3. FatFor(dd, ff, m) <= f
    BY <1>1, <1>2
  <1>4. DifatFor(f) <= d
    <2>1. CASE f <= HeaderSlots
      BY <2>1 DEF DifatFor
    <2>2. CASE f > HeaderSlots
      <3>1. EntriesPerSector - 1 \in Nat /\ EntriesPerSector - 1 >= 1
        BY EntriesAssumption
      <3>2. f - HeaderSlots \in Nat
        BY <2>2, SlotsAssumption
      <3>3. d * (EntriesPerSector - 1) \in Nat
        BY <3>1
      <3>4. f - HeaderSlots <= d * (EntriesPerSector - 1)
        BY <3>2, <3>3, SlotsAssumption DEF Adequate
      <3>5. BlockNum(f - HeaderSlots, EntriesPerSector - 1) <= d
        BY <3>1, <3>2, <3>4, BlockNumLeast
      <3> QED
        BY <2>2, <3>5, SlotsAssumption DEF DifatFor
    <2> QED
      BY <2>1, <2>2, SlotsAssumption
  <1>5. DifatFor(FatFor(dd, ff, m)) <= DifatFor(f)
        /\ DifatFor(FatFor(dd, ff, m)) \in Nat /\ DifatFor(f) \in Nat
    BY <1>2, <1>3, DifatForMonotone
  <1> QED
    BY <1>3, <1>4, <1>5

-----------------------------------------------------------------------------
Growing ==
    /\ fatNum <= FatFor(difatNum, fatNum, n)
    /\ difatNum <= DifatFor(FatFor(difatNum, fatNum, n))

Least ==
    \A d, f \in Nat :
        Adequate(d, f, n) => difatNum <= d /\ fatNum <= f

Fixpoint ==
    returned => /\ fatNum = FatFor(difatNum, fatNum, n)
                /\ difatNum = DifatFor(fatNum)

CountsInv == CountsTypeOK /\ Growing /\ Least /\ Fixpoint

LEMMA CountsInvInit == CountsInit => CountsInv
  <1> SUFFICES ASSUME CountsInit PROVE CountsInv
    OBVIOUS
  <1>1. CountsTypeOK /\ n \in Nat
    <2>1. n \in Nat
      BY ContentAssumption DEF CountsInit
    <2>2. 0 \in Nat /\ 0 \in 0 .. MaxLoop
      BY DEF MaxLoop
    <2>3. CountsTypeOK
      BY <2>2 DEF CountsInit, CountsTypeOK
    <2> QED
      BY <2>1, <2>3
  <1>2. FatFor(0, 0, n) \in Nat
    BY <1>1, FatForType
  <1>3. DifatFor(FatFor(0, 0, n)) \in Nat
    BY <1>2, DifatForType
  <1>4. Growing
    BY <1>2, <1>3 DEF CountsInit, Growing
  <1>5. Least /\ Fixpoint
    BY DEF CountsInit, Least, Fixpoint
  <1> QED
    BY <1>1, <1>4, <1>5 DEF CountsInv

LEMMA CountsInvNext == CountsInv /\ [Round]_counts => CountsInv'
  <1> SUFFICES ASSUME CountsInv, [Round]_counts PROVE CountsInv'
    OBVIOUS
  <1>1. n \in Nat /\ difatNum \in Nat /\ fatNum \in Nat
    BY ContentAssumption DEF CountsInv, CountsTypeOK
  <1>2. CASE Round
    <2> DEFINE a == FatFor(difatNum, fatNum, n)
               b == DifatFor(a)
    <2>4. a \in Nat
      BY <1>1, FatForType
    <2>5. b \in Nat
      BY <2>4, DifatForType
    <2> HIDE DEF a, b
    <2>1. a \in Nat /\ b \in Nat
      BY <2>4, <2>5
    <2>2. CASE /\ b = difatNum /\ a = fatNum
               /\ returned' = TRUE
               /\ UNCHANGED <<n, difatNum, fatNum, count>>
      BY <2>2 DEF CountsInv, CountsTypeOK, Growing, Least, Fixpoint, a, b
    <2>3. CASE /\ difatNum' = b /\ fatNum' = a
               /\ count' = IF count < MaxLoop THEN count + 1 ELSE count
               /\ ~returned /\ UNCHANGED <<n, returned>>
      <3>1. CountsTypeOK' /\ Fixpoint'
        BY <2>1, <2>3 DEF CountsInv, CountsTypeOK, Fixpoint, MaxLoop
      <3>2. Growing'
        <4>1. difatNum <= b /\ fatNum <= a
          BY DEF CountsInv, Growing, a, b
        <4>2. a <= FatFor(b, a, n) /\ FatFor(b, a, n) \in Nat
          <5>1. FatFor(difatNum, fatNum, n) <= FatFor(b, a, n)
            BY <1>1, <2>1, <4>1, FatForMonotone
          <5> QED
            BY <1>1, <2>1, <5>1, FatForType DEF a
        <4>3. b <= DifatFor(FatFor(b, a, n))
          BY <2>1, <4>2, DifatForMonotone DEF b
        <4> QED
          BY <2>3, <4>2, <4>3 DEF Growing
      <3>3. Least'
        <4> SUFFICES ASSUME NEW d \in Nat, NEW f \in Nat, Adequate(d, f, n)
                     PROVE  b <= d /\ a <= f
          BY <2>3 DEF Least, Adequate
        <4>1. difatNum <= d /\ fatNum <= f
          BY DEF CountsInv, Least
        <4> QED
          BY <1>1, <4>1, RoundStaysBelow DEF a, b
      <3> QED
        BY <3>1, <3>2, <3>3 DEF CountsInv
    <2> QED
      BY <1>2, <2>2, <2>3 DEF Round, Unchanged, a, b
  <1>3. CASE UNCHANGED counts
    BY <1>3 DEF counts, CountsInv, CountsTypeOK, Growing, Least, Fixpoint
  <1> QED
    BY <1>2, <1>3

(* The invariant holds in every reachable state, hence so do its parts. *)
THEOREM CountsInvariant == CountsSpec => []CountsInv
  BY CountsInvInit, CountsInvNext, PTL DEF CountsSpec

(* The types of detectSectorNum's locals, for every geometry. *)
THEOREM TypeCorrect == CountsSpec => []CountsTypeOK
  <1>1. CountsInv => CountsTypeOK
    BY DEF CountsInv
  <1> QED
    BY <1>1, CountsInvariant, PTL

(* detectSectorNum never holds, hence never returns, more sectors than any *)
(* pair that would do.                                                     *)
THEOREM NoOvershoot == CountsSpec => []NeverOvershoots
  <1>1. CountsInv => NeverOvershoots
    <2> SUFFICES ASSUME CountsInv, NEW f \in 0 .. fatNum
                 PROVE  Adequate(DifatFor(f), f, n) =>
                            difatNum <= DifatFor(f) /\ fatNum <= f
      BY DEF NeverOvershoots
    <2>1. f \in Nat
      BY DEF CountsInv, CountsTypeOK
    <2>2. DifatFor(f) \in Nat
      BY <2>1, DifatForType
    <2> QED
      BY <2>1, <2>2 DEF CountsInv, Least
  <1> QED
    BY <1>1, CountsInvariant, PTL

(* What detectSectorNum returns is enough: the FAT has an entry for every  *)
(* sector of the file, header and DIFAT have a slot for every FAT sector.  *)
THEOREM ReturnsAdequate == CountsSpec => []ResultAdequate
  <1>1. CountsInv => ResultAdequate
    <2> SUFFICES ASSUME CountsInv, returned
                 PROVE  Adequate(difatNum, fatNum, n)
      BY DEF ResultAdequate
    <2>1. n \in Nat /\ difatNum \in Nat /\ fatNum \in Nat
      BY ContentAssumption DEF CountsInv, CountsTypeOK
    <2>2. fatNum = FatFor(difatNum, fatNum, n)
          /\ difatNum = DifatFor(fatNum)
      BY DEF CountsInv, Fixpoint
    <2>3. difatNum + fatNum + n <= fatNum * EntriesPerSector
      BY <2>1, <2>2, EntriesAssumption, BlockNumLeast,
         difatNum + fatNum + n \in Nat DEF FatFor
    <2>4. fatNum <= HeaderSlots + difatNum * (EntriesPerSector - 1)
      <3>1. EntriesPerSector - 1 \in Nat /\ EntriesPerSector - 1 >= 1
        BY EntriesAssumption
      <3>2. CASE fatNum <= HeaderSlots
        <4>1. difatNum * (EntriesPerSector - 1) \in Nat
          BY <2>1, <3>1
        <4> QED
          BY <2>1, <3>2, <4>1, SlotsAssumption
      <3>3. CASE fatNum > HeaderSlots
        <4>1. fatNum - HeaderSlots \in Nat
          BY <2>1, <3>3, SlotsAssumption
        <4>2. difatNum = BlockNum(fatNum - HeaderSlots, EntriesPerSector - 1)
          BY <2>1, <2>2, <3>3, SlotsAssumption DEF DifatFor
        <4>3. fatNum - HeaderSlots <= difatNum * (EntriesPerSector - 1)
          BY <3>1, <4>1, <4>2, BlockNumLeast
        <4>4. difatNum * (EntriesPerSector - 1) \in Nat
          BY <2>1, <3>1
        <4> QED
          BY <2>1, <4>3, <4>4, SlotsAssumption
      <3> QED
        BY <2>1, <3>2, <3>3, SlotsAssumption
    <2> QED
      BY <2>3, <2>4 DEF Adequate
  <1> QED
    BY <1>1, CountsInvariant, PTL

(* Neither count ever decreases: the loop cannot alternate between pairs.  *)
THEOREM OnlyGrow == CountsSpec => CountsGrow
  <1>1. CountsInv /\ [Round]_counts =>
            [difatNum' >= difatNum /\ fatNum' >= fatNum]_counts
    <2> SUFFICES ASSUME CountsInv, Round
                 PROVE  difatNum' >= difatNum /\ fatNum' >= fatNum
      OBVIOUS
    <2>1. n \in Nat /\ difatNum \in Nat /\ fatNum \in Nat
      BY ContentAssumption DEF CountsInv, CountsTypeOK
    <2>2. FatFor(difatNum, fatNum, n) \in Nat
      BY <2>1, FatForType
    <2>3. DifatFor(FatFor(difatNum, fatNum, n)) \in Nat
      BY <2>2, DifatForType
    <2> QED
      BY <2>1, <2>2, <2>3 DEF Round, Unchanged, CountsInv, Growing
  <1> QED
    BY <1>1, CountsInvariant, PTL DEF CountsSpec, CountsGrow

\* The pair that detectSectorNum returns is the one makeLayout's DIFAT begins
\* with: as many DIFAT sectors as DifatTable takes for that many FAT sectors.
THEOREM CountsAreTheTables == CountsSpec => [](returned => difatNum = DifatFor(fatNum))
  <1>1. CountsInv => (returned => difatNum = DifatFor(fatNum))
    BY DEF CountsInv, Fixpoint
  <1> QED
    BY <1>1, CountsInvariant, PTL
=============================================================================
