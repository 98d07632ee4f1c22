------------------------------ MODULE CfbFile -------------------------------
(***************************************************************************)
(* A whole compound file: makeLayout (include/make_dataspace.hpp) lays out *)
(* the streams of an encrypted document, CompoundFile (include/cfb.hpp)    *)
(* reads them back.                                                        *)
(*                                                                         *)
(* After the header a file holds, sector by sector,                        *)
(*                                                                         *)
(*   DIFAT | FAT | mini FAT | directory | mini stream | EncryptedPackage   *)
(*                                                                         *)
(* Five small streams share the mini stream, whose mini sectors the mini   *)
(* FAT chains; the package has sectors of its own.  A content is a         *)
(* sequence of tokens <<stream, offset>>, one per unit of data, and the    *)
(* data area of the file maps every unit to the token written last, so a   *)
(* stream written over another one, or read from elsewhere, shows.         *)
(* The header and the entries of the directory are records of bytes        *)
(* (module CfbRecords).  The list of the FAT's sectors past the header is  *)
(* module DifatTable's subject: here the reader gets it unless the DIFAT   *)
(* fits exactly, which it refuses.                                         *)
(***************************************************************************)
EXTENDS CfbRecords, FiniteSets, FiniteSetsExt, Functions

CONSTANTS
    MiniSize,           \* units in a mini sector (64 bytes)
    MinisPerSector,     \* mini sectors in a sector (8)
    Cutoff,             \* miniStreamCutoffSize in units (4096 bytes)
    DirsPerSector,      \* directory entries in a sector (4)
    FixedSizes,         \* sizes of the four streams that are always the same
    InfoSizes,          \* sizes of EncryptionInfo that are tried
    PackageSizes        \* sizes of EncryptedPackage that are tried

SectorSize == MiniSize * MinisPerSector

ASSUME GeometryAssumption ==
    /\ MiniSize \in Nat \ {0} /\ MinisPerSector \in Nat \ {0}
    /\ DirsPerSector \in Nat \ {0} /\ Cutoff \in Nat

\* The entries of the directory, in the order of DSposition.
Root == "Root Entry"
Package == "EncryptedPackage"
DirNames ==
    <<Root, Package, "~DataSpaces", "Version", "DataSpaceMap", "DataSpaceInfo",
      "StrongEncryptionDataSpace", "TransformInfo", "StrongEncryptionTransform", "~Primary",
      "EncryptionInfo">>
DirNum == Len(DirNames)
Id(name) == (CHOOSE x \in 1 .. DirNum : DirNames[x] = name) - 1
WideNames == [x \in 1 .. DirNum |-> ToUtf16(DirNames[x])]
\* The streams in the order of makeLayout's tbl, that is of the mini stream.
MiniStreams ==
    <<"Version", "DataSpaceMap", "StrongEncryptionDataSpace", "~Primary", "EncryptionInfo">>
Streams == {Package} \cup {MiniStreams[x] : x \in 1 .. Len(MiniStreams)}
NumMiniFatSectors == 1

\* The streams encode makes are not empty, and none but the package, whatever
\* its XML says, is as long as the cutoff.
ASSUME SizesAssumption ==
    /\ FixedSizes \in [Streams \ {Package, "EncryptionInfo"} -> 1 .. Cutoff - 1]
    /\ InfoSizes \subseteq 1 .. Cutoff - 1
    /\ PackageSizes \subseteq Nat \ {0}
\* Which characters the names are of, as far as the writer's checks and the order
\* of the siblings depend on it.
ASSUME NamesAssumption ==
    /\ \A x \in 1 .. DirNum : WideNames[x] \in Seq(Nat) \ {<<>>} /\ IsValidName(WideNames[x])
    /\ \A x, y \in 1 .. DirNum : WideNames[x] = WideNames[y] => x = y
    /\ \A x \in 1 .. DirNum :
          Len(WideNames[x]) = <<10, 16, 11, 7, 12, 13, 25, 13, 25, 8, 14>>[x]
    /\ ToUpper(WideNames[6][1]) < ToUpper(WideNames[8][1])

\* The small streams fit into the one sector of the mini FAT: of its 128 words
\* the four of fixed sizes take nine, EncryptionInfo at most 64.
ASSUME MiniFatAssumption ==
    \A info \in InfoSizes :
        BlockNum(FixedSizes["Version"], MiniSize) + BlockNum(FixedSizes["DataSpaceMap"], MiniSize)
        + BlockNum(FixedSizes["StrongEncryptionDataSpace"], MiniSize)
        + BlockNum(FixedSizes["~Primary"], MiniSize) + BlockNum(info, MiniSize)
        <= NumMiniFatSectors * EntriesPerSector

\* So many content sectors ten rounds of detectSectorNum settle: 2^49 with 128
\* words to a sector, and the number of a sector has 32 bits.
Farther(n) == n * (EntriesPerSector \div 2)
Reach == 2 * Farther(Farther(Farther(Farther(Farther(Farther(Farther(Farther(1))))))))
ASSUME ReachAssumption ==
    /\ EntriesPerSector >= 4
    /\ \A package \in PackageSizes :
          NumMiniFatSectors + BlockNum(DirNum, DirsPerSector) + EntriesPerSector
          + BlockNum(package, SectorSize) <= Reach

VARIABLES
    size,               \* the length of every content handed to the writer
    dirs,               \* the writer's directory entries
    miniFatNum,         \* mini sectors in use
    difatSectorNum, fatSectorNum,
    image,              \* the file: header, fat, miniFat, directory and data
    next,               \* index of the two loops over a directory
    header,             \* what the reader has of the header
    fats, miniFats,     \* the words of the tables the reader found
    entries,            \* the reader's directory entries
    miniData,           \* the reader's copy of the mini stream
    loaded,             \* the contents of its entries
    pc

writer == <<size, dirs, miniFatNum, difatSectorNum, fatSectorNum>>
tables == <<header, fats, miniFats>>
reader == <<tables, entries, miniData, loaded>>
vars == <<writer, image, next, reader, pc>>

Zero == <<"", 0>>
ContentOf(sizes, s) == [o \in 1 .. sizes[s] |-> <<s, o>>]
Content(s) == ContentOf(size, s)
Empty == [s \in Streams |-> <<>>]

\* The documents: four of the streams are resources that never change.
Documents ==
    {[s \in Streams |-> CASE s = Package -> package
                          [] s = "EncryptionInfo" -> info
                          [] OTHER -> FixedSizes[s]] :
        info \in InfoSizes, package \in PackageSizes}

FileTime == 5           \* the time of the call

\* Mutation: the siblings are swapped.
InfoSwapped(type, color, left, right, child) ==
    [type |-> type, color |-> color, left |-> right, right |-> left, child |-> child]

Info(type, color, left, right, child) ==
    [type |-> type, color |-> color, left |-> left, right |-> right, child |-> child]

\* infoTbl: the children of a storage are a binary tree of siblings.
InfoTbl ==
    <<Info(RootStorageObject, Red, NOSTREAM, NOSTREAM, Id("EncryptionInfo")),
      Info(StreamObject, Red, NOSTREAM, NOSTREAM, NOSTREAM),
      Info(StorageObject, Red, NOSTREAM, NOSTREAM, Id("DataSpaceMap")),
      Info(StreamObject, Black, NOSTREAM, NOSTREAM, NOSTREAM),
      Info(StreamObject, Black, Id("Version"), Id("DataSpaceInfo"), NOSTREAM),
      Info(StorageObject, Black, NOSTREAM, Id("TransformInfo"), Id("StrongEncryptionDataSpace")),
      Info(StreamObject, Black, NOSTREAM, NOSTREAM, NOSTREAM),
      Info(StorageObject, Red, NOSTREAM, NOSTREAM, Id("StrongEncryptionTransform")),
      Info(StorageObject, Black, NOSTREAM, NOSTREAM, Id("~Primary")),
      Info(StreamObject, Black, NOSTREAM, NOSTREAM, NOSTREAM),
      Info(StreamObject, Black, Id("~DataSpaces"), Id(Package), NOSTREAM)>>

MakeDataSpace(doc) ==
    [x \in 1 .. DirNum |->
        [type |-> InfoTbl[x].type, color |-> InfoTbl[x].color, left |-> InfoTbl[x].left,
         right |-> InfoTbl[x].right, child |-> InfoTbl[x].child, name |-> WideNames[x],
         stateBits |-> 0, creationTime |-> FileTime, modifiedTime |-> FileTime, start |-> 0,
         size |-> IF DirNames[x] \in Streams THEN doc[DirNames[x]] ELSE 0]]

Init ==
    /\ size \in Documents
    /\ dirs = MakeDataSpace(size)
    /\ miniFatNum = 0 /\ difatSectorNum = 0 /\ fatSectorNum = 0
    /\ image = [header |-> <<>>, fat |-> <<>>, miniFat |-> <<>>, directory |-> <<>>, data |-> <<>>]
    /\ next = 1
    /\ header = <<>> /\ fats = <<>> /\ miniFats = <<>>
    /\ entries = <<>> /\ miniData = <<>> /\ loaded = <<>>
    /\ pc = IF \A x \in 1 .. DirNum : IsSettable(dirs[x]) THEN "ministreams" ELSE "writer refused"
-----------------------------------------------------------------------------
(* makeLayout *)

Entry(name) == dirs[Id(name) + 1]

MinisOf(s) == BlockNum(Entry(s).size, MiniSize)

\* First mini sector of the x-th of the mini streams: they follow each other.
MiniPos ==
    LET p[x \in 1 .. Len(MiniStreams) + 1] ==
            IF x = 1 THEN 0 ELSE p[x - 1] + MinisOf(MiniStreams[x - 1])
    IN  p

PlaceMiniStreams ==
    LET all == MiniPos[Len(MiniStreams) + 1]
        IsMini(d, x) == MiniStreams[x] = DirNames[d]
    IN  /\ pc = "ministreams"
        /\ dirs' = [i \in 1 .. DirNum |->
                      IF \E x \in 1 .. Len(MiniStreams) : IsMini(i, x)
                      THEN [dirs[i] EXCEPT !.start =
                              MiniPos[CHOOSE x \in 1 .. Len(MiniStreams) : IsMini(i, x)]]
                      ELSE dirs[i]]
        /\ miniFatNum' = all
        /\ pc' = IF BlockNum(BlockNum(all, MinisPerSector), EntriesPerSector) > NumMiniFatSectors
                 THEN "writer refused" ELSE "layout"
        /\ UNCHANGED <<size, difatSectorNum, fatSectorNum, image, next, reader>>

\* Mutation: a package of whole sectors gets none for its last one.
PackageSectorsShort == Entry(Package).size \div SectorSize

DirSectors == BlockNum(DirNum, DirsPerSector)
MiniDataSectors == BlockNum(miniFatNum, MinisPerSector)
PackageSectors == BlockNum(Entry(Package).size, SectorSize)
ContentSectors == NumMiniFatSectors + DirSectors + MiniDataSectors + PackageSectors

MaxRounds == 10     \* bound: the rounds looked at (theorem CountsSettle: no more are needed)

\* What detectSectorNum returns: the pair of a round that changes nothing.  Its
\* loop has no other exit; without such a round it runs forever.
SectorCounts(m) ==
    LET r[c \in 0 .. MaxRounds] ==
            IF c = 0 THEN [d |-> 0, f |-> 0]
            ELSE LET a == FatFor(r[c - 1].d, r[c - 1].f, m) IN [d |-> DifatFor(a), f |-> a]
    IN  {r[c] : c \in {c \in 1 .. MaxRounds : r[c] = r[c - 1]}}

FatPos == difatSectorNum
MiniFatPos == FatPos + fatSectorNum
DirPos == MiniFatPos + NumMiniFatSectors
MiniDataPos == DirPos + DirSectors
PackagePos == MiniDataPos + MiniDataSectors
AllSectors == difatSectorNum + fatSectorNum + ContentSectors

\* The first slots of the FAT's sectors are the header's.
Header ==
    [NewHeader EXCEPT
        !.firstDirectorySectorLocation = DirPos,
        !.firstMiniFatSectorLocation = MiniFatPos,
        !.numMiniFatSectors = NumMiniFatSectors,
        !.numFatSectors = fatSectorNum,
        !.numDifatSectors = difatSectorNum,
        !.firstDifatSectorLocation = IF difatSectorNum > 0 THEN 0 ELSE ENDOFCHAIN,
        !.difat = [x \in 1 .. Min({fatSectorNum, HeaderSlots}) |-> FatPos + x - 1]]

CountSectors ==
    /\ pc = "layout"
    /\ UNCHANGED <<size, miniFatNum, next, reader>>
    /\ \E c \in SectorCounts(ContentSectors) : difatSectorNum' = c.d /\ fatSectorNum' = c.f
    /\ dirs' = [dirs EXCEPT ![1].start = MiniDataPos', ![1].size = MiniSize * miniFatNum,
                            ![2].start = PackagePos']
    /\ image' = [image EXCEPT !.data = [a \in 0 .. AllSectors' * SectorSize - 1 |-> Zero],
                              !.header = WriteHeader(Header')]
    /\ pc' = "tables"

LastWord(w) == ENDOFCHAIN

\* First word of the e-th chain (an empty entry would still take one word).
ChainBegin(first, lengths) ==
    LET b[e \in 1 .. Len(lengths) + 1] ==
            IF e = 1 THEN first
            ELSE b[e - 1] + (IF lengths[e - 1] = 0 THEN 1 ELSE lengths[e - 1])
    IN  b

\* makeFat: the markers, the chains one after the other, free words.
MakeFat(markers, lengths, words) ==
    LET b == ChainBegin(Len(markers), lengths)
        last == {b[e] - 1 : e \in 2 .. Len(lengths) + 1}
    IN  [w \in 0 .. words - 1 |->
            CASE w < Len(markers) -> markers[w + 1]
              [] w >= Len(markers) /\ w \in last -> LastWord(w)
              [] w >= Len(markers) /\ w \notin last /\ w < b[Len(lengths) + 1] -> w + 1
              [] w >= b[Len(lengths) + 1] -> FREESECT]

\* err1, err2: the table has no room for the chains.
Overflows(markers, lengths, words) ==
    ChainBegin(Len(markers), lengths)[Len(lengths) + 1] > words

TableMarkers ==
    [x \in 1 .. difatSectorNum + fatSectorNum |-> IF x <= difatSectorNum THEN DIFSECT ELSE FATSECT]
FatLengths == <<NumMiniFatSectors, DirSectors, MiniDataSectors, PackageSectors>>
MiniFatLengths == [x \in 1 .. Len(MiniStreams) |-> MinisOf(MiniStreams[x])]

WriteTables ==
    LET fatWords == fatSectorNum * EntriesPerSector
        miniWords == NumMiniFatSectors * EntriesPerSector
    IN  /\ pc = "tables"
        /\ IF \/ Overflows(TableMarkers, FatLengths, fatWords)
              \/ Overflows(<<>>, MiniFatLengths, miniWords)
           THEN pc' = "writer refused" /\ UNCHANGED image
           ELSE /\ image' = [image EXCEPT !.fat = MakeFat(TableMarkers, FatLengths, fatWords),
                                          !.miniFat = MakeFat(<<>>, MiniFatLengths, miniWords)]
                /\ pc' = "directory"
        /\ UNCHANGED <<writer, next, reader>>

\* The entries one after the other; what is left of the last sector stays zero.
WriteDirectory ==
    LET Slot(s, j) == ((s - DirPos) * DirsPerSector) + j
    IN  /\ pc = "directory"
        /\ image' = [image EXCEPT !.directory =
                        [s \in DirPos .. DirPos + DirSectors - 1 |->
                            [j \in 1 .. DirsPerSector |->
                                IF Slot(s, j) <= DirNum THEN WriteEntry(dirs[Slot(s, j)]) ELSE NoEntry]]]
        /\ pc' = "contents"
        /\ UNCHANGED <<writer, next, reader>>

\* Mutations: a start taken for a sector of the mini stream; for a mini sector.
WriteAtSectorAlways(e) == e.start * SectorSize
WriteAtMiniAlways(e) == MiniDataPos * SectorSize + e.start * MiniSize

\* The size alone decides how the start is meant, whatever table it is from.
WriteAt(e) ==
    IF e.size <= Cutoff THEN MiniDataPos * SectorSize + e.start * MiniSize
                        ELSE e.start * SectorSize

\* The round of the loop for one entry; root and storages have no content.
WriteContents ==
    LET e == dirs[next]
    IN  /\ pc = "contents"
        /\ IF DirNames[next] \in Streams
           THEN image' = [image EXCEPT !.data =
                            [a \in DOMAIN image.data |->
                                IF a \in WriteAt(e) .. WriteAt(e) + e.size - 1
                                THEN <<DirNames[next], a - WriteAt(e) + 1>> ELSE image.data[a]]]
           ELSE UNCHANGED image
        /\ IF next < DirNum THEN next' = next + 1 /\ UNCHANGED pc
                            ELSE next' = 1 /\ pc' = "header"
        /\ UNCHANGED <<writer, reader>>
-----------------------------------------------------------------------------
(* CompoundFile *)

Refuse == pc' = "reader refused"

\* What makes the reader refuse the DIFAT (module DifatTable).
ExactFit ==
    /\ difatSectorNum > 0
    /\ fatSectorNum - HeaderSlots = difatSectorNum * (EntriesPerSector - 1)

\* The sectors addExtraDifat appends otherwise.
ExtraDifat(h) ==
    IF h.firstDifatSectorLocation = ENDOFCHAIN THEN << >>
    ELSE [x \in 1 .. fatSectorNum - HeaderSlots |-> FatPos + HeaderSlots + x - 1]

ReadHeader ==
    LET h == ReadHeaderRecord(image.header)
    IN  /\ pc = "header"
        /\ IF ExactFit \/ ~IsHeader(image.header) THEN Refuse /\ UNCHANGED header
           ELSE /\ header' = [f \in DOMAIN h \cup {"difat"} |->
                                IF f = "difat" THEN AddDifat(image.header) \o ExtraDifat(h) ELSE h[f]]
                /\ pc' = "tables to read"
        /\ UNCHANGED <<writer, image, next, fats, miniFats, entries, miniData, loaded>>

\* makeFatIdx: the words of the sectors of a list, one after the other.
TableWord(s, x) ==
    CASE s \in FatPos .. MiniFatPos - 1 -> image.fat[((s - FatPos) * EntriesPerSector) + x]
      [] s = MiniFatPos -> image.miniFat[x]
      [] s \notin FatPos .. MiniFatPos -> Garbled
MakeFatIdx(sectors) ==
    [w \in 0 .. (Len(sectors) * EntriesPerSector) - 1 |->
        TableWord(sectors[(w \div EntriesPerSector) + 1], w % EntriesPerSector)]

\* The chain makeChains has for s in a table whose chains ascend: s must be the
\* first sector of one, and the chain is complete (module FatChains).
HasChain(t, s) ==
    /\ s \in DOMAIN t
    /\ t[s] \notin {FREESECT, FATSECT, DIFSECT}
    /\ \A u \in DOMAIN t : t[u] # s
Chain(t, s) ==
    LET c[x \in DOMAIN t] ==
            IF t[x] \in DOMAIN t /\ t[x] > x THEN <<x>> \o c[t[x]] ELSE <<x>>
    IN  c[s]

\* load: the blocks of the chain one after the other, cut to the size.
BlocksHold(chain, block, bytes) == Len(chain) * block >= bytes
Load(source, chain, block, bytes) ==
    [o \in 1 .. bytes |-> source[(chain[((o - 1) \div block) + 1] * block) + ((o - 1) % block)]]

\* dataSize / sectorSize: the header counts as a sector.
SectorsOfFile == Cardinality(DOMAIN image.data) \div SectorSize + 1

ReadFat ==
    /\ pc = "tables to read"
    /\ IF header.majorVersion # 3 \/ header.firstDirectorySectorLocation >= SectorsOfFile
       THEN Refuse /\ UNCHANGED fats
       ELSE fats' = MakeFatIdx(header.difat) /\ pc' = "mini fat"
    /\ UNCHANGED <<writer, image, next, header, miniFats, entries, miniData, loaded>>

ReadMiniFat ==
    LET sectors == Chain(fats, header.firstMiniFatSectorLocation)
    IN  /\ pc = "mini fat"
        /\ IF header.numMiniFatSectors = 0 THEN pc' = "entries" /\ UNCHANGED miniFats
           ELSE IF \/ ~HasChain(fats, header.firstMiniFatSectorLocation)
                   \/ Len(sectors) # header.numMiniFatSectors
                   \/ \E x \in DOMAIN sectors : sectors[x] + 1 >= SectorsOfFile
           THEN Refuse /\ UNCHANGED miniFats
           ELSE miniFats' = MakeFatIdx(sectors) /\ pc' = "entries"
        /\ UNCHANGED <<writer, image, next, header, fats, entries, miniData, loaded>>

\* The j-th slot of a sector of the directory.
SlotAt(s, j) == IF s \in DOMAIN image.directory THEN image.directory[s][j] ELSE NoEntry

\* The entries with a name, of every sector in the directory's chain.
ReadEntries ==
    LET first == header.firstDirectorySectorLocation
        chain == IF HasChain(fats, first) THEN Chain(fats, first) ELSE <<>>
        slots == [x \in 1 .. Len(chain) * DirsPerSector |->
                    SlotAt(chain[((x - 1) \div DirsPerSector) + 1], ((x - 1) % DirsPerSector) + 1)]
        named == Keep(slots, {x \in DOMAIN slots : ReadName(slots[x]) # <<>>})
    IN  /\ pc = "entries"
        /\ IF \E x \in DOMAIN slots : ~IsEntry(slots[x]) THEN Refuse /\ UNCHANGED <<entries, loaded>>
           ELSE /\ entries' = [x \in DOMAIN named |-> ReadEntry(named[x])]
                /\ loaded' = [x \in DOMAIN named |-> <<>>]
                /\ pc' = "streams"
        /\ UNCHANGED <<writer, image, next, tables, miniData>>

NextEntry ==
    IF next < Len(entries) THEN next' = next + 1 /\ UNCHANGED pc
                           ELSE pc' = "done" /\ UNCHANGED next

\* The root entry's stream is the mini stream.
LoadMiniData ==
    LET e == entries[next]
        c == Chain(fats, e.start)
    IN  /\ pc = "streams" /\ e.type = RootStorageObject
        /\ IF ~HasChain(fats, e.start) THEN NextEntry /\ UNCHANGED miniData
           ELSE IF ~BlocksHold(c, SectorSize, e.size) THEN Refuse /\ UNCHANGED <<next, miniData>>
           ELSE /\ miniData' = [o \in 0 .. e.size - 1 |-> Load(image.data, c, SectorSize, e.size)[o + 1]]
                /\ NextEntry
        /\ UNCHANGED <<writer, image, tables, entries, loaded>>

SkipStorage ==
    /\ pc = "streams" /\ entries[next].type \in {StorageObject, Unallocated}
    /\ NextEntry
    /\ UNCHANGED <<writer, image, reader>>

\* Below the cutoff and known to the mini FAT: from the mini stream.
ReadsMini(e) == e.size < Cutoff /\ HasChain(miniFats, e.start)

LoadContent ==
    LET e == entries[next]
        t == IF ReadsMini(e) THEN miniFats ELSE fats
        source == IF ReadsMini(e) THEN miniData ELSE image.data
        block == IF ReadsMini(e) THEN MiniSize ELSE SectorSize
    IN  /\ pc = "streams" /\ e.type = StreamObject
        /\ IF HasChain(t, e.start) /\ BlocksHold(Chain(t, e.start), block, e.size)
           THEN /\ loaded' = [loaded EXCEPT ![next] = Load(source, Chain(t, e.start), block, e.size)]
                /\ NextEntry
           ELSE Refuse /\ UNCHANGED <<loaded, next>>
        /\ UNCHANGED <<writer, image, tables, entries, miniData>>

\* The first entry of that name; without one it throws.
NotFound == << <<"no such stream", 0>> >>
GetContensByName(name) ==
    LET found == {x \in DOMAIN entries : entries[x].name = WideNames[Id(name) + 1]}
    IN  IF found = {} THEN NotFound ELSE loaded[Min(found)]

Stop == pc \in {"done", "writer refused", "reader refused"} /\ UNCHANGED vars

Next ==
    \/ PlaceMiniStreams \/ CountSectors \/ WriteTables \/ WriteDirectory \/ WriteContents
    \/ ReadHeader \/ ReadFat \/ ReadMiniFat \/ ReadEntries \/ LoadMiniData \/ SkipStorage \/ LoadContent \/ Stop
Spec == Init /\ [][Next]_vars
-----------------------------------------------------------------------------
SmallPackage == size[Package] <= Cutoff

\* Every sector of the file is in a table or in exactly one chain, and the FAT
\* calls the sectors past the end of the file free.
Accounted ==
    pc = "contents" =>
        LET fat == image.fat
            firsts == {MiniFatPos, DirPos, MiniDataPos, PackagePos}
            sectors == [p \in firsts |-> Range(Chain(fat, p))]
        IN  /\ \A s \in DOMAIN fat : fat[s] = FREESECT <=> s >= AllSectors
            /\ \A p \in firsts : HasChain(fat, p)
            /\ UNION {sectors[p] : p \in firsts} = MiniFatPos .. AllSectors - 1
            /\ \A p, q \in firsts : p # q => sectors[p] \cap sectors[q] = {}

\* The streams other than the package come back as they were written, however
\* small the package is: the directory's order writes them after it.
OtherStreamsSurvive ==
    pc = "done" => \A s \in Streams \ {Package} : GetContensByName(s) = Content(s)

\* The counts leave makeFat enough room for every table, and the reader refuses
\* a written file only for an exact DIFAT or a small package.
ReaderRefusesOnly == pc = "reader refused" => ExactFit \/ SmallPackage
RefusesOnly == pc # "writer refused" /\ ReaderRefusesOnly

\* test_all.py:28-33: what was encrypted decrypts to the same data.
PackageSurvives == pc = "done" => GetContensByName(Package) = Content(Package)

\* With a package above the cutoff a file is a stream store: the reader hands
\* out either every stream as the writer got it or nothing.
Store == INSTANCE StreamStore WITH
    Contents <- {[s \in Streams |-> ContentOf(d, s)] : d \in Documents},
    Nothing <- Empty,
    stored <- [s \in Streams |-> Content(s)],
    retrieved <- IF pc = "done" THEN [s \in Streams |-> GetContensByName(s)] ELSE Empty
IsStreamStore ==
    /\ ~SmallPackage => Store!Init
    /\ [][~SmallPackage => [Store!Retrieve]_Store!vars]_vars

\* The storages and what the comment of makeDataSpace (make_dataspace.hpp:43-48)
\* puts into each.
Children ==
    [storage \in {Root, "~DataSpaces", "DataSpaceInfo", "TransformInfo", "StrongEncryptionTransform"} |->
        CASE storage = Root -> {Package, "EncryptionInfo", "~DataSpaces"}
          [] storage = "~DataSpaces" -> {"Version", "DataSpaceMap", "DataSpaceInfo", "TransformInfo"}
          [] storage = "DataSpaceInfo" -> {"StrongEncryptionDataSpace"}
          [] storage = "TransformInfo" -> {"StrongEncryptionTransform"}
          [] storage = "StrongEncryptionTransform" -> {"~Primary"}]

\* The order of siblings in the format: the shorter name, then the first
\* character in which the names differ in upper case.
Precedes(m, n) ==
    \/ Len(m) < Len(n)
    \/ /\ Len(m) = Len(n)
       /\ \E x \in 1 .. Len(m) :
            /\ ToUpper(m[x]) < ToUpper(n[x])
            /\ \A y \in 1 .. x - 1 : ToUpper(m[y]) = ToUpper(n[y])

\* Where looking a name up from an entry on ends: a step to the left or right
\* for each comparison, none longer than the directory.
LookUp(from, name) ==
    LET At[steps \in 0 .. DirNum] ==
            [id \in {NOSTREAM} \cup (0 .. DirNum) |->
                IF id + 1 \notin DOMAIN entries \/ steps = 0 THEN NOSTREAM
                ELSE LET e == entries[id + 1]
                     IN  IF e.name = name THEN id
                         ELSE At[steps - 1][IF Precedes(name, e.name) THEN e.left ELSE e.right]]
    IN  At[DirNum][from]

\* The directory is read back as the writer's, and a reader that descends from
\* the root, comparing names, as the format has it and as other programs do
\* (this one searches the whole list and never looks at the siblings), finds
\* each entry in its storage; no red entry has a red sibling below it.
DirectoryIsTree ==
    pc = "done" =>
        /\ entries = dirs
        /\ \A storage \in DOMAIN Children : \A name \in Children[storage] :
                LookUp(entries[Id(storage) + 1].child, WideNames[Id(name) + 1]) = Id(name)
        /\ \A x \in DOMAIN entries : \A id \in {entries[x].left, entries[x].right} \ {NOSTREAM} :
                entries[x].color = Red => entries[id + 1].color = Black
=============================================================================
