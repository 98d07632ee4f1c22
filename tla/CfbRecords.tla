----------------------------- MODULE CfbRecords -----------------------------
(***************************************************************************)
(* The two records of a compound file with a fixed layout (include/cfb.hpp):*)
(* the header and the entry of the directory.  Writer and reader have a    *)
(* table of positions each, kept by hand.                                  *)
(*                                                                         *)
(* A record is a function of the positions of its bytes.  A byte is        *)
(* <<value, place>>: the value it belongs to and its place in it, so what  *)
(* is read from a wrong position, at a wrong width or after it was partly  *)
(* overwritten is no value.  A table maps a field to <<position, width>>.  *)
(***************************************************************************)
EXTENDS CfbGeometry, Sequences

Garbled == -9           \* what bytes of several values are read as
ZeroByte == <<0, 0>>

\* Which field of a table, if any, the bytes of a record belong to.
FieldsAt(table, bytes) ==
    [a \in 0 .. bytes - 1 |->
        {f \in DOMAIN table : a \in table[f][1] .. table[f][1] + table[f][2] - 1}]
Byte(value, table, f, a) == <<value[f], a - table[f][1]>>

\* Get16bitAsLE, Get32bitAsLE, Get64bitAsLE.
Get(record, pos, width) ==
    LET value == record[pos][1]
    IN  IF \A a \in 0 .. width - 1 : record[pos + a][1] = 0 \/ record[pos + a] = <<value, a>>
        THEN value ELSE Garbled
IsZero(record, pos, bytes) == \A a \in pos .. pos + bytes - 1 : record[a][1] = 0
ReadFields(record, table) == [f \in DOMAIN table |-> Get(record, table[f][1], table[f][2])]

\* A loop over a list that puts the elements at some of its places into another.
Keep(list, places) ==
    LET k[n \in 0 .. Len(list)] ==
            IF n = 0 THEN << >>
            ELSE IF n \in places THEN Append(k[n - 1], list[n]) ELSE k[n - 1]
    IN  k[Len(list)]
-----------------------------------------------------------------------------
(* Header *)

Magic == 2147483647     \* D0 CF 11 E0 A1 B1 1A E1
ByteOrder == 65534
MiniSectorShift == 6
MiniStreamCutoffSize == 4096
DifatBytes == 76        \* where the slots of the DIFAT begin
HeaderBytes == DifatBytes + (4 * HeaderSlots)

NewHeader ==
    [signature |-> Magic, minorVersion |-> 62, majorVersion |-> 3, byteOrder |-> ByteOrder,
     sectorShift |-> 9, miniSectorShift |-> MiniSectorShift, numDirectorySectors |-> 0,
     numFatSectors |-> 0, firstDirectorySectorLocation |-> ENDOFCHAIN,
     transactionSignatureNumber |-> 0, miniStreamCutoffSize |-> MiniStreamCutoffSize,
     firstMiniFatSectorLocation |-> ENDOFCHAIN, numMiniFatSectors |-> 0,
     firstDifatSectorLocation |-> ENDOFCHAIN, numDifatSectors |-> 0, difat |-> << >>]

\* The table of Header::write.
HeaderWritten ==
    [signature |-> <<0, 8>>, minorVersion |-> <<24, 2>>, majorVersion |-> <<26, 2>>,
     byteOrder |-> <<28, 2>>, sectorShift |-> <<30, 2>>, miniSectorShift |-> <<32, 2>>,
     numDirectorySectors |-> <<40, 4>>, numFatSectors |-> <<44, 4>>,
     firstDirectorySectorLocation |-> <<48, 4>>, transactionSignatureNumber |-> <<52, 4>>,
     miniStreamCutoffSize |-> <<56, 4>>, firstMiniFatSectorLocation |-> <<60, 4>>,
     numMiniFatSectors |-> <<64, 4>>, firstDifatSectorLocation |-> <<68, 4>>,
     numDifatSectors |-> <<72, 4>>]
HeaderFieldsAt == FieldsAt(HeaderWritten, DifatBytes)

\* The slot x of the header's DIFAT, those the list does not fill marked free.
SlotWord(h, x) == IF x < Len(h.difat) THEN h.difat[x + 1] ELSE FREESECT

WriteHeader(h) ==
    [a \in 0 .. HeaderBytes - 1 |->
        IF a >= DifatBytes THEN <<SlotWord(h, (a - DifatBytes) \div 4), (a - DifatBytes) % 4>>
        ELSE IF HeaderFieldsAt[a] = {} THEN ZeroByte
        ELSE Byte(h, HeaderWritten, CHOOSE f \in HeaderFieldsAt[a] : TRUE, a)]

\* The table of Header::analyze.
HeaderRead ==
    [signature |-> <<0, 8>>, minorVersion |-> <<24, 2>>, majorVersion |-> <<26, 2>>,
     byteOrder |-> <<28, 2>>, sectorShift |-> <<30, 2>>, miniSectorShift |-> <<32, 2>>,
     numDirectorySectors |-> <<40, 4>>, numFatSectors |-> <<44, 4>>,
     firstDirectorySectorLocation |-> <<48, 4>>, transactionSignatureNumber |-> <<52, 4>>,
     miniStreamCutoffSize |-> <<56, 4>>, firstMiniFatSectorLocation |-> <<60, 4>>,
     numMiniFatSectors |-> <<64, 4>>, firstDifatSectorLocation |-> <<68, 4>>,
     numDifatSectors |-> <<72, 4>>]

\* addDifat: the slots of the header that are not free.
AddDifat(record) ==
    LET slots == [x \in 1 .. HeaderSlots |-> Get(record, DifatBytes + (4 * (x - 1)), 4)]
    IN  Keep(slots, {x \in 1 .. HeaderSlots : slots[x] # FREESECT})
ReadHeaderRecord(record) == ReadFields(record, HeaderRead)

\* What Header::analyze asserts.
IsHeader(record) ==
    LET h == ReadHeaderRecord(record)
    IN  /\ h.signature = Magic
        /\ IsZero(record, 8, 16)
        /\ h.minorVersion \in {62, 59}
        /\ h.byteOrder = ByteOrder
        /\ <<h.majorVersion, h.sectorShift>> \in {<<3, 9>>, <<4, 12>>}
        /\ h.miniSectorShift = MiniSectorShift
        /\ IsZero(record, 34, 6)
        /\ h.majorVersion = 4 \/ h.numDirectorySectors = 0
        /\ h.miniStreamCutoffSize = MiniStreamCutoffSize
-----------------------------------------------------------------------------
(* DirectoryEntry *)

Unallocated == 0
StorageObject == 1
StreamObject == 2
RootStorageObject == 5
Red == 0
Black == 1
NOSTREAM == FREESECT

\* The characters of the names in the order of their codes: "~" stands for 6.
Alphabet == "~ ABCDEFGHIJKLMNOPQRSTUVWXYZabcdefghijklmnopqrstuvwxyz"
ToUtf16(name) ==
    [n \in 1 .. Len(name) |->
        CHOOSE c \in 1 .. Len(Alphabet) : SubSeq(Alphabet, c, c) = SubSeq(name, n, n)]
ToUpper(c) == IF c <= 28 THEN c ELSE c - 26

\* Not 0, "/", ":" or "!", none of which is in the alphabet.
IsValidEntryNameChar(c) == c \in 1 .. Len(Alphabet)
IsValidName(name) == \A n \in DOMAIN name : IsValidEntryNameChar(name[n])
MaxNameLength == 31

\* At most MAXREGSECT, or NOSTREAM.
IsValidId(id) == id >= 0 \/ id = NOSTREAM

\* DirectoryEntry::set throws otherwise.
IsSettable(e) ==
    /\ Len(e.name) <= MaxNameLength /\ IsValidName(e.name)
    /\ IsValidId(e.left) /\ IsValidId(e.right) /\ IsValidId(e.child)

EntryBytes == 128
NameBytes == 64
NameLength(name) == IF name = << >> THEN 0 ELSE 2 * (Len(name) + 1)

\* The positions of DirectoryEntry::write, the name and its length apart.
EntryWritten ==
    [type |-> <<66, 1>>, color |-> <<67, 1>>, left |-> <<68, 4>>, right |-> <<72, 4>>,
     child |-> <<76, 4>>, stateBits |-> <<96, 4>>, creationTime |-> <<100, 8>>,
     modifiedTime |-> <<108, 8>>, start |-> <<116, 4>>, size |-> <<120, 8>>]
EntryFieldsAt == FieldsAt(EntryWritten, EntryBytes)

WriteEntry(e) ==
    [a \in 0 .. EntryBytes - 1 |->
        IF a < NameBytes
        THEN IF a \div 2 < Len(e.name) THEN <<e.name[(a \div 2) + 1], a % 2>> ELSE ZeroByte
        ELSE IF a \in {64, 65} THEN <<NameLength(e.name), a - 64>>
        ELSE IF EntryFieldsAt[a] = {} THEN ZeroByte
        ELSE Byte(e, EntryWritten, CHOOSE f \in EntryFieldsAt[a] : TRUE, a)]

\* A slot of the directory nothing was written to.
NoEntry == [a \in 0 .. EntryBytes - 1 |-> ZeroByte]

\* The positions of DirectoryEntry::analyze.
EntryRead ==
    [type |-> <<66, 1>>, color |-> <<67, 1>>, left |-> <<68, 4>>, right |-> <<72, 4>>,
     child |-> <<76, 4>>, stateBits |-> <<96, 4>>, creationTime |-> <<100, 8>>,
     modifiedTime |-> <<108, 8>>, start |-> <<116, 4>>, size |-> <<120, 8>>]

\* getDirectoryEntryNameLength, getDirectoryEntryName: the final zero is
\* counted.  A length no name has is refused (IsEntry), so it reads as none.
ReadNameLength(record) == Get(record, NameBytes, 2)
IsNameLength(length) == length \in 0 .. 64 /\ length % 2 = 0
ReadName(record) ==
    [n \in 1 .. (ReadNameLength(record) - 2) \div 2 |-> Get(record, 2 * (n - 1), 2)]

ReadEntry(record) ==
    [f \in DOMAIN EntryRead \cup {"name"} |->
        IF f = "name" THEN ReadName(record) ELSE ReadFields(record, EntryRead)[f]]

\* What DirectoryEntry::analyze asserts.
IsEntry(record) ==
    LET e == ReadFields(record, EntryRead)
        length == ReadNameLength(record)
    IN  /\ IsNameLength(length)
        /\ length # 0 => IsValidName(ReadName(record)) /\ Get(record, length - 2, 2) = 0
        /\ e.type \in {Unallocated, StorageObject, StreamObject, RootStorageObject}
        /\ e.color \in {Red, Black}
        /\ IsValidId(e.left) /\ IsValidId(e.right) /\ IsValidId(e.child)
=============================================================================
