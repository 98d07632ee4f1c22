---------------------------- MODULE PackageCodec ----------------------------
(***************************************************************************)
(* The EncryptedPackage stream of an Agile file, block by block: EncContent *)
(* and GenerateIntegrityParameter (include/encode.hpp) write it,           *)
(* decodeAgile with VerifyIntegrity, GetEncodedData and DecContent         *)
(* (include/decode.hpp) reads it.                                          *)
(*                                                                         *)
(*   size of the document | block 0 | block 1 | ...                        *)
(*                                                                         *)
(* Both sides cut the padded document into blocks and give each an         *)
(* initialisation vector made of its number; inside a block the cipher     *)
(* chains its cells (CBC): a cell deciphers only after the cell, or the    *)
(* vector, it was enciphered after.  The two sides compute the lengths of  *)
(* the blocks differently, and nothing in the stream says where one ends.  *)
(* The key is the right one: which keys are is module MsocApi's subject.   *)
(***************************************************************************)
EXTENDS CfbWords, Sequences

CONSTANTS
    CellSize,       \* units in a cell of the cipher (16 bytes)
    BlockSize,      \* units in a block (4096 bytes)
    HashSizes,      \* sizes of a digest (20 bytes SHA-1, 64 bytes SHA-512)
    Sizes           \* sizes of the documents that are tried

ASSUME CellAssumption == CellSize \in Nat \ {0}
ASSUME BlockAssumption == BlockSize \in Nat \ {0} /\ BlockSize % CellSize = 0
ASSUME SizesAssumption == Sizes \subseteq Nat /\ HashSizes \subseteq Nat \ {0}

VARIABLES
    size, hashSize,     \* of the document and of a digest
    package,            \* the stream: the size in front and the enciphered cells
    hmac,               \* encryptedHmacKey and encryptedHmacValue
    i,                  \* number of the block, in both loops
    decData,            \* what the reader has deciphered
    warned,             \* "mac err : data may be broken"
    pc

vars == <<size, hashSize, package, hmac, i, decData, warned, pc>>

RoundUp(n, block) == BlockNum(n, block) * block

\* A unit of the document is known by its offset; resize fills up with zeros.
Unit(a) == <<"document", a>>
Zero == <<"zero", 0>>
Noise == <<"noise", 0>>

Resize(data, n) == [a \in 1 .. n |-> IF a <= Len(data) THEN data[a] ELSE Zero]

Document == [a \in 1 .. size |-> Unit(a)]
-----------------------------------------------------------------------------
(* cipher (include/crypto_util.hpp).  A cell holds its text and what it was *)
(* enciphered after: the vector, for the first of a run, or the cell before. *)

CellNum(n) == BlockNum(n, CellSize)

\* An incomplete last cell is filled up with zeros: more comes out than went in.
Encipher(text, iv) ==
    LET full == Resize(text, RoundUp(Len(text), CellSize))
    IN  [c \in 1 .. CellNum(Len(text)) |->
            [text |-> SubSeq(full, (c - 1) * CellSize + 1, c * CellSize),
             after |-> [iv |-> iv, cell |-> c]]]

After(cells, c, iv) ==
    IF c = 1 THEN [iv |-> iv, cell |-> 1] ELSE [cells[c - 1].after EXCEPT !.cell = @ + 1]
Decipher(cells, iv) ==
    [a \in 1 .. Len(cells) * CellSize |->
        LET c == ((a - 1) \div CellSize) + 1
        IN  IF cells[c].after = After(cells, c, iv) THEN cells[c].text[((a - 1) % CellSize) + 1]
            ELSE Noise]

\* generateKey, generateIv: the vectors of different block keys differ.
BlockIv(k) == <<"block", k>>
Integrity1 == <<"blkKey_dataIntegrity1", 0>>
Integrity2 == <<"blkKey_dataIntegrity2", 0>>

\* A digest determines what it was made of.
Hmac(salt, stream) == [a \in 1 .. hashSize |-> <<"hmac", a, salt, stream>>]
Salt == [a \in 1 .. hashSize |-> <<"salt", a>>]
-----------------------------------------------------------------------------
Init ==
    /\ size \in Sizes /\ hashSize \in HashSizes
    /\ package = [size |-> size, cells |-> << >>]
    /\ hmac = [key |-> << >>, value |-> << >>]
    /\ i = 0
    /\ decData = << >>
    /\ warned = FALSE
    /\ pc = "encode"

(* EncContent: the size in front, then the blocks of the padded document.   *)

DataSize == RoundUp(size, CellSize)

\* Mutation: the incomplete last block is left out.
EncBlocksFloor == DataSize \div BlockSize

EncBlocks == BlockNum(DataSize, BlockSize)
EncLength(k) == IF k < EncBlocks - 1 THEN BlockSize ELSE DataSize - (BlockSize * k)

EncBlock ==
    LET begin == i * BlockSize
        block == SubSeq(Resize(Document, DataSize), begin + 1, begin + EncLength(i))
    IN  /\ pc = "encode" /\ i < EncBlocks
        /\ package' = [package EXCEPT !.cells = @ \o Encipher(block, BlockIv(i))]
        /\ i' = i + 1
        /\ UNCHANGED <<size, hashSize, hmac, decData, warned, pc>>

GenerateIntegrityParameter ==
    /\ pc = "encode" /\ i = EncBlocks
    /\ hmac' = [key |-> Encipher(Salt, Integrity1),
                value |-> Encipher(Hmac(Salt, package), Integrity2)]
    /\ pc' = "verify"
    /\ UNCHANGED <<size, hashSize, package, i, decData, warned>>
-----------------------------------------------------------------------------
(* decodeAgile *)

\* Mutation: what the cipher filled up stays.
HashPartAll(data) == data

\* substr(0, hashSize)
HashPart(data) == Resize(data, hashSize)

\* A mismatch is reported and nothing more.
VerifyIntegrity ==
    LET salt == HashPart(Decipher(hmac.key, Integrity1))
        expected == HashPart(Decipher(hmac.value, Integrity2))
    IN  /\ pc = "verify"
        /\ warned' = (Hmac(salt, package) # expected)
        /\ pc' = "size"
        /\ UNCHANGED <<size, hashSize, package, hmac, i, decData>>

EncSize == Len(package.cells) * CellSize

\* GetEncodedData refuses a stream shorter than the size it starts with.
GetEncodedData ==
    /\ pc = "size"
    /\ pc' = IF EncSize >= package.size THEN "decode" ELSE "refused"
    /\ i' = 0
    /\ UNCHANGED <<size, hashSize, package, hmac, decData, warned>>

\* DecContent
DecBlocks == BlockNum(EncSize, BlockSize)
DecLength(k) == IF BlockSize < EncSize - (k * BlockSize) THEN BlockSize ELSE EncSize - (k * BlockSize)

DecBlock ==
    LET begin == (i * BlockSize) \div CellSize
        block == SubSeq(package.cells, begin + 1, begin + CellNum(DecLength(i)))
    IN  /\ pc = "decode" /\ i < DecBlocks
        /\ decData' = decData \o Decipher(block, BlockIv(i))
        /\ i' = i + 1
        /\ UNCHANGED <<size, hashSize, package, hmac, warned, pc>>

CutToSize ==
    /\ pc = "decode" /\ i = DecBlocks
    /\ decData' = Resize(decData, package.size)
    /\ pc' = "done"
    /\ UNCHANGED <<size, hashSize, package, hmac, i, warned>>

Stop == pc \in {"done", "refused"} /\ UNCHANGED vars

Next ==
    \/ EncBlock \/ GenerateIntegrityParameter
    \/ VerifyIntegrity \/ GetEncodedData \/ DecBlock \/ CutToSize \/ Stop
Spec == Init /\ [][Next]_vars
-----------------------------------------------------------------------------
\* test_all.py:28-33: what was encrypted decrypts to the same data, for every
\* length of the document relative to cells and blocks.
RoundTrip ==
    /\ pc # "refused"
    /\ pc = "done" => decData = Document

\* The warning about broken data is never given of a file this writer made,
\* whether or not a digest fills the cipher's cells.
NoFalseWarning == ~warned
=============================================================================
