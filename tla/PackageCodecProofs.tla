------------------------- MODULE PackageCodecProofs -------------------------
(***************************************************************************)
(* The EncryptedPackage stream for every size of a document, a cell, a     *)
(* block and a digest: what was enciphered comes back, and the digest is   *)
(* never missed.                                                           *)
(*                                                                         *)
(* The codec's sequences are taken for functions on 1 .. n (IsSeq): what   *)
(* the operators on sequences do with those is in the first lemmas.        *)
(***************************************************************************)
EXTENDS PackageCodec, SequenceTheorems, TLAPS

IsSeq(s, n) == s = [a \in 1 .. n |-> s[a]]
-----------------------------------------------------------------------------
(* Sequences *)

LEMMA SeqFacts ==
    ASSUME NEW n \in Nat, NEW s, IsSeq(s, n)
    PROVE  Len(s) = n /\ DOMAIN s = 1 .. n /\ s \in Seq({s[a] : a \in 1 .. n})
  BY DEF IsSeq

LEMMA SameSeq ==
    ASSUME NEW n \in Nat, NEW s, IsSeq(s, n), NEW t, IsSeq(t, n),
           \A a \in 1 .. n : s[a] = t[a]
    PROVE  s = t
  BY DEF IsSeq

IsConcat(r, s, m, t, n) ==
    /\ IsSeq(r, m + n)
    /\ \A a \in 1 .. m + n : r[a] = IF a <= m THEN s[a] ELSE t[a - m]

LEMMA ConcatFacts ==
    ASSUME NEW m \in Nat, NEW n \in Nat, NEW s, NEW t, IsSeq(s, m), IsSeq(t, n)
    PROVE  IsConcat(s \o t, s, m, t, n)
  <1> DEFINE S == {s[a] : a \in 1 .. m} \cup {t[a] : a \in 1 .. n}
  <1>1. Len(s) = m /\ s \in Seq({s[a] : a \in 1 .. m})
    BY SeqFacts
  <1>2. Len(t) = n /\ t \in Seq({t[a] : a \in 1 .. n})
    BY SeqFacts
  <1>3. s \in Seq(S) /\ t \in Seq(S)
    BY <1>1, <1>2, SeqMonotonic
  <1> HIDE DEF S
  <1>4. /\ s \o t \in Seq(S)
        /\ Len(s \o t) = m + n
        /\ \A a \in 1 .. m + n : (s \o t)[a] = IF a <= m THEN s[a] ELSE t[a - m]
    BY <1>1, <1>2, <1>3, ConcatProperties
  <1>5. s \o t \in [1 .. m + n -> S]
    BY <1>4, LenProperties
  <1>6. IsSeq(s \o t, m + n)
    BY <1>5 DEF IsSeq
  <1> QED
    BY <1>4, <1>6 DEF IsConcat

LEMMA SubSeqFacts ==
    ASSUME NEW n \in Nat, NEW s, IsSeq(s, n), NEW b \in Nat, NEW l \in Nat, b + l <= n
    PROVE  /\ IsSeq(SubSeq(s, b + 1, b + l), l)
           /\ \A a \in 1 .. l : SubSeq(s, b + 1, b + l)[a] = s[b + a]
  <1>1. SubSeq(s, b + 1, b + l) = [a \in 1 .. (b + l) - (b + 1) + 1 |-> s[(b + 1) + a - 1]]
    BY SMT
  <1>2. (b + l) - (b + 1) + 1 = l
    OBVIOUS
  <1>3. SubSeq(s, b + 1, b + l) = [a \in 1 .. l |-> s[(b + 1) + a - 1]]
    BY <1>1, <1>2
  <1>4. \A a \in 1 .. l : (b + 1) + a - 1 = b + a
    OBVIOUS
  <1> QED
    BY <1>3, <1>4 DEF IsSeq

LEMMA ResizeFacts ==
    ASSUME NEW m \in Nat, NEW n \in Nat, NEW s, IsSeq(s, m)
    PROVE  /\ IsSeq(Resize(s, n), n)
           /\ \A a \in 1 .. n : Resize(s, n)[a] = IF a <= m THEN s[a] ELSE Zero
           /\ m <= n => Resize(Resize(s, n), m) = s
           /\ Resize(s, m) = s
  <1>1. Len(s) = m
    BY SeqFacts
  <1>2. \A x \in Nat : IsSeq(Resize(s, x), x) /\ \A a \in 1 .. x : Resize(s, x)[a] = IF a <= m THEN s[a] ELSE Zero
    BY <1>1 DEF Resize, IsSeq
  <1>3. Resize(s, m) = s
    BY <1>2, SameSeq
  <1>4. ASSUME m <= n PROVE Resize(Resize(s, n), m) = s
    <2>1. Len(Resize(s, n)) = n
      BY <1>2, SeqFacts
    <2>2. IsSeq(Resize(Resize(s, n), m), m)
      BY DEF Resize, IsSeq
    <2>3. \A a \in 1 .. m : Resize(Resize(s, n), m)[a] = s[a]
      <3>1. \A a \in 1 .. m : Resize(Resize(s, n), m)[a] = Resize(s, n)[a]
        BY <1>4, <2>1 DEF Resize
      <3> QED
        BY <1>2, <1>4, <3>1
    <2> QED
      BY <2>2, <2>3, SameSeq
  <1> QED
    BY <1>2, <1>3, <1>4
-----------------------------------------------------------------------------
(* Cells and blocks *)

LEMMA DivMod ==
    ASSUME NEW n \in Nat, NEW b \in Nat, b > 0
    PROVE  /\ n \div b \in Nat /\ n % b \in Nat /\ n % b < b
           /\ n = ((n \div b) * b) + (n % b)
  OBVIOUS

LEMMA Times ==
    ASSUME NEW s \in Nat, NEW t \in Nat, NEW b \in Nat
    PROVE  /\ s * b \in Nat
           /\ (s + 1) * b = s * b + b
           /\ s < t => s * b + b <= t * b
  <1>1. s * b \in Nat /\ (s + 1) * b = s * b + b
    OBVIOUS
  <1>2. ASSUME s < t PROVE (s + 1) * b <= t * b
    <2>1. s + 1 <= t
      BY <1>2
    <2> QED
      BY <2>1
  <1> QED
    BY <1>1, <1>2

\* getBlockNum rounds up.
LEMMA BlockNumFacts ==
    ASSUME NEW n \in Nat, NEW b \in Nat, b > 0
    PROVE  /\ BlockNum(n, b) \in Nat /\ BlockNum(n, b) * b \in Nat
           /\ n <= BlockNum(n, b) * b
           /\ BlockNum(n, b) * b < n + b
  <1>1. n + b - 1 \in Nat
    OBVIOUS
  <1> DEFINE q == (n + b - 1) \div b
  <1>2. q \in Nat /\ (n + b - 1) % b \in Nat /\ (n + b - 1) % b < b /\ n + b - 1 = (q * b) + ((n + b - 1) % b)
    BY <1>1, DivMod
  <1>3. q = BlockNum(n, b)
    BY DEF BlockNum
  <1> HIDE DEF q
  <1>4. q * b \in Nat
    BY <1>2, Times
  <1> QED
    BY <1>2, <1>3, <1>4

LEMMA ExactBlockNum ==
    ASSUME NEW q \in Nat, NEW b \in Nat, b > 0
    PROVE  BlockNum(q * b, b) = q
  <1> DEFINE x == BlockNum(q * b, b)
  <1>1. q * b \in Nat
    BY Times
  <1>2. x \in Nat /\ x * b \in Nat /\ q * b <= x * b /\ x * b < q * b + b
    BY <1>1, BlockNumFacts
  <1> HIDE DEF x
  <1>3. ~(x < q)
    BY <1>1, <1>2, Times
  <1>4. ~(q < x)
    BY <1>1, <1>2, Times
  <1> QED
    BY <1>2, <1>3, <1>4 DEF x

LEMMA Cell == CellSize \in Nat /\ CellSize > 0
  BY CellAssumption

\* What one cell holds, and what stands behind the a-th unit.
LEMMA EncipherFacts ==
    ASSUME NEW n \in Nat, NEW text, IsSeq(text, n), NEW iv
    PROVE  /\ IsSeq(Encipher(text, iv), CellNum(n))
           /\ \A c \in 1 .. CellNum(n) :
                /\ Encipher(text, iv)[c].after = [iv |-> iv, cell |-> c]
                /\ Encipher(text, iv)[c].text =
                        SubSeq(Resize(text, RoundUp(n, CellSize)), (c - 1) * CellSize + 1, c * CellSize)
  <1>1. Len(text) = n
    BY SeqFacts
  <1> QED
    BY <1>1 DEF Encipher, IsSeq

\* Deciphered after the vector it was enciphered after, a text is itself, with
\* the zeros that filled up its last cell.
LEMMA DecipherEncipher ==
    ASSUME NEW n \in Nat, NEW text, IsSeq(text, n), NEW iv
    PROVE  Decipher(Encipher(text, iv), iv) = Resize(text, RoundUp(n, CellSize))
  <1> DEFINE m == CellNum(n)
             full == Resize(text, RoundUp(n, CellSize))
             cells == Encipher(text, iv)
  <1>1. m \in Nat /\ m * CellSize \in Nat /\ RoundUp(n, CellSize) = m * CellSize
    BY Cell, BlockNumFacts DEF CellNum, RoundUp
  <1>2. IsSeq(full, m * CellSize)
    BY <1>1, ResizeFacts
  <1>3. /\ IsSeq(cells, m)
        /\ \A c \in 1 .. m :
             /\ cells[c].after = [iv |-> iv, cell |-> c]
             /\ cells[c].text = SubSeq(full, (c - 1) * CellSize + 1, c * CellSize)
    BY EncipherFacts
  <1>4. Len(cells) = m
    BY <1>1, <1>3, SeqFacts
  <1> HIDE DEF m, full, cells
  <1>5. \A c \in 1 .. m : After(cells, c, iv) = [iv |-> iv, cell |-> c]
    <2> SUFFICES ASSUME NEW c \in 1 .. m PROVE After(cells, c, iv) = [iv |-> iv, cell |-> c]
      OBVIOUS
    <2>1. CASE c = 1
      BY <2>1 DEF After
    <2>2. CASE c # 1
      <3>1. c - 1 \in 1 .. m /\ (c - 1) + 1 = c
        BY <1>1, <2>2
      <3>2. cells[c - 1].after = [iv |-> iv, cell |-> c - 1]
        BY <1>3, <3>1
      <3> QED
        BY <2>2, <3>1, <3>2 DEF After
    <2> QED
      BY <2>1, <2>2
  <1>6. ASSUME NEW a \in 1 .. m * CellSize
        PROVE  LET c == ((a - 1) \div CellSize) + 1
               IN  c \in 1 .. m /\ cells[c].text[((a - 1) % CellSize) + 1] = full[a]
    <2> DEFINE d == (a - 1) \div CellSize
               j == (a - 1) % CellSize
    <2>1. a - 1 \in Nat /\ a - 1 < m * CellSize
      BY <1>1
    <2>2. d \in Nat /\ j \in Nat /\ j < CellSize /\ a - 1 = d * CellSize + j
      BY <2>1, Cell, DivMod
    <2> HIDE DEF d, j
    <2>3. d * CellSize \in Nat /\ (d + 1) * CellSize = d * CellSize + CellSize
      BY <2>2, Cell, Times
    <2>4. d < m
      <3>1. CASE m < d
        BY <1>1, <2>1, <2>2, <2>3, <3>1, Cell, Times
      <3>2. CASE m = d
        BY <1>1, <2>1, <2>2, <2>3, <3>2
      <3> QED
        BY <1>1, <2>2, <3>1, <3>2
    <2>5. d * CellSize + CellSize <= m * CellSize
      BY <1>1, <2>2, <2>4, Cell, Times
    <2>6. cells[d + 1].text = SubSeq(full, d * CellSize + 1, d * CellSize + CellSize)
      <3>1. d + 1 \in 1 .. m /\ (d + 1) - 1 = d
        BY <1>1, <2>2, <2>4
      <3> QED
        BY <1>3, <2>3, <3>1
    <2>7. cells[d + 1].text[j + 1] = full[d * CellSize + (j + 1)]
      BY <1>1, <1>2, <2>2, <2>3, <2>5, <2>6, Cell, SubSeqFacts
    <2>8. d * CellSize + (j + 1) = a /\ d + 1 \in 1 .. m
      BY <1>1, <2>2, <2>3, <2>4
    <2> QED
      BY <2>7, <2>8 DEF d, j
  <1>7. IsSeq(Decipher(cells, iv), m * CellSize) /\ \A a \in 1 .. m * CellSize : Decipher(cells, iv)[a] = full[a]
    <2>1. Decipher(cells, iv) = [a \in 1 .. m * CellSize |-> full[a]]
      BY <1>3, <1>4, <1>5, <1>6 DEF Decipher
    <2> QED
      BY <2>1 DEF IsSeq
  <1> QED
    BY <1>1, <1>2, <1>7, SameSeq DEF full, cells
-----------------------------------------------------------------------------
(* The blocks of a document *)

CellsPerBlock == BlockSize \div CellSize
DataCells == CellNum(size)

LEMMA BlockIsCells ==
    /\ CellsPerBlock \in Nat /\ CellsPerBlock > 0
    /\ BlockSize \in Nat /\ BlockSize > 0
    /\ BlockSize = CellsPerBlock * CellSize
  <1>1. BlockSize \in Nat /\ BlockSize > 0 /\ BlockSize % CellSize = 0
    BY BlockAssumption
  <1>2. CellsPerBlock \in Nat /\ BlockSize = (CellsPerBlock * CellSize) + (BlockSize % CellSize)
    BY <1>1, Cell, DivMod DEF CellsPerBlock
  <1>3. CellsPerBlock * CellSize \in Nat
    BY <1>2, Cell, Times
  <1>4. BlockSize = CellsPerBlock * CellSize
    BY <1>1, <1>2, <1>3
  <1>5. CellsPerBlock # 0
    BY <1>1, <1>4, Cell
  <1> QED
    BY <1>1, <1>2, <1>4, <1>5

LEMMA DataFacts ==
    ASSUME size \in Nat
    PROVE  /\ DataCells \in Nat /\ DataSize \in Nat /\ DataSize = DataCells * CellSize
           /\ size <= DataSize
           /\ EncBlocks \in Nat /\ EncBlocks * BlockSize \in Nat
           /\ DataSize <= EncBlocks * BlockSize
           /\ EncBlocks * BlockSize < DataSize + BlockSize
  <1>1. DataCells \in Nat /\ DataSize \in Nat /\ DataSize = DataCells * CellSize /\ size <= DataSize
    BY Cell, BlockNumFacts DEF DataCells, CellNum, DataSize, RoundUp
  <1>2. /\ EncBlocks \in Nat /\ EncBlocks * BlockSize \in Nat
        /\ DataSize <= EncBlocks * BlockSize
        /\ EncBlocks * BlockSize < DataSize + BlockSize
    BY <1>1, BlockIsCells, BlockNumFacts DEF EncBlocks
  <1> QED
    BY <1>1, <1>2

\* Block k: where it begins, how long it is, and that both sides say so.
LEMMA BlockFacts ==
    ASSUME size \in Nat, NEW k \in Nat, k < EncBlocks
    PROVE  /\ k * BlockSize \in Nat /\ k * CellsPerBlock \in Nat
           /\ k * BlockSize = (k * CellsPerBlock) * CellSize
           /\ EncLength(k) \in Nat /\ CellNum(EncLength(k)) \in Nat
           /\ EncLength(k) = CellNum(EncLength(k)) * CellSize
           /\ k * BlockSize + EncLength(k) <= DataSize
           /\ k + 1 < EncBlocks =>
                /\ EncLength(k) = BlockSize /\ k * BlockSize + EncLength(k) = (k + 1) * BlockSize
                /\ k * CellsPerBlock + CellNum(EncLength(k)) = (k + 1) * CellsPerBlock
           /\ k + 1 = EncBlocks =>
                /\ k * BlockSize + EncLength(k) = DataSize
                /\ k * CellsPerBlock + CellNum(EncLength(k)) = DataCells
           /\ (IF BlockSize < DataSize - (k * BlockSize) THEN BlockSize ELSE DataSize - (k * BlockSize)) = EncLength(k)
  <1> DEFINE b == k * BlockSize
             p == k * CellsPerBlock
  <1>1. b \in Nat /\ p \in Nat /\ (k + 1) * BlockSize = b + BlockSize /\ (k + 1) * CellsPerBlock = p + CellsPerBlock
    BY BlockIsCells, Times
  <1>2. b = p * CellSize
    <2>1. k * (CellsPerBlock * CellSize) = (k * CellsPerBlock) * CellSize
      BY BlockIsCells, Cell
    <2> QED
      BY <2>1, BlockIsCells
  <1>3. BlockSize * k = b
    BY BlockIsCells
  <1>4. /\ DataCells \in Nat /\ DataSize \in Nat /\ DataSize = DataCells * CellSize
        /\ EncBlocks \in Nat /\ EncBlocks * BlockSize \in Nat
        /\ DataSize <= EncBlocks * BlockSize /\ EncBlocks * BlockSize < DataSize + BlockSize
    BY DataFacts
  <1>5. k < EncBlocks - 1 <=> k + 1 < EncBlocks
    BY <1>4
  <1> HIDE DEF b, p
  <1>6. CASE k + 1 < EncBlocks
    <2>1. EncLength(k) = BlockSize
      BY <1>5, <1>6 DEF EncLength
    <2>2. (k + 1) * BlockSize + BlockSize <= EncBlocks * BlockSize
      <3>1. \A t \in Nat : k + 1 < t => (k + 1) * BlockSize + BlockSize <= t * BlockSize
        BY k + 1 \in Nat, BlockIsCells, Times
      <3> QED
        BY <1>4, <1>6, <3>1
    <2>3. b + BlockSize < DataSize
      BY <1>1, <1>4, <2>2, BlockIsCells
    <2>4. CellNum(BlockSize) = CellsPerBlock
      BY BlockIsCells, Cell, ExactBlockNum DEF CellNum
    <2>5. BlockSize < DataSize - b
      BY <1>1, <1>4, <2>3, BlockIsCells
    <2> QED
      BY <1>1, <1>2, <1>4, <1>6, <2>1, <2>3, <2>4, <2>5, BlockIsCells DEF b, p
  <1>7. CASE k + 1 = EncBlocks
    <2>1. b + BlockSize = EncBlocks * BlockSize
      BY <1>1, <1>7
    <2>2. b < DataSize /\ DataSize <= b + BlockSize
      BY <1>1, <1>4, <2>1, BlockIsCells
    <2>3. EncLength(k) = DataSize - b
      BY <1>3, <1>4, <1>7 DEF EncLength
    <2>4. ~(DataCells < p)
      <3>1. DataCells * CellSize < p * CellSize => FALSE
        BY <1>1, <1>2, <1>4, <2>2
      <3>2. DataCells < p => DataCells * CellSize + CellSize <= p * CellSize
        BY <1>1, <1>4, Cell, Times
      <3> QED
        BY <1>1, <1>2, <1>4, <3>1, <3>2, Cell
    <2>5. DataCells - p \in Nat
      BY <1>1, <1>4, <2>4
    <2>6. (DataCells - p) * CellSize = DataCells * CellSize - p * CellSize
      BY <1>1, <1>4, Cell
    <2>7. EncLength(k) = (DataCells - p) * CellSize
      BY <1>2, <1>4, <2>3, <2>6
    <2>8. CellNum(EncLength(k)) = DataCells - p
      BY <2>5, <2>7, Cell, ExactBlockNum DEF CellNum
    <2>9. EncLength(k) \in Nat /\ b + EncLength(k) = DataSize /\ p + (DataCells - p) = DataCells
      BY <1>1, <1>4, <2>2, <2>3
    <2>10. ~(BlockSize < DataSize - b)
      BY <1>1, <1>4, <2>2, BlockIsCells
    <2> QED
      BY <1>1, <1>2, <1>4, <1>7, <2>3, <2>5, <2>7, <2>8, <2>9, <2>10 DEF b, p
  <1> QED
    BY <1>4, <1>6, <1>7
-----------------------------------------------------------------------------
(* The invariant *)

Padded == Resize(Document, DataSize)
Piece(k) == SubSeq(Padded, k * BlockSize + 1, k * BlockSize + EncLength(k))
PieceCells(k) == Encipher(Piece(k), BlockIv(k))

\* Cells and units of the first n blocks.
CellsOf(n) == IF n = EncBlocks THEN DataCells ELSE n * CellsPerBlock
UnitsOf(n) == IF n = EncBlocks THEN DataSize ELSE n * BlockSize

Types ==
    /\ size \in Nat /\ hashSize \in Nat /\ i \in Nat /\ i <= EncBlocks
    /\ pc \in {"encode", "verify", "size", "decode", "done"}

\* The stream holds the pieces of the document, each enciphered by itself.
Holds(n) ==
    /\ IsSeq(package.cells, CellsOf(n))
    /\ \A k \in Nat : k < n =>
          \A c \in 1 .. CellNum(EncLength(k)) : package.cells[k * CellsPerBlock + c] = PieceCells(k)[c]
Written ==
    /\ package = [size |-> size, cells |-> package.cells]
    /\ Holds(IF pc = "encode" THEN i ELSE EncBlocks)

Guarded ==
    pc = "verify" =>
        hmac = [key |-> Encipher(Salt, Integrity1), value |-> Encipher(Hmac(Salt, package), Integrity2)]

\* The reader has the document up to the block it is at.
Reading ==
    /\ pc \in {"encode", "verify", "size"} => decData = << >>
    /\ pc = "decode" => decData = [a \in 1 .. UnitsOf(i) |-> Padded[a]]
    /\ pc = "done" => decData = Document

IInv == Types /\ Written /\ Guarded /\ NoFalseWarning /\ Reading

LEMMA PieceFacts ==
    ASSUME size \in Nat, NEW k \in Nat, k < EncBlocks
    PROVE  /\ IsSeq(Padded, DataSize)
           /\ IsSeq(Piece(k), EncLength(k))
           /\ \A a \in 1 .. EncLength(k) : Piece(k)[a] = Padded[k * BlockSize + a]
           /\ IsSeq(PieceCells(k), CellNum(EncLength(k)))
           /\ Decipher(PieceCells(k), BlockIv(k)) = Piece(k)
  <1>1. IsSeq(Document, size)
    BY DEF Document, IsSeq
  <1>2. DataSize \in Nat
    BY DataFacts
  <1>3. IsSeq(Padded, DataSize)
    BY <1>1, <1>2, ResizeFacts DEF Padded
  <1>4. /\ k * BlockSize \in Nat /\ EncLength(k) \in Nat /\ k * BlockSize + EncLength(k) <= DataSize
        /\ EncLength(k) = CellNum(EncLength(k)) * CellSize
    BY BlockFacts
  <1>5. /\ IsSeq(Piece(k), EncLength(k))
        /\ \A a \in 1 .. EncLength(k) : Piece(k)[a] = Padded[k * BlockSize + a]
    BY <1>2, <1>3, <1>4, SubSeqFacts DEF Piece
  <1>6. IsSeq(PieceCells(k), CellNum(EncLength(k)))
    BY <1>4, <1>5, EncipherFacts DEF PieceCells
  <1>7. Decipher(PieceCells(k), BlockIv(k)) = Piece(k)
    <2>1. RoundUp(EncLength(k), CellSize) = EncLength(k)
      BY <1>4 DEF RoundUp, CellNum
    <2>2. Decipher(PieceCells(k), BlockIv(k)) = Resize(Piece(k), EncLength(k))
      BY <1>4, <1>5, <2>1, DecipherEncipher DEF PieceCells
    <2> QED
      BY <1>4, <1>5, <2>2, ResizeFacts
  <1> QED
    BY <1>3, <1>5, <1>6, <1>7

LEMMA CountFacts ==
    ASSUME size \in Nat
    PROVE  /\ CellsOf(0) = 0 /\ UnitsOf(0) = 0
           /\ CellsOf(EncBlocks) = DataCells /\ UnitsOf(EncBlocks) = DataSize
           /\ \A n \in Nat : n < EncBlocks =>
                /\ CellsOf(n) = n * CellsPerBlock /\ UnitsOf(n) = n * BlockSize
                /\ CellsOf(n + 1) = n * CellsPerBlock + CellNum(EncLength(n))
                /\ UnitsOf(n + 1) = n * BlockSize + EncLength(n)
  <1>1. /\ DataCells \in Nat /\ DataSize \in Nat /\ DataSize = DataCells * CellSize
        /\ EncBlocks \in Nat /\ DataSize <= EncBlocks * BlockSize
    BY DataFacts
  <1>2. 0 * BlockSize = 0 /\ 0 * CellsPerBlock = 0
    BY BlockIsCells
  <1>3. EncBlocks = 0 => DataSize = 0
    BY <1>1, <1>2
  <1>4. DataSize = 0 => DataCells = 0
    <2>1. DataCells > 0 => 0 * CellSize + CellSize <= DataCells * CellSize
      BY <1>1, Cell, Times
    <2>2. 0 * CellSize = 0
      BY Cell
    <2> QED
      BY <1>1, <2>1, <2>2, Cell
  <1>5. CellsOf(0) = 0 /\ UnitsOf(0) = 0
    BY <1>2, <1>3, <1>4 DEF CellsOf, UnitsOf
  <1>6. ASSUME NEW n \in Nat, n < EncBlocks
        PROVE  /\ CellsOf(n) = n * CellsPerBlock /\ UnitsOf(n) = n * BlockSize
               /\ CellsOf(n + 1) = n * CellsPerBlock + CellNum(EncLength(n))
               /\ UnitsOf(n + 1) = n * BlockSize + EncLength(n)
    <2>1. n # EncBlocks
      BY <1>1, <1>6
    <2>2. CASE n + 1 = EncBlocks
      BY <1>6, <2>1, <2>2, BlockFacts DEF CellsOf, UnitsOf
    <2>3. CASE n + 1 < EncBlocks
      <3>1. n + 1 # EncBlocks
        BY <1>1, <2>3
      <3> QED
        BY <1>6, <2>1, <2>3, <3>1, BlockFacts DEF CellsOf, UnitsOf
    <2> QED
      BY <1>1, <1>6, <2>2, <2>3
  <1> QED
    BY <1>5, <1>6 DEF CellsOf, UnitsOf
-----------------------------------------------------------------------------
(* The invariant holds *)

LEMMA InitIInv == Init => IInv
  <1> SUFFICES ASSUME Init PROVE IInv
    OBVIOUS
  <1>1. size \in Nat /\ hashSize \in Nat
    BY SizesAssumption DEF Init
  <1>2. EncBlocks \in Nat /\ CellsOf(0) = 0
    BY <1>1, DataFacts, CountFacts
  <1>3. package.cells = << >> /\ package = [size |-> size, cells |-> package.cells]
    BY DEF Init
  <1>4. IsSeq(<< >>, 0)
    BY DEF IsSeq
  <1>5. Holds(0)
    BY <1>2, <1>3, <1>4 DEF Holds
  <1> QED
    BY <1>1, <1>2, <1>3, <1>5 DEF Init, IInv, Types, Written, Guarded, NoFalseWarning, Reading

\* The document and the digest's size are the input.
LEMMA Fixed ==
    ASSUME UNCHANGED <<size, hashSize>>
    PROVE  /\ UNCHANGED <<EncBlocks, DataSize, DataCells, Padded, Document, Salt>>
           /\ \A n : UNCHANGED <<CellsOf(n), UnitsOf(n), EncLength(n), Piece(n), PieceCells(n)>>
           /\ \A x, y : Hmac(x, y)' = Hmac(x, y)
  BY DEF EncBlocks, DataSize, DataCells, Padded, Document, Salt, CellsOf, UnitsOf, EncLength, Piece,
         PieceCells, Hmac

\* What is written stays while the stream is not touched.
LEMMA HoldsOn ==
    ASSUME UNCHANGED <<size, hashSize, package>>, NEW n
    PROVE  Holds(n)' <=> Holds(n)
  <1>1. /\ CellsOf(n)' = CellsOf(n)
        /\ \A k : EncLength(k)' = EncLength(k) /\ PieceCells(k)' = PieceCells(k)
    BY Fixed
  <1> QED
    BY <1>1 DEF Holds

LEMMA Stream ==
    ASSUME NEW r, NEW n, NEW x, r = [size |-> n, cells |-> x], NEW y
    PROVE  [r EXCEPT !.cells = y] = [size |-> n, cells |-> y]
  OBVIOUS

LEMMA EncBlockInv ==
    ASSUME IInv, EncBlock
    PROVE  IInv'
  <1>1. /\ size \in Nat /\ i \in Nat /\ i < EncBlocks /\ EncBlocks \in Nat
        /\ Holds(i) /\ package = [size |-> size, cells |-> package.cells]
    BY DataFacts DEF IInv, Types, Written, EncBlock
  <1>2. UNCHANGED <<size, hashSize, hmac, decData, warned, pc>> /\ i' = i + 1 /\ pc = "encode"
    BY DEF EncBlock
  <1>3. /\ EncBlocks' = EncBlocks
        /\ \A n : CellsOf(n)' = CellsOf(n)
        /\ \A n : EncLength(n)' = EncLength(n) /\ PieceCells(n)' = PieceCells(n)
    BY <1>2, Fixed
  <1>4. package' = [size |-> size, cells |-> package.cells \o PieceCells(i)]
    <2>1. package' = [package EXCEPT !.cells = package.cells \o PieceCells(i)]
      BY DEF EncBlock, PieceCells, Piece, Padded
    <2> QED
      BY <1>1, <2>1, Stream
  <1>5. package'.cells = package.cells \o PieceCells(i)
    BY <1>4
  <1> DEFINE p == i * CellsPerBlock
             q == CellNum(EncLength(i))
  <1>6. p \in Nat /\ q \in Nat /\ CellsOf(i) = p /\ CellsOf(i + 1) = p + q
    BY <1>1, BlockFacts, CountFacts
  <1>7. IsSeq(PieceCells(i), q) /\ IsSeq(package.cells, p)
    BY <1>1, <1>6, PieceFacts DEF Holds
  <1> HIDE DEF p, q
  <1>8. /\ IsSeq(package'.cells, p + q)
        /\ \A c \in 1 .. p + q : package'.cells[c] = IF c <= p THEN package.cells[c] ELSE PieceCells(i)[c - p]
    <2>1. IsConcat(package.cells \o PieceCells(i), package.cells, p, PieceCells(i), q)
      BY <1>6, <1>7, ConcatFacts
    <2>2. IsConcat(package'.cells, package.cells, p, PieceCells(i), q)
      BY <1>5, <2>1
    <2> QED
      BY <2>2 DEF IsConcat
  <1>9. ASSUME NEW k \in Nat, k < i + 1, NEW c \in 1 .. CellNum(EncLength(k))
        PROVE  package'.cells[k * CellsPerBlock + c] = PieceCells(k)[c]
    <2>1. k * CellsPerBlock \in Nat /\ CellNum(EncLength(k)) \in Nat
      BY <1>1, <1>9, BlockFacts
    <2>2. CASE k = i
      <3>1. p + c \in 1 .. p + q /\ ~(p + c <= p) /\ (p + c) - p = c
        BY <1>6, <1>9, <2>1, <2>2 DEF q
      <3>2. package'.cells[p + c] = PieceCells(i)[c]
        BY <1>8, <3>1
      <3> QED
        BY <2>2, <3>2 DEF p
    <2>3. CASE k < i
      <3>1. k + 1 < EncBlocks
        BY <1>1, <2>3
      <3>2. k * CellsPerBlock + CellNum(EncLength(k)) = (k + 1) * CellsPerBlock
        BY <1>1, <2>3, <3>1, BlockFacts
      <3>3. k * CellsPerBlock + CellsPerBlock <= p /\ (k + 1) * CellsPerBlock = k * CellsPerBlock + CellsPerBlock
        BY <1>1, <2>3, BlockIsCells, Times DEF p
      <3>4. k * CellsPerBlock + c <= p /\ k * CellsPerBlock + c \in 1 .. p + q
        BY <1>6, <2>1, <3>2, <3>3, BlockIsCells
      <3>5. package'.cells[k * CellsPerBlock + c] = package.cells[k * CellsPerBlock + c]
        BY <1>8, <3>4
      <3> QED
        BY <1>1, <2>3, <3>5 DEF Holds
    <2> QED
      BY <1>1, <1>9, <2>2, <2>3
  <1>10. Holds(i)'
    <2>1. CellsPerBlock' = CellsPerBlock /\ \A k : CellNum(EncLength(k))' = CellNum(EncLength(k))
      BY <1>3 DEF CellsPerBlock, CellNum
    <2>2. IsSeq(package'.cells, CellsOf(i + 1))
      BY <1>6, <1>8
    <2>3. \A k \in Nat : k < i + 1 =>
             \A c \in 1 .. CellNum(EncLength(k)) : package'.cells[k * CellsPerBlock + c] = PieceCells(k)[c]
      BY <1>9
    <2> QED
      BY <1>2, <1>3, <2>1, <2>2, <2>3 DEF Holds, IsSeq
  <1>11. Written'
    <2>1. package' = [size |-> size', cells |-> package'.cells]
      BY <1>2, <1>4, <1>5
    <2> QED
      BY <1>2, <1>10, <2>1 DEF Written
  <1>12. Types' /\ Guarded' /\ NoFalseWarning' /\ Reading'
    BY <1>1, <1>2, <1>3 DEF IInv, Types, Guarded, NoFalseWarning, Reading
  <1> QED
    BY <1>11, <1>12 DEF IInv

LEMMA GenerateInv ==
    ASSUME IInv, GenerateIntegrityParameter
    PROVE  IInv'
  <1>1. /\ size \in Nat /\ hashSize \in Nat /\ EncBlocks \in Nat
        /\ pc = "encode" /\ i = EncBlocks /\ Holds(EncBlocks)
        /\ package = [size |-> size, cells |-> package.cells] /\ decData = << >> /\ ~warned
    BY DataFacts DEF IInv, Types, Written, NoFalseWarning, Reading, GenerateIntegrityParameter
  <1>2. UNCHANGED <<size, hashSize, package, i, decData, warned>> /\ pc' = "verify"
    BY DEF GenerateIntegrityParameter
  <1>3. /\ EncBlocks' = EncBlocks /\ Salt' = Salt
        /\ \A x, y : Hmac(x, y)' = Hmac(x, y)
    BY <1>2, Fixed
  <1>4. Types' /\ NoFalseWarning' /\ Reading'
    BY <1>1, <1>2, <1>3 DEF Types, NoFalseWarning, Reading
  <1>5. Written'
    <2>1. Holds(EncBlocks)'
      BY <1>1, <1>2, <1>3, HoldsOn DEF Holds
    <2> QED
      BY <1>1, <1>2, <2>1 DEF Written
  <1>6. Guarded'
    BY <1>2 DEF Guarded, GenerateIntegrityParameter, Hmac, Salt, Encipher, Resize, CellNum, RoundUp, Integrity1, Integrity2
  <1> QED
    BY <1>4, <1>5, <1>6 DEF IInv

\* A digest loses what filled up its last cell, and is itself again.
LEMMA DigestComesBack ==
    ASSUME hashSize \in Nat, NEW text, IsSeq(text, hashSize), NEW iv
    PROVE  HashPart(Decipher(Encipher(text, iv), iv)) = text
  <1>1. Decipher(Encipher(text, iv), iv) = Resize(text, RoundUp(hashSize, CellSize))
    BY DecipherEncipher
  <1>2. RoundUp(hashSize, CellSize) \in Nat /\ hashSize <= RoundUp(hashSize, CellSize)
    BY Cell, BlockNumFacts DEF RoundUp
  <1> QED
    BY <1>1, <1>2, ResizeFacts DEF HashPart

LEMMA VerifyInv ==
    ASSUME IInv, VerifyIntegrity
    PROVE  IInv'
  <1>1. /\ size \in Nat /\ hashSize \in Nat /\ i \in Nat /\ i <= EncBlocks
        /\ pc = "verify" /\ Written /\ decData = << >>
        /\ hmac = [key |-> Encipher(Salt, Integrity1), value |-> Encipher(Hmac(Salt, package), Integrity2)]
    BY DEF IInv, Types, Guarded, Reading, VerifyIntegrity
  <1>2. UNCHANGED <<size, hashSize, package, hmac, i, decData>> /\ pc' = "size"
    BY DEF VerifyIntegrity
  <1>3. IsSeq(Salt, hashSize) /\ IsSeq(Hmac(Salt, package), hashSize)
    BY DEF IsSeq, Salt, Hmac
  <1>4. HashPart(Decipher(hmac.key, Integrity1)) = Salt
    BY <1>1, <1>3, DigestComesBack
  <1>5. HashPart(Decipher(hmac.value, Integrity2)) = Hmac(Salt, package)
    BY <1>1, <1>3, DigestComesBack
  <1>6. NoFalseWarning'
    <2>1. warned' = (Hmac(HashPart(Decipher(hmac.key, Integrity1)), package)
                        # HashPart(Decipher(hmac.value, Integrity2)))
      BY DEF VerifyIntegrity
    <2> QED
      BY <1>4, <1>5, <2>1 DEF NoFalseWarning
  <1>7. EncBlocks' = EncBlocks
    BY <1>2, Fixed
  <1>8. Written'
    <2>1. Holds(EncBlocks)' <=> Holds(EncBlocks)
      BY <1>2, <1>7, HoldsOn DEF Holds
    <2> QED
      BY <1>1, <1>2, <2>1 DEF Written
  <1> QED
    BY <1>1, <1>2, <1>6, <1>7, <1>8 DEF IInv, Types, Guarded, Reading
-----------------------------------------------------------------------------
(* The reader *)

LEMMA ExactDiv ==
    ASSUME NEW q \in Nat, NEW b \in Nat, b > 0
    PROVE  (q * b) \div b = q
  <1> DEFINE n == q * b
             d == n \div b
  <1>1. n \in Nat
    BY Times
  <1>2. d \in Nat /\ n % b \in Nat /\ n % b < b /\ n = (d * b) + (n % b)
    BY <1>1, DivMod
  <1>3. d * b \in Nat /\ d * b <= q * b /\ q * b < d * b + b
    <2>1. n = q * b /\ d * b \in Nat
      BY <1>2, Times
    <2> HIDE DEF n, d
    <2> QED
      BY <1>1, <1>2, <2>1
  <1> HIDE DEF n, d
  <1>4. ~(q < d)
    BY <1>2, <1>3, Times
  <1>5. ~(d < q)
    BY <1>2, <1>3, Times
  <1>6. d = q
    BY <1>2, <1>4, <1>5
  <1> QED
    BY <1>6 DEF d, n

\* The reader finds the stream whole, and counts and cuts it as it was written.
LEMMA WholeStream ==
    ASSUME IInv, pc # "encode"
    PROVE  /\ IsSeq(package.cells, DataCells) /\ package.size = size
           /\ EncSize = DataSize /\ DecBlocks = EncBlocks
           /\ \A k \in Nat : k < EncBlocks => DecLength(k) = EncLength(k)
  <1>1. size \in Nat /\ Holds(EncBlocks) /\ package = [size |-> size, cells |-> package.cells]
    BY DEF IInv, Types, Written
  <1>2. DataCells \in Nat /\ DataSize = DataCells * CellSize /\ CellsOf(EncBlocks) = DataCells
    BY <1>1, DataFacts, CountFacts
  <1>3. IsSeq(package.cells, DataCells)
    BY <1>1, <1>2 DEF Holds
  <1>4. Len(package.cells) = DataCells
    BY <1>2, <1>3, SeqFacts
  <1>5. EncSize = DataSize
    BY <1>2, <1>4 DEF EncSize
  <1>6. DecBlocks = EncBlocks
    BY <1>5 DEF DecBlocks, EncBlocks
  <1>7. ASSUME NEW k \in Nat, k < EncBlocks PROVE DecLength(k) = EncLength(k)
    BY <1>1, <1>5, <1>7, BlockFacts DEF DecLength
  <1> QED
    BY <1>1, <1>3, <1>5, <1>6, <1>7

\* The cells the reader takes for block k are those the writer made of it.
LEMMA BlockRead ==
    ASSUME IInv, pc # "encode", NEW k \in Nat, k < EncBlocks
    PROVE  LET begin == (k * BlockSize) \div CellSize
           IN  SubSeq(package.cells, begin + 1, begin + CellNum(DecLength(k))) = PieceCells(k)
  <1> DEFINE p == k * CellsPerBlock
             q == CellNum(EncLength(k))
  <1>1. size \in Nat /\ Holds(EncBlocks)
    BY DEF IInv, Types, Written
  <1>2. IsSeq(package.cells, DataCells) /\ DecLength(k) = EncLength(k)
    BY WholeStream
  <1>3. /\ p \in Nat /\ q \in Nat /\ k * BlockSize = p * CellSize /\ EncLength(k) = q * CellSize
        /\ k * BlockSize + EncLength(k) <= DataSize
    BY <1>1, BlockFacts
  <1>4. DataCells \in Nat /\ DataSize = DataCells * CellSize
    BY <1>1, DataFacts
  <1>5. \A c \in 1 .. q : package.cells[p + c] = PieceCells(k)[c]
    BY <1>1 DEF Holds
  <1>6. IsSeq(PieceCells(k), q)
    BY <1>1, PieceFacts
  <1>7. (k * BlockSize) \div CellSize = p
    <2>1. (p * CellSize) \div CellSize = p
      BY <1>3, Cell, ExactDiv
    <2> QED
      BY <1>3, <2>1
  <1>8. CellNum(DecLength(k)) = q
    BY <1>2
  <1> HIDE DEF p, q
  <1>9. p + q <= DataCells
    <2>1. (p + q) * CellSize = p * CellSize + q * CellSize
      BY <1>3, Cell
    <2>2. (p + q) * CellSize <= DataCells * CellSize
      BY <1>3, <1>4, <2>1
    <2>3. DataCells < p + q => DataCells * CellSize + CellSize <= (p + q) * CellSize
      BY <1>3, <1>4, Cell, Times
    <2>4. (p + q) * CellSize \in Nat /\ DataCells * CellSize \in Nat
      BY <1>3, <1>4, Cell, Times
    <2> QED
      BY <1>3, <1>4, <2>2, <2>3, <2>4, Cell
  <1>10. /\ IsSeq(SubSeq(package.cells, p + 1, p + q), q)
         /\ \A c \in 1 .. q : SubSeq(package.cells, p + 1, p + q)[c] = package.cells[p + c]
    BY <1>2, <1>3, <1>4, <1>9, SubSeqFacts
  <1>11. SubSeq(package.cells, p + 1, p + q) = PieceCells(k)
    BY <1>3, <1>5, <1>6, <1>10, SameSeq
  <1> QED
    BY <1>7, <1>8, <1>11

LEMMA GetInv ==
    ASSUME IInv, GetEncodedData
    PROVE  IInv'
  <1>1. /\ size \in Nat /\ hashSize \in Nat /\ pc = "size" /\ Written /\ decData = << >> /\ ~warned
    BY DEF IInv, Types, NoFalseWarning, Reading, GetEncodedData
  <1>2. EncSize = DataSize /\ package.size = size
    BY <1>1, WholeStream
  <1>3. size <= DataSize /\ DataSize \in Nat /\ EncBlocks \in Nat /\ UnitsOf(0) = 0
    BY <1>1, DataFacts, CountFacts
  <1>4. pc' = "decode" /\ i' = 0 /\ UNCHANGED <<size, hashSize, package, hmac, decData, warned>>
    BY <1>1, <1>2, <1>3 DEF GetEncodedData
  <1>5. EncBlocks' = EncBlocks /\ \A n : UnitsOf(n)' = UnitsOf(n)
    BY <1>4, Fixed
  <1>6. Types' /\ NoFalseWarning' /\ Guarded'
    BY <1>1, <1>3, <1>4, <1>5 DEF Types, NoFalseWarning, Guarded
  <1>7. Written'
    <2>1. Holds(EncBlocks)' <=> Holds(EncBlocks)
      BY <1>4, <1>5, HoldsOn DEF Holds
    <2> QED
      BY <1>1, <1>4, <2>1 DEF Written
  <1>8. Reading'
    <2>1. UnitsOf(i)' = 0
      BY <1>3, <1>4, <1>5 DEF UnitsOf
    <2>2. decData' = [a \in 1 .. 0 |-> Padded'[a]]
      BY <1>1, <1>4
    <2> QED
      BY <1>4, <2>1, <2>2 DEF Reading
  <1> QED
    BY <1>6, <1>7, <1>8 DEF IInv

LEMMA DecBlockInv ==
    ASSUME IInv, DecBlock
    PROVE  IInv'
  <1>1. /\ size \in Nat /\ hashSize \in Nat /\ i \in Nat /\ pc = "decode" /\ Written /\ ~warned
        /\ decData = [a \in 1 .. UnitsOf(i) |-> Padded[a]]
    BY DEF IInv, Types, NoFalseWarning, Reading, DecBlock
  <1>2. i < EncBlocks
    BY <1>1, WholeStream DEF DecBlock
  <1>3. i' = i + 1 /\ UNCHANGED <<size, hashSize, package, hmac, warned, pc>>
    BY DEF DecBlock
  <1>4. /\ EncBlocks' = EncBlocks /\ Padded' = Padded
        /\ \A n : UnitsOf(n)' = UnitsOf(n)
    BY <1>3, Fixed
  <1> DEFINE p == i * BlockSize
             l == EncLength(i)
  <1>5. p \in Nat /\ l \in Nat /\ UnitsOf(i) = p /\ UnitsOf(i + 1) = p + l
    BY <1>1, <1>2, BlockFacts, CountFacts
  <1>6. IsSeq(Piece(i), l) /\ \A a \in 1 .. l : Piece(i)[a] = Padded[p + a]
    BY <1>1, <1>2, PieceFacts
  <1>7. decData' = decData \o Piece(i)
    <2>1. Decipher(PieceCells(i), BlockIv(i)) = Piece(i)
      BY <1>1, <1>2, PieceFacts
    <2>2. decData' = decData \o Decipher(PieceCells(i), BlockIv(i))
      BY <1>1, <1>2, BlockRead DEF DecBlock
    <2> QED
      BY <2>1, <2>2
  <1> HIDE DEF p, l
  <1>8. IsSeq(decData, p) /\ \A a \in 1 .. p : decData[a] = Padded[a]
    BY <1>1, <1>5 DEF IsSeq
  <1>9. IsConcat(decData', decData, p, Piece(i), l)
    BY <1>5, <1>6, <1>7, <1>8, ConcatFacts
  <1>10. decData' = [a \in 1 .. p + l |-> Padded[a]]
    <2>1. ASSUME NEW a \in 1 .. p + l PROVE decData'[a] = Padded[a]
      <3>1. CASE a <= p
        BY <1>5, <1>8, <1>9, <3>1 DEF IsConcat
      <3>2. CASE ~(a <= p)
        <4>1. a - p \in 1 .. l /\ p + (a - p) = a
          BY <1>5, <3>2
        <4>2. decData'[a] = Piece(i)[a - p]
          BY <1>9, <3>2 DEF IsConcat
        <4> QED
          BY <1>6, <4>1, <4>2
      <3> QED
        BY <3>1, <3>2
    <2> QED
      BY <1>9, <2>1 DEF IsConcat, IsSeq
  <1>11. Reading'
    <2>1. UnitsOf(i)' = p + l
      BY <1>3, <1>4, <1>5 DEF UnitsOf
    <2> QED
      BY <1>1, <1>3, <1>4, <1>10, <2>1 DEF Reading
  <1>12. Types' /\ NoFalseWarning' /\ Guarded'
    <2>1. EncBlocks \in Nat
      BY <1>1, DataFacts
    <2> QED
      BY <1>1, <1>2, <1>3, <1>4, <2>1 DEF Types, NoFalseWarning, Guarded
  <1>13. Written'
    <2>1. Holds(EncBlocks)' <=> Holds(EncBlocks)
      BY <1>3, <1>4, HoldsOn DEF Holds
    <2> QED
      BY <1>1, <1>3, <2>1 DEF Written
  <1> QED
    BY <1>11, <1>12, <1>13 DEF IInv

LEMMA CutInv ==
    ASSUME IInv, CutToSize
    PROVE  IInv'
  <1>1. /\ size \in Nat /\ hashSize \in Nat /\ i \in Nat /\ i <= EncBlocks
        /\ pc = "decode" /\ Written /\ ~warned
        /\ decData = [a \in 1 .. UnitsOf(i) |-> Padded[a]]
    BY DEF IInv, Types, NoFalseWarning, Reading, CutToSize
  <1>2. i = EncBlocks /\ package.size = size
    BY <1>1, WholeStream DEF CutToSize
  <1>3. pc' = "done" /\ UNCHANGED <<size, hashSize, package, hmac, i, warned>>
    BY DEF CutToSize
  <1>4. EncBlocks' = EncBlocks /\ Document' = Document
    BY <1>3, Fixed
  <1>5. decData' = Document
    <2>1. UnitsOf(i) = DataSize /\ DataSize \in Nat /\ size <= DataSize
      BY <1>1, <1>2, CountFacts, DataFacts
    <2>2. IsSeq(Document, size)
      BY DEF Document, IsSeq
    <2>3. IsSeq(Padded, DataSize) /\ Resize(Padded, size) = Document
      BY <1>1, <2>1, <2>2, ResizeFacts DEF Padded
    <2>4. decData = Padded
      BY <1>1, <2>1, <2>3 DEF IsSeq
    <2> QED
      BY <1>2, <2>3, <2>4 DEF CutToSize
  <1>6. Types' /\ NoFalseWarning' /\ Guarded' /\ Reading'
    BY <1>1, <1>3, <1>4, <1>5 DEF Types, NoFalseWarning, Guarded, Reading
  <1>7. Written'
    <2>1. Holds(EncBlocks)' <=> Holds(EncBlocks)
      BY <1>3, <1>4, HoldsOn DEF Holds
    <2> QED
      BY <1>1, <1>3, <2>1 DEF Written
  <1> QED
    BY <1>6, <1>7 DEF IInv

LEMMA StutterInv ==
    ASSUME IInv, UNCHANGED vars
    PROVE  IInv'
  <1>1. UNCHANGED <<size, hashSize, package, hmac, i, decData, warned, pc>>
    BY DEF vars
  <1>2. /\ EncBlocks' = EncBlocks /\ Document' = Document /\ Padded' = Padded /\ Salt' = Salt
        /\ \A n : UnitsOf(n)' = UnitsOf(n)
    BY <1>1, Fixed
  <1>3. Types' /\ NoFalseWarning'
    BY <1>1, <1>2 DEF IInv, Types, NoFalseWarning
  <1>4. Guarded'
    <2>1. Guarded
      BY DEF IInv
    <2>2. Hmac(Salt, package)' = Hmac(Salt, package)
      BY <1>1, <1>2 DEF Hmac
    <2> QED
      BY <1>1, <1>2, <2>1, <2>2 DEF Guarded
  <1>5. Written'
    <2>1. Holds(EncBlocks)' <=> Holds(EncBlocks)
      BY <1>1, <1>2, HoldsOn DEF Holds
    <2>2. Holds(i)' <=> Holds(i)
      BY <1>1, HoldsOn DEF Holds
    <2> QED
      BY <1>1, <2>1, <2>2 DEF IInv, Written
  <1>6. Reading'
    BY <1>1, <1>2 DEF IInv, Reading
  <1> QED
    BY <1>3, <1>4, <1>5, <1>6 DEF IInv

LEMMA NextIInv == IInv /\ [Next]_vars => IInv'
  <1> SUFFICES ASSUME IInv, [Next]_vars PROVE IInv'
    OBVIOUS
  <1>1. CASE EncBlock
    BY <1>1, EncBlockInv
  <1>2. CASE GenerateIntegrityParameter
    BY <1>2, GenerateInv
  <1>3. CASE VerifyIntegrity
    BY <1>3, VerifyInv
  <1>4. CASE GetEncodedData
    BY <1>4, GetInv
  <1>5. CASE DecBlock
    BY <1>5, DecBlockInv
  <1>6. CASE CutToSize
    BY <1>6, CutInv
  <1>7. CASE Stop \/ UNCHANGED vars
    BY <1>7, StutterInv DEF Stop
  <1> QED
    BY <1>1, <1>2, <1>3, <1>4, <1>5, <1>6, <1>7 DEF Next
-----------------------------------------------------------------------------
\* test_all.py:28-33 for every size of a document, a cell, a block and a digest
\* (EncContent, DecContent): what was encrypted is never refused and decrypts
\* to the same data.
THEOREM EncryptedComesBack == Spec => []RoundTrip
  <1>1. IInv => RoundTrip
    BY DEF IInv, Types, Reading, RoundTrip
  <1> QED
    BY <1>1, InitIInv, NextIInv, PTL DEF Spec

\* VerifyIntegrity never warns of a file this writer made, whether or not a
\* digest fills the cipher's cells.
THEOREM WholeIsNotWarnedOf == Spec => []NoFalseWarning
  <1>1. IInv => NoFalseWarning
    BY DEF IInv
  <1> QED
    BY <1>1, InitIInv, NextIInv, PTL DEF Spec
=============================================================================
