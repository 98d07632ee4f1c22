---------------------------- MODULE CipherObject ----------------------------
(***************************************************************************)
(* The object that enciphers and deciphers: crypto::Cipher of              *)
(* cybozu/aes.hpp with AesNi, the instructions of the processor ("ni"), or *)
(* BCryptAes, Windows' bcrypt ("cng").  Whoever uses it gives it pieces of *)
(* any length; what does not fill a cell waits in buf_, or, as a counter's *)
(* stream is not tied to cells, the rest of the last key stream is kept.   *)
(*                                                                         *)
(* A byte is the set of the terms <<name, cell, place>> it is the xor of.  *)
(* Enciphering a cell gives bytes nobody can tell anything of but by       *)
(* deciphering them with the same key: the rounds are module AesRounds'.   *)
(* A cell has CellSize bytes instead of 16, a byte of the counter Radix    *)
(* values instead of 256.                                                  *)
(***************************************************************************)
EXTENDS Integers, SequencesExt

CONSTANTS
    CellSize,       \* blockSize of the cipher
    Radix           \* values of a byte of the counter

ASSUME CellAssumption == CellSize \in Nat \ {0}
ASSUME RadixAssumption == Radix \in Nat \ {0, 1}

VARIABLES
    cipher,         \* the object
    given, made     \* the bytes it was given and made, since setup

cipherVars == <<cipher, given, made>>

Modes == {"CBC", "CTR", "ECB"}

XorCell(x, y) == [j \in DOMAIN x |-> SymDiff(x[j], y[j])]
Cells(bytes) ==
    [c \in 1 .. Len(bytes) \div CellSize |-> SubSeq(bytes, ((c - 1) * CellSize) + 1, c * CellSize)]
AfterCells(bytes) == SubSeq(bytes, ((Len(bytes) \div CellSize) * CellSize) + 1, Len(bytes))

\* The cipher itself, with one key.
Enc(cell) == [j \in 1 .. CellSize |-> {<<"enc", cell, j>>}]
Dec(cell) ==
    LET term == CHOOSE x \in cell[1] : TRUE
        wasMade == cell[1] # {} /\ term[1] = "enc" /\ cell = Enc(term[2])
    IN  [j \in 1 .. CellSize |-> IF wasMade THEN term[2][j] ELSE {<<"dec", cell, j>>}]
-----------------------------------------------------------------------------
NewCipher(mode, build) ==
    [mode |-> mode, build |-> build, enc |-> FALSE, buf |-> << >>,
     iv |-> << >>, ctr |-> << >>, ks |-> << >>, ksPos |-> CellSize]

CipherInit ==
    /\ cipher = NewCipher("CBC", "ni")
    /\ given = << >> /\ made = << >>

\* ECB takes no vector; the others one that is long enough.
IvFits(mode, iv) == mode = "ECB" \/ Len(iv) >= CellSize

\* setup.  The object may have been used before.
SetUpCipher(o, enc, iv) ==
    LET first == SubSeq(iv, 1, CellSize)
        fresh == [o EXCEPT !.enc = enc, !.buf = << >>, !.ksPos = CellSize]
    IN  CASE o.mode = "CBC" -> [fresh EXCEPT !.iv = first]
          [] o.mode = "CTR" -> [fresh EXCEPT !.ctr = first]
          [] OTHER          -> fresh

SetUp(o, enc, iv) ==
    /\ IvFits(o.mode, iv)
    /\ cipher' = SetUpCipher(o, enc, iv)
    /\ given' = << >> /\ made' = << >>

\* Mutation: only the last byte is counted.
IncLast(ctr) == [ctr EXCEPT ![CellSize] = (@ + 1) % Radix]

\* The counter is big endian, and the carry goes on while bytes wrap.
incCtr(ctr) ==
    LET Wraps(j) == \A i \in j .. CellSize : ctr[i] = Radix - 1
    IN  [j \in 1 .. CellSize |->
            IF Wraps(j) THEN 0 ELSE IF j = CellSize \/ Wraps(j + 1) THEN ctr[j] + 1 ELSE ctr[j]]

\* The counter n cells later.
Counter(ctr, n) == LET after[c \in 0 .. n] == IF c = 0 THEN ctr ELSE incCtr(after[c - 1]) IN after[n]

\* processBlocks.  bcrypt chains by itself and writes the next vector to iv_.
Processed(o, cells) ==
    LET n == Len(cells)
        chained[c \in 0 .. n] == IF c = 0 THEN o.iv ELSE Enc(XorCell(cells[c], chained[c - 1]))
        Before(c) == IF c = 1 THEN o.iv ELSE cells[c - 1]
        out == [c \in 1 .. n |-> CASE o.mode = "ECB" /\ o.enc  -> Enc(cells[c])
                                   [] o.mode = "ECB" /\ ~o.enc -> Dec(cells[c])
                                   [] o.mode # "ECB" /\ o.enc  -> chained[c]
                                   [] OTHER -> XorCell(Dec(cells[c]), Before(c))]
    IN  [object |-> IF o.mode = "ECB" \/ n = 0 THEN o
                    ELSE [o EXCEPT !.iv = IF o.enc THEN out[n] ELSE cells[n]],
         out |-> FlattenSeq(out)]

\* update of CBC and ECB: the open cell is filled first.
UpdatedCells(o, bytes) ==
    LET taken == IF o.buf = << >> THEN 0 ELSE Min({CellSize - Len(o.buf), Len(bytes)})
        open == o.buf \o SubSeq(bytes, 1, taken)
        rest == SubSeq(bytes, taken + 1, Len(bytes))
        first == Processed(o, Cells(open))
        others == Processed(first.object, Cells(rest))
    IN  IF open # << >> /\ Len(open) < CellSize THEN [object |-> [o EXCEPT !.buf = open], out |-> << >>]
        ELSE [object |-> [others.object EXCEPT !.buf = AfterCells(rest)], out |-> first.out \o others.out]

\* updateCtr: what is left of the last key stream, whole cells, and the
\* beginning of a new key stream.  bcrypt enciphers the counters 16 at a time.
UpdatedCounter(o, bytes) ==
    LET left == Min({CellSize - o.ksPos, Len(bytes)})
        rest == SubSeq(bytes, left + 1, Len(bytes))
        cells == Len(rest) \div CellSize
        tail == Len(rest) % CellSize
        old == XorCell(SubSeq(bytes, 1, left), SubSeq(o.ks, o.ksPos + 1, o.ksPos + left))
        ks == FlattenSeq([c \in 1 .. cells |-> Enc(Counter(o.ctr, c - 1))])
        last == Enc(Counter(o.ctr, cells))
    IN  [object |-> IF tail = 0 THEN [o EXCEPT !.ksPos = @ + left, !.ctr = Counter(@, cells)]
                    ELSE [o EXCEPT !.ks = last, !.ksPos = tail, !.ctr = Counter(@, cells + 1)],
         out |-> old \o XorCell(rest, ks \o SubSeq(last, 1, tail))]

UpdatedCipher(o, bytes) == IF o.mode = "CTR" THEN UpdatedCounter(o, bytes) ELSE UpdatedCells(o, bytes)

GiveCipher(bytes) ==
    LET updated == UpdatedCipher(cipher, bytes)
    IN  /\ cipher' = updated.object
        /\ made' = made \o updated.out
        /\ given' = given \o bytes

\* finalize: a cell that is still open is lost, and -1 says so.
FinalizeFails(o) == o.mode # "CTR" /\ o.buf # << >>
-----------------------------------------------------------------------------
(* What the modes are (NIST SP 800-38A, 6.1, 6.2 and 6.5), of all the bytes *)
(* at once: cells of CBC and ECB, any number of bytes of CTR.               *)

Number(ctr) ==
    LET value[j \in 0 .. CellSize] == IF j = 0 THEN 0 ELSE (value[j - 1] * Radix) + ctr[j] IN value[CellSize]
Digits(n) ==
    LET shifted[j \in 0 .. CellSize] == IF j = 0 THEN n ELSE shifted[j - 1] \div Radix
    IN  [j \in 1 .. CellSize |-> shifted[CellSize - j] % Radix]

ByTheMode(mode, enc, iv, bytes) ==
    LET cells == Cells(bytes)
        cbc[c \in 0 .. Len(cells)] == IF c = 0 THEN iv ELSE Enc(XorCell(cells[c], cbc[c - 1]))
        stream == [c \in 1 .. Len(cells) + 1 |-> Enc(Digits(Number(iv) + c - 1))]
    IN  CASE mode = "CTR" ->
                [b \in DOMAIN bytes |->
                    SymDiff(bytes[b], stream[((b - 1) \div CellSize) + 1][((b - 1) % CellSize) + 1])]
          [] mode = "ECB" -> FlattenSeq([c \in DOMAIN cells |-> IF enc THEN Enc(cells[c]) ELSE Dec(cells[c])])
          [] mode = "CBC" /\ enc -> FlattenSeq([c \in DOMAIN cells |-> cbc[c]])
          [] OTHER        -> FlattenSeq([c \in DOMAIN cells |->
                                XorCell(Dec(cells[c]), IF c = 1 THEN iv ELSE cells[c - 1])])
=============================================================================
