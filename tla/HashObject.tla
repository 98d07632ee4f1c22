----------------------------- MODULE HashObject -----------------------------
(***************************************************************************)
(* The object a digest is made with, fed piece by piece: Sha1, Sha256 and  *)
(* Sha512 of cybozu/sha1.hpp and cybozu/sha2.hpp, in the four builds:      *)
(* "portable" computes the rounds itself, the others hand the bytes to     *)
(* OpenSSL, to Apple's CommonCrypto or to Windows' bcrypt.  Of a portable  *)
(* object chain holds the blocks that went through its rounds; of the      *)
(* others buf holds the bytes the library was given.                       *)
(*                                                                         *)
(* A byte is <<kind, value, mask>>: a number (kind 0), the value-th byte   *)
(* of a message, or a byte of a digest; mask is what it was xored with.    *)
(* The callers' buffer for the digest is never too small.                  *)
(***************************************************************************)
EXTENDS Integers, SequencesExt

CONSTANTS
    MaxUpdate,      \* maxUpdateSize_, the bytes handed over at once (2^30)
    Wide            \* a size of bytes is handed over as 32 bits (2^32)

ASSUME MaxUpdateAssumption == MaxUpdate \in Nat \ {0} /\ Wide \in Nat /\ MaxUpdate < Wide

Byte(n) == <<0, n, {}>>
MessageByte(n) == <<1, n, {}>>
DigestByte(id, n) == <<2, (100 * id) + n, {}>>
Unset == <<3, 0, {}>>
Zeros(n) == [k \in 1 .. n |-> Byte(0)]

Masked(bytes, mask) == [k \in DOMAIN bytes |->
    [bytes[k] EXCEPT ![3] = (@ \ mask) \cup (mask \ @)]]

\* Set64bitAsBE and Set32bitAsLE.
BE64(n) ==
    LET shifted[j \in 0 .. 7] == IF j = 0 THEN n ELSE shifted[j - 1] \div 256
    IN  [b \in 1 .. 8 |-> Byte(shifted[8 - b] % 256)]
LE32(n) == [k \in 1 .. 4 |-> Byte((n \div 256^(k - 1)) % 256)]

Names == {"SHA1", "SHA256", "SHA512"}
BlockSize(alg) == IF alg = "SHA512" THEN 128 ELSE 64
MsgLenByte(alg) == IF alg = "SHA512" THEN 16 ELSE 8
OutByteSize(alg) == CASE alg = "SHA1" -> 20 [] alg = "SHA256" -> 32 [] OTHER -> 64

Blocks(bytes, n, size) == [k \in 1 .. n |-> SubSeq(bytes, ((k - 1) * size) + 1, k * size)]
-----------------------------------------------------------------------------
(* What FIPS 180-4 (5.1 and 5.2) says goes through the rounds. *)

FipsBlocks(alg, bytes) ==
    LET size == BlockSize(alg)
        zeros == (-(Len(bytes) + 1 + MsgLenByte(alg))) % size
        padded == bytes \o <<Byte(128)>> \o Zeros(zeros + MsgLenByte(alg) - 8) \o BE64(8 * Len(bytes))
    IN  Blocks(padded, Len(padded) \div size, size)
-----------------------------------------------------------------------------
(* The portable object: roundBuf_ is buf, with n bytes of it taken. *)

IsPortable(o) == o.build = "portable"
TotalSize(o) == (Len(o.chain) * BlockSize(o.alg)) + o.n

Overwritten(buf, at, bytes) ==
    [k \in DOMAIN buf |-> IF k \in at + 1 .. at + Len(bytes) THEN bytes[k - at] ELSE buf[k]]

\* Common::inner_update, and update of Sha1: first the open block is filled.
InnerUpdate(o, bytes) ==
    LET size == BlockSize(o.alg)
        taken == IF o.n = 0 THEN 0 ELSE Min({size - o.n, Len(bytes)})
        filled == Overwritten(o.buf, o.n, SubSeq(bytes, 1, taken))
        rest == SubSeq(bytes, taken + 1, Len(bytes))
        whole == Len(rest) \div size
        tail == SubSeq(rest, (whole * size) + 1, Len(rest))
        full == o.n + taken = size
    IN  [o EXCEPT !.chain = @ \o (IF full THEN <<filled>> ELSE << >>) \o Blocks(rest, whole, size),
                  !.buf = Overwritten(filled, 0, tail),
                  !.n = IF full \/ o.n = 0 THEN Len(tail) ELSE o.n + taken]

\* term: a second block, if the size has no place in the first.
LastBlocks(o) ==
    LET size == BlockSize(o.alg)
        head == SubSeq(o.buf, 1, o.n) \o <<Byte(128)>>
        filled == head \o Zeros(size - o.n - 1)
    IN  IF o.n >= size - MsgLenByte(o.alg)
        THEN <<filled, Zeros(size - 8) \o BE64(8 * TotalSize(o))>>
        ELSE <<SubSeq(filled, 1, size - 8) \o BE64(8 * TotalSize(o))>>

\* term of sha2.hpp works in roundBuf_ itself and leaves n as it was.
PortableDigest(o) ==
    LET chain == o.chain \o LastBlocks(o)
    IN  [chain |-> chain,
         after |-> IF o.alg = "SHA1" THEN [o EXCEPT !.chain = << >>, !.n = 0]
                   ELSE [o EXCEPT !.chain = chain, !.buf = Last(LastBlocks(o))]]
-----------------------------------------------------------------------------
(* The libraries.  A context that gave its digest needs clear before it is *)
(* used again: what else it would digest is unset here.                    *)

\* update of the Apple classes and of BCryptHash.
Pieces(o, bytes) ==
    IF o.build = "openssl" \/ Len(bytes) <= MaxUpdate THEN <<bytes>>
    ELSE Blocks(bytes, (Len(bytes) - 1) \div MaxUpdate, MaxUpdate)
             \o <<SubSeq(bytes, (((Len(bytes) - 1) \div MaxUpdate) * MaxUpdate) + 1, Len(bytes))>>

Absorbed(o, piece) == IF o.build = "openssl" THEN piece ELSE SubSeq(piece, 1, Len(piece) % Wide)

LibraryUpdate(o, bytes) ==
    LET given == FlattenSeq([k \in DOMAIN Pieces(o, bytes) |-> Absorbed(o, Pieces(o, bytes)[k])])
    IN  [o EXCEPT !.buf = (IF o.live THEN @ ELSE <<Unset>>) \o given]

LibraryDigest(o) ==
    [chain |-> FipsBlocks(o.alg, o.buf),
     after |-> [o EXCEPT !.live = FALSE, !.buf = << >>]]
-----------------------------------------------------------------------------
\* clear.  A bcrypt object is made when it is next needed.
Clear(o) ==
    IF IsPortable(o) THEN [o EXCEPT !.chain = << >>, !.n = 0]
    ELSE [o EXCEPT !.buf = << >>, !.live = (o.build # "bcrypt")]

New(alg, build) ==
    Clear([alg |-> alg, build |-> build, chain |-> << >>, n |-> 0, live |-> FALSE,
           buf |-> [k \in 1 .. BlockSize(alg) |-> Unset]])

Update(o, bytes) == IF IsPortable(o) THEN InnerUpdate(o, bytes) ELSE LibraryUpdate(o, bytes)

\* The blocks that were digested, and the object after it.
Digest(o, bytes) ==
    LET u == Update(o, bytes) IN IF IsPortable(o) THEN PortableDigest(u) ELSE LibraryDigest(u)
=============================================================================
