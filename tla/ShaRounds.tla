----------------------------- MODULE ShaRounds -----------------------------
(***************************************************************************)
(* The rounds of SHA-1 (cybozu/sha1.hpp) and SHA-256 and SHA-512           *)
(* (cybozu/sha2.hpp) of the build without OpenSSL.  A word is the set of   *)
(* its one bits: xor, and, or are set operations, and a rotation or a sum  *)
(* is what the processor does with the bits.  The two classes of sha2.hpp  *)
(* differ in their word, their rotations and their number of rounds.       *)
(*                                                                         *)
(* The working variables are not moved from round to round: the template   *)
(* round1<i0, ..., i7> names them anew eight times.                        *)
(***************************************************************************)
EXTENDS Integers, Sequences

Bits(n) == {b \in 0 .. 15 : (n \div 2^b) % 2 = 1}

\* A word from its 16 bit pieces, the most significant first.
Word(pieces) ==
    UNION {{b + (16 * (Len(pieces) - k)) : b \in Bits(pieces[k])} : k \in DOMAIN pieces}
Words(seq) == [k \in DOMAIN seq |-> Word(seq[k])]

\* Get32bitAsBE and Get64bitAsBE of the bytes of a block.
BigEndian(bytes) ==
    UNION {{b + (8 * (Len(bytes) - k)) : b \in Bits(bytes[k])} : k \in DOMAIN bytes}

Xor(x, y) == (x \ y) \cup (y \ x)
Rotr(x, s, width) == {(b - s) % width : b \in x}
Rotl(x, s) == {(b + s) % 32 : b \in x}
Shr(x, s) == {b - s : b \in {c \in x : c >= s}}

\* The carries are added until there are none; the last is dropped.
Plus[width \in {32, 64}, x \in SUBSET (0 .. 63), y \in SUBSET (0 .. 63)] ==
    IF y = {} THEN x
    ELSE Plus[width, Xor(x, y), {b + 1 : b \in (x \cap y) \ {width - 1}}]

PlusAll(width, addends) ==
    LET upTo[n \in 0 .. Len(addends)] == IF n = 0 THEN {} ELSE Plus[width, upTo[n - 1], addends[n]]
    IN  upTo[Len(addends)]

\* w_0 to w_15 from the block, the others each from words before it.
Expanded(first, n, NextWord(_)) ==
    LET word[w \in Seq(SUBSET (0 .. 63))] == Append(w, NextWord(w))
        upTo[k \in 16 .. n] == IF k = 16 THEN first ELSE word[upTo[k - 1]]
    IN  upTo[n]

\* The rounds one after the other, from the chained words on.
Rounds(h, n, Round(_, _)) ==
    LET round[i \in Nat, s \in [DOMAIN h -> SUBSET (0 .. 63)]] == Round(i, s)
        after[k \in 0 .. n] == IF k = 0 THEN h ELSE round[k - 1, after[k - 1]]
    IN  after[n]
-----------------------------------------------------------------------------
(* Sha256 and Sha512 *)

Width(alg) == IF alg = "SHA512" THEN 64 ELSE 32
RoundNum(alg) == IF alg = "SHA256" THEN 64 ELSE 80

\* Rotations of e, of a, and of the words 15 and 2 before.
Rotation ==
    [SHA256 |-> [e |-> <<6, 11, 25>>, a |-> <<2, 13, 22>>, w15 |-> <<7, 18, 3>>, w2 |-> <<17, 19, 10>>],
     SHA512 |-> [e |-> <<14, 18, 41>>, a |-> <<28, 34, 39>>, w15 |-> <<1, 8, 7>>, w2 |-> <<19, 61, 6>>]]

kTbl ==
    Words(<<
      <<\h428a, \h2f98, \hd728, \hae22>>, <<\h7137, \h4491, \h23ef, \h65cd>>,
      <<\hb5c0, \hfbcf, \hec4d, \h3b2f>>, <<\he9b5, \hdba5, \h8189, \hdbbc>>,
      <<\h3956, \hc25b, \hf348, \hb538>>, <<\h59f1, \h11f1, \hb605, \hd019>>,
      <<\h923f, \h82a4, \haf19, \h4f9b>>, <<\hab1c, \h5ed5, \hda6d, \h8118>>,
      <<\hd807, \haa98, \ha303, \h0242>>, <<\h1283, \h5b01, \h4570, \h6fbe>>,
      <<\h2431, \h85be, \h4ee4, \hb28c>>, <<\h550c, \h7dc3, \hd5ff, \hb4e2>>,
      <<\h72be, \h5d74, \hf27b, \h896f>>, <<\h80de, \hb1fe, \h3b16, \h96b1>>,
      <<\h9bdc, \h06a7, \h25c7, \h1235>>, <<\hc19b, \hf174, \hcf69, \h2694>>,
      <<\he49b, \h69c1, \h9ef1, \h4ad2>>, <<\hefbe, \h4786, \h384f, \h25e3>>,
      <<\h0fc1, \h9dc6, \h8b8c, \hd5b5>>, <<\h240c, \ha1cc, \h77ac, \h9c65>>,
      <<\h2de9, \h2c6f, \h592b, \h0275>>, <<\h4a74, \h84aa, \h6ea6, \he483>>,
      <<\h5cb0, \ha9dc, \hbd41, \hfbd4>>, <<\h76f9, \h88da, \h8311, \h53b5>>,
      <<\h983e, \h5152, \hee66, \hdfab>>, <<\ha831, \hc66d, \h2db4, \h3210>>,
      <<\hb003, \h27c8, \h98fb, \h213f>>, <<\hbf59, \h7fc7, \hbeef, \h0ee4>>,
      <<\hc6e0, \h0bf3, \h3da8, \h8fc2>>, <<\hd5a7, \h9147, \h930a, \ha725>>,
      <<\h06ca, \h6351, \he003, \h826f>>, <<\h1429, \h2967, \h0a0e, \h6e70>>,
      <<\h27b7, \h0a85, \h46d2, \h2ffc>>, <<\h2e1b, \h2138, \h5c26, \hc926>>,
      <<\h4d2c, \h6dfc, \h5ac4, \h2aed>>, <<\h5338, \h0d13, \h9d95, \hb3df>>,
      <<\h650a, \h7354, \h8baf, \h63de>>, <<\h766a, \h0abb, \h3c77, \hb2a8>>,
      <<\h81c2, \hc92e, \h47ed, \haee6>>, <<\h9272, \h2c85, \h1482, \h353b>>,
      <<\ha2bf, \he8a1, \h4cf1, \h0364>>, <<\ha81a, \h664b, \hbc42, \h3001>>,
      <<\hc24b, \h8b70, \hd0f8, \h9791>>, <<\hc76c, \h51a3, \h0654, \hbe30>>,
      <<\hd192, \he819, \hd6ef, \h5218>>, <<\hd699, \h0624, \h5565, \ha910>>,
      <<\hf40e, \h3585, \h5771, \h202a>>, <<\h106a, \ha070, \h32bb, \hd1b8>>,
      <<\h19a4, \hc116, \hb8d2, \hd0c8>>, <<\h1e37, \h6c08, \h5141, \hab53>>,
      <<\h2748, \h774c, \hdf8e, \heb99>>, <<\h34b0, \hbcb5, \he19b, \h48a8>>,
      <<\h391c, \h0cb3, \hc5c9, \h5a63>>, <<\h4ed8, \haa4a, \he341, \h8acb>>,
      <<\h5b9c, \hca4f, \h7763, \he373>>, <<\h682e, \h6ff3, \hd6b2, \hb8a3>>,
      <<\h748f, \h82ee, \h5def, \hb2fc>>, <<\h78a5, \h636f, \h4317, \h2f60>>,
      <<\h84c8, \h7814, \ha1f0, \hab72>>, <<\h8cc7, \h0208, \h1a64, \h39ec>>,
      <<\h90be, \hfffa, \h2363, \h1e28>>, <<\ha450, \h6ceb, \hde82, \hbde9>>,
      <<\hbef9, \ha3f7, \hb2c6, \h7915>>, <<\hc671, \h78f2, \he372, \h532b>>,
      <<\hca27, \h3ece, \hea26, \h619c>>, <<\hd186, \hb8c7, \h21c0, \hc207>>,
      <<\heada, \h7dd6, \hcde0, \heb1e>>, <<\hf57d, \h4f7f, \hee6e, \hd178>>,
      <<\h06f0, \h67aa, \h7217, \h6fba>>, <<\h0a63, \h7dc5, \ha2c8, \h98a6>>,
      <<\h113f, \h9804, \hbef9, \h0dae>>, <<\h1b71, \h0b35, \h131c, \h471b>>,
      <<\h28db, \h77f5, \h2304, \h7d84>>, <<\h32ca, \hab7b, \h40c7, \h2493>>,
      <<\h3c9e, \hbe0a, \h15c9, \hbebc>>, <<\h431d, \h67c4, \h9c10, \h0d4c>>,
      <<\h4cc5, \hd4be, \hcb3e, \h42b6>>, <<\h597f, \h299c, \hfc65, \h7e2a>>,
      <<\h5fcb, \h6fab, \h3ad6, \hfaec>>, <<\h6c44, \h198c, \h4a47, \h5817>> >>)
hTbl ==
    Words(<<
      <<\h6a09, \he667, \hf3bc, \hc908>>, <<\hbb67, \hae85, \h84ca, \ha73b>>,
      <<\h3c6e, \hf372, \hfe94, \hf82b>>, <<\ha54f, \hf53a, \h5f1d, \h36f1>>,
      <<\h510e, \h527f, \hade6, \h82d1>>, <<\h9b05, \h688c, \h2b3e, \h6c1f>>,
      <<\h1f83, \hd9ab, \hfb41, \hbd6b>>, <<\h5be0, \hcd19, \h137e, \h2179>> >>)

\* The tables of Sha256 hold the upper halves of those of Sha512.
Upper(x) == Shr(x, 32)
K(alg, i) == IF alg = "SHA512" THEN kTbl[i + 1] ELSE Upper(kTbl[i + 1])
H(alg) == [k \in 0 .. 7 |-> IF alg = "SHA512" THEN hTbl[k + 1] ELSE Upper(hTbl[k + 1])]

Rotations(x, r, alg) ==
    Xor(Xor(Rotr(x, r[1], Width(alg)), Rotr(x, r[2], Width(alg))), Rotr(x, r[3], Width(alg)))
Small(x, r, alg) ==
    Xor(Xor(Rotr(x, r[1], Width(alg)), Rotr(x, r[2], Width(alg))), Shr(x, r[3]))

Sha2Word(alg, w) ==
    LET k == Len(w) + 1
    IN  PlusAll(Width(alg), <<w[k - 16], Small(w[k - 15], Rotation[alg].w15, alg),
                            w[k - 7], Small(w[k - 2], Rotation[alg].w2, alg)>>)

\* Mutation: the names do not move on.
NameStays(k, i) == k

\* The place of the k-th of a .. h in the i-th round.
Name(k, i) == (k - i) % 8

Ch(e, f, g) == Xor(g, e \cap Xor(f, g))
Maj(a, b, c) == ((a \cup b) \cap c) \cup (a \cap b)

round1(alg, w, i, s) ==
    LET V(k) == s[Name(k, i)]
        t0 == PlusAll(Width(alg), <<V(7), Rotations(V(4), Rotation[alg].e, alg),
                                  Ch(V(4), V(5), V(6)), K(alg, i), w[i + 1]>>)
        t1 == PlusAll(Width(alg), <<Rotations(V(0), Rotation[alg].a, alg), Maj(V(0), V(1), V(2))>>)
    IN  [s EXCEPT ![Name(3, i)] = Plus[Width(alg), @, t0],
                  ![Name(7, i)] = Plus[Width(alg), t0, t1]]

Sha2Block(alg, w, h) ==
    LET all == Expanded(w, RoundNum(alg), LAMBDA v : Sha2Word(alg, v))
        s == Rounds(h, RoundNum(alg), LAMBDA i, v : round1(alg, all, i, v))
    IN  [k \in 0 .. 7 |-> Plus[Width(alg), h[k], s[k]]]
-----------------------------------------------------------------------------
(* Sha1 *)

Sha1K == Words(<< <<\h5a82, \h7999>>, <<\h6ed9, \heba1>>, <<\h8f1b, \hbcdc>>, <<\hca62, \hc1d6>> >>)
Sha1Tbl ==
    Words(<< <<\h6745, \h2301>>, <<\hefcd, \hab89>>, <<\h98ba, \hdcfe>>, <<\h1032, \h5476>>,
             <<\hc3d2, \he1f0>> >>)
Sha1H == [k \in 0 .. 4 |-> Sha1Tbl[k + 1]]

f(t, b, c, d) ==
    CASE t < 20       -> (b \cap c) \cup (d \ b)
      [] t \in 40 .. 59 -> (b \cap c) \cup (b \cap d) \cup (c \cap d)
      [] OTHER        -> Xor(Xor(b, c), d)

Sha1Word(w) ==
    LET k == Len(w) + 1 IN Rotl(Xor(Xor(w[k - 3], w[k - 8]), Xor(w[k - 14], w[k - 16])), 1)

Sha1Round(w, i, s) ==
    LET tmp == PlusAll(32, <<Rotl(s[0], 5), f(i, s[1], s[2], s[3]), s[4], w[i + 1],
                           Sha1K[(i \div 20) + 1]>>)
    IN  [k \in 0 .. 4 |-> CASE k = 0 -> tmp
                            [] k = 2 -> Rotl(s[1], 30)
                            [] OTHER -> s[k - 1]]

Sha1Block(w, h) ==
    LET all == Expanded(w, 80, Sha1Word)
        s == Rounds(h, 80, LAMBDA i, v : Sha1Round(all, i, v))
    IN  [k \in 0 .. 4 |-> Plus[32, h[k], s[k]]]
-----------------------------------------------------------------------------
WordBytes(alg) == Width(alg) \div 8

\* round of a block of bytes.
RoundOf(alg, h, block) ==
    LET w == [k \in 1 .. 16 |-> BigEndian(SubSeq(block, ((k - 1) * WordBytes(alg)) + 1, k * WordBytes(alg)))]
    IN  IF alg = "SHA1" THEN Sha1Block(w, h) ELSE Sha2Block(alg, w, h)

\* What digest writes after the blocks of chain.
DigestWords(alg, chain) ==
    LET start == IF alg = "SHA1" THEN Sha1H ELSE H(alg)
        after[n \in 0 .. Len(chain)] ==
            IF n = 0 THEN start ELSE RoundOf(alg, after[n - 1], chain[n])
    IN  [k \in 1 .. IF alg = "SHA1" THEN 5 ELSE 8 |-> after[Len(chain)][k - 1]]
=============================================================================
