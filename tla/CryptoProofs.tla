---------------------------- MODULE CryptoProofs ----------------------------
(***************************************************************************)
(* A digest is that of the bytes it was asked for (DigestOfItsBytes), the  *)
(* provider the threads share is safe to use (AlgSafe), CustomSha1 digests *)
(* the blocks that Hash digests (PathsAgree), a text cut in any way is     *)
(* enciphered as its mode asks for and comes back (CipherIsItsMode), and   *)
(* AES has the round keys of FIPS 197 (KeysAreFips197).                    *)
(*                                                                         *)
(* From the bottom up: sequences and quotients; what the portable object   *)
(* has after a piece (Part: whole blocks went through, the rest is in      *)
(* roundBuf_), and what its last blocks are; the libraries, which get the  *)
(* same bytes in pieces of their own (AbsorbedIsAll); both together        *)
(* (Holds).  The invariant of the threads then says which objects are      *)
(* clear, that hmac's key is RFC 2104's, and of each digest what it is of. *)
(* For CustomSha1: the words of an iteration's block (IterationWords) and  *)
(* their schedule (IsSchedule), of which the slots hold the 16 words a     *)
(* round may still need (Slotted).                                         *)
(*                                                                         *)
(* For Cipher: what went through in CBC and ECB are whole cells, chained   *)
(* from the vector (Passed, InCells), the rest is the open cell; in CTR it *)
(* is the text under the stream of the numbers from the counter on         *)
(* (InStream).  Both together are Made, which the call of cipher and the   *)
(* pieces of a Cipher keep (CipherInv).                                    *)
(*                                                                         *)
(* For AES (KeysAreFips197): the words of FIPS 197 by their recursion      *)
(* (IsWords), of which every register of the expansion holds four in a row *)
(* (RegOf); of a 192 bit key the registers are put together of halves      *)
(* (IsTemps).  A round of deciphering with a converted key undoes one of   *)
(* enciphering (RoundUndone), so that all of them do (Deciphers).          *)
(***************************************************************************)
EXTENDS Crypto, SequenceTheorems, FiniteSetTheorems, WellFoundedInduction, TLAPS

\* A sequence of n elements, of whatever set.
IsSeq(s, n) == s = [a \in 1 .. n |-> s[a]]
-----------------------------------------------------------------------------
(* Sequences *)

LEMMA SeqFacts ==
    ASSUME NEW n \in Nat, NEW s, IsSeq(s, n)
    PROVE  Len(s) = n /\ DOMAIN s = 1 .. n /\ s \in Seq({s[a] : a \in 1 .. n})
  BY DEF IsSeq

LEMMA SameSeq ==
    ASSUME NEW n \in Nat, NEW s, IsSeq(s, n), NEW t, IsSeq(t, n),
           \A a \in 1 .. n : s[a] = t[a]
    PROVE  s = t
  BY DEF IsSeq

IsConcat(r, s, m, t, n) ==
    /\ IsSeq(r, m + n)
    /\ \A a \in 1 .. m + n : r[a] = IF a <= m THEN s[a] ELSE t[a - m]

LEMMA ConcatFacts ==
    ASSUME NEW m \in Nat, NEW n \in Nat, NEW s, NEW t, IsSeq(s, m), IsSeq(t, n)
    PROVE  IsConcat(s \o t, s, m, t, n)
  <1> DEFINE S == {s[a] : a \in 1 .. m} \cup {t[a] : a \in 1 .. n}
  <1>1. Len(s) = m /\ s \in Seq({s[a] : a \in 1 .. m})
    BY SeqFacts
  <1>2. Len(t) = n /\ t \in Seq({t[a] : a \in 1 .. n})
    BY SeqFacts
  <1>3. s \in Seq(S) /\ t \in Seq(S)
    BY <1>1, <1>2, SeqMonotonic
  <1> HIDE DEF S
  <1>4. /\ s \o t \in Seq(S)
        /\ Len(s \o t) = m + n
        /\ \A a \in 1 .. m + n : (s \o t)[a] = IF a <= m THEN s[a] ELSE t[a - m]
    <2>1. /\ s \o t \in Seq(S)
          /\ Len(s \o t) = Len(s) + Len(t)
          /\ \A a \in 1 .. Len(s) + Len(t) : (s \o t)[a] = IF a <= Len(s) THEN s[a] ELSE t[a - Len(s)]
      BY <1>3, ConcatProperties, Zenon
    <2>2. Len(s) = m /\ Len(t) = n
      BY <1>1, <1>2
    <2> QED
      BY <2>1, <2>2, Zenon
  <1>5. s \o t \in [1 .. m + n -> S]
    BY <1>4, LenProperties, Zenon
  <1>6. IsSeq(s \o t, m + n)
    BY <1>5 DEF IsSeq
  <1> QED
    BY <1>4, <1>6 DEF IsConcat

\* A sequence with the elements of a concatenation is that concatenation.
LEMMA ConcatIs ==
    ASSUME NEW m \in Nat, NEW n \in Nat, NEW s, NEW t, IsSeq(s, m), IsSeq(t, n),
           NEW r, IsConcat(r, s, m, t, n)
    PROVE  s \o t = r
  <1> DEFINE x == s \o t
  <1>1. IsConcat(x, s, m, t, n)
    BY ConcatFacts
  <1>2. m + n \in Nat
    OBVIOUS
  <1> HIDE DEF x
  <1>3. x = r
    BY <1>1, <1>2, SameSeq DEF IsConcat
  <1> QED
    BY <1>3 DEF x

LEMMA EmptyIs == IsSeq(<< >>, 0) /\ \A s : IsSeq(s, 0) => s = << >>
  <1>1. IsSeq(<< >>, 0)
    BY DEF IsSeq
  <1>2. ASSUME NEW s, IsSeq(s, 0) PROVE s = << >>
    BY <1>1, <1>2, SameSeq
  <1> QED
    BY <1>1, <1>2

LEMMA ConcatEmpty ==
    ASSUME NEW n \in Nat, NEW s, IsSeq(s, n)
    PROVE  s \o << >> = s /\ << >> \o s = s
  <1>1. IsConcat(s, s, n, << >>, 0) /\ IsConcat(s, << >>, 0, s, n)
    BY DEF IsConcat
  <1> QED
    BY <1>1, EmptyIs, ConcatIs

Associates(s, t, u) == (s \o t) \o u = s \o (t \o u)

LEMMA ConcatAssoc ==
    ASSUME NEW m \in Nat, NEW n \in Nat, NEW p \in Nat, NEW s, NEW t, NEW u,
           IsSeq(s, m), IsSeq(t, n), IsSeq(u, p)
    PROVE  Associates(s, t, u)
  <1> DEFINE x == s \o t
             y == t \o u
             l == x \o u
             r == s \o y
  <1>1. IsConcat(x, s, m, t, n) /\ IsConcat(y, t, n, u, p)
    BY ConcatFacts
  <1> HIDE DEF x, y
  <1>2. IsSeq(x, m + n) /\ IsSeq(y, n + p) /\ m + n \in Nat /\ n + p \in Nat
    BY <1>1 DEF IsConcat
  <1>3. IsConcat(l, x, m + n, u, p) /\ IsConcat(r, s, m, y, n + p)
    BY <1>2, ConcatFacts
  <1> HIDE DEF l, r
  <1>4. (m + n) + p = m + (n + p) /\ m + (n + p) \in Nat
    OBVIOUS
  <1>5. ASSUME NEW a \in 1 .. m + (n + p) PROVE l[a] = r[a]
    BY <1>1, <1>3, <1>4 DEF IsConcat
  <1>6. l = r
    BY <1>3, <1>4, <1>5, SameSeq DEF IsConcat
  <1> QED
    BY <1>6 DEF l, r, x, y, Associates

LEMMA SubSeqFacts ==
    ASSUME NEW n \in Nat, NEW s, IsSeq(s, n), NEW b \in Nat, NEW l \in Nat, b + l <= n
    PROVE  /\ IsSeq(SubSeq(s, b + 1, b + l), l)
           /\ \A a \in 1 .. l : SubSeq(s, b + 1, b + l)[a] = s[b + a]
  <1>1. SubSeq(s, b + 1, b + l) = [a \in 1 .. (b + l) - (b + 1) + 1 |-> s[(b + 1) + a - 1]]
    BY SMT
  <1>2. (b + l) - (b + 1) + 1 = l
    OBVIOUS
  <1>3. SubSeq(s, b + 1, b + l) = [a \in 1 .. l |-> s[(b + 1) + a - 1]]
    BY <1>1, <1>2
  <1>4. \A a \in 1 .. l : (b + 1) + a - 1 = b + a
    OBVIOUS
  <1> QED
    BY <1>3, <1>4 DEF IsSeq

IsHead(t, s, l) == IsSeq(t, l) /\ \A a \in 1 .. l : t[a] = s[a]

LEMMA HeadFacts ==
    ASSUME NEW n \in Nat, NEW s, IsSeq(s, n), NEW l \in Nat, l <= n
    PROVE  IsHead(SubSeq(s, 1, l), s, l)
  <1>1. IsSeq(SubSeq(s, 0 + 1, 0 + l), l) /\ \A a \in 1 .. l : SubSeq(s, 0 + 1, 0 + l)[a] = s[0 + a]
    BY SubSeqFacts
  <1>2. 0 + 1 = 1 /\ 0 + l = l /\ \A a \in 1 .. l : 0 + a = a
    OBVIOUS
  <1> QED
    BY <1>1, <1>2 DEF IsHead
-----------------------------------------------------------------------------
(* Numbers *)

LEMMA DivMod ==
    ASSUME NEW n \in Nat, NEW b \in Nat, b > 0
    PROVE  /\ n \div b \in Nat /\ n % b \in Nat /\ n % b < b
           /\ n = ((n \div b) * b) + (n % b)
  OBVIOUS

LEMMA Times ==
    ASSUME NEW s \in Nat, NEW t \in Nat, NEW b \in Nat
    PROVE  /\ s * b \in Nat
           /\ (s + 1) * b = s * b + b
           /\ (s + t) * b = s * b + t * b
           /\ s < t => s * b + b <= t * b
  <1>1. s * b \in Nat /\ (s + 1) * b = s * b + b /\ (s + t) * b = s * b + t * b
    OBVIOUS
  <1>2. ASSUME s < t PROVE (s + 1) * b <= t * b
    <2>1. s + 1 <= t
      BY <1>2
    <2> QED
      BY <2>1
  <1> QED
    BY <1>1, <1>2

\* A quotient and a remainder are the quotient and the remainder.
LEMMA DivModIs ==
    ASSUME NEW q \in Nat, NEW r \in Nat, NEW b \in Nat, r < b
    PROVE  (q * b + r) \div b = q /\ (q * b + r) % b = r
  <1> DEFINE n == q * b + r
  <1>1. n \in Nat /\ q * b \in Nat
    BY Times
  <1> DEFINE x == n \div b
             y == n % b
  <1>2. x \in Nat /\ y \in Nat /\ y < b /\ n = (x * b) + y
    BY <1>1, DivMod
  <1>3. n = q * b + r
    OBVIOUS
  <1> HIDE DEF n, x, y
  <1>4. x * b \in Nat
    BY <1>2, Times
  <1>5. ~(x < q)
    BY <1>1, <1>2, <1>3, <1>4, Times
  <1>6. ~(q < x)
    BY <1>1, <1>2, <1>3, <1>4, Times
  <1>7. x = q
    BY <1>2, <1>5, <1>6
  <1>8. y = r
    BY <1>1, <1>2, <1>3, <1>7
  <1> QED
    BY <1>7, <1>8 DEF n, x, y
-----------------------------------------------------------------------------
(* Blocks *)

\* The a-th block of g, from 0 on.
Block(g, a, l) == SubSeq(g, (a * l) + 1, (a * l) + l)

LEMMA BlockFacts ==
    ASSUME NEW n \in Nat, NEW g, IsSeq(g, n), NEW a \in Nat, NEW l \in Nat, (a * l) + l <= n
    PROVE  /\ IsSeq(Block(g, a, l), l)
           /\ \A i \in 1 .. l : Block(g, a, l)[i] = g[(a * l) + i]
  <1>1. a * l \in Nat
    BY Times
  <1> QED
    BY <1>1, SubSeqFacts DEF Block

\* A sequence that is a block's length and has its elements.
LEMMA BlockIs ==
    ASSUME NEW n \in Nat, NEW g, IsSeq(g, n), NEW a \in Nat, NEW l \in Nat, (a * l) + l <= n,
           NEW s, IsSeq(s, l), \A i \in 1 .. l : s[i] = g[(a * l) + i]
    PROVE  s = Block(g, a, l)
  BY BlockFacts, SameSeq

LEMMA BlocksFacts ==
    ASSUME NEW g, NEW n \in Nat, NEW l \in Nat
    PROVE  /\ IsSeq(Blocks(g, n, l), n)
           /\ \A a \in Nat : a < n => Blocks(g, n, l)[a + 1] = Block(g, a, l)
  <1>1. IsSeq(Blocks(g, n, l), n) /\ \A a \in 1 .. n : Blocks(g, n, l)[a] = SubSeq(g, ((a - 1) * l) + 1, a * l)
    BY DEF Blocks, IsSeq
  <1>2. ASSUME NEW a \in Nat, a < n PROVE Blocks(g, n, l)[a + 1] = Block(g, a, l)
    <2>1. a + 1 \in 1 .. n /\ (a + 1) - 1 = a /\ (a + 1) * l = (a * l) + l
      BY <1>2, Times
    <2> QED
      BY <1>1, <2>1 DEF Block
  <1> QED
    BY <1>1, <1>2
-----------------------------------------------------------------------------
(* The portable object *)

IsObject(o) ==
    o = [alg |-> o.alg, build |-> o.build, chain |-> o.chain, n |-> o.n, live |-> o.live, buf |-> o.buf]

SameMake(u, o) == u.alg = o.alg /\ u.build = o.build /\ u.live = o.live

LEMMA SizeFacts ==
    ASSUME NEW a \in Names
    PROVE  /\ BlockSize(a) \in Nat /\ MsgLenByte(a) \in Nat
           /\ MsgLenByte(a) >= 8 /\ BlockSize(a) > MsgLenByte(a) + 1
  BY DEF Names, BlockSize, MsgLenByte

\* The object was fed d, of n bytes: q blocks and r bytes of the next one.
Part(o, d, n, q, r) ==
    /\ IsSeq(d, n) /\ q \in Nat /\ r \in Nat /\ r < BlockSize(o.alg)
    /\ n = (q * BlockSize(o.alg)) + r
    /\ o.n = r
    /\ IsSeq(o.chain, q)
    /\ \A a \in Nat : a < q => o.chain[a + 1] = Block(d, a, BlockSize(o.alg))
    /\ IsSeq(o.buf, BlockSize(o.alg))
    /\ \A i \in 1 .. r : o.buf[i] = d[(q * BlockSize(o.alg)) + i]

LEMMA OverwrittenFacts ==
    ASSUME NEW l \in Nat, NEW s, IsSeq(s, l), NEW a \in Nat, NEW m \in Nat, NEW b, IsSeq(b, m), a + m <= l
    PROVE  /\ IsSeq(Overwritten(s, a, b), l)
           /\ \A i \in 1 .. a : Overwritten(s, a, b)[i] = s[i]
           /\ \A i \in 1 .. m : Overwritten(s, a, b)[a + i] = b[i]
  <1>1. Len(b) = m /\ DOMAIN s = 1 .. l
    BY SeqFacts
  <1>2. Overwritten(s, a, b) = [i \in 1 .. l |-> IF i \in a + 1 .. a + m THEN b[i - a] ELSE s[i]]
    BY <1>1 DEF Overwritten
  <1>3. IsSeq(Overwritten(s, a, b), l)
    BY <1>2 DEF IsSeq
  <1>4. ASSUME NEW i \in 1 .. a PROVE Overwritten(s, a, b)[i] = s[i]
    <2>1. i \in 1 .. l /\ i \notin a + 1 .. a + m
      OBVIOUS
    <2> QED
      BY <1>2, <2>1
  <1>5. ASSUME NEW i \in 1 .. m PROVE Overwritten(s, a, b)[a + i] = b[i]
    <2>1. a + i \in 1 .. l /\ a + i \in a + 1 .. a + m /\ (a + i) - a = i
      OBVIOUS
    <2> QED
      BY <1>2, <2>1
  <1> QED
    BY <1>3, <1>4, <1>5

\* The m elements of s are those of g behind its first q blocks.
Stands(s, m, g, n, q, l) ==
    /\ n \in Nat /\ IsSeq(g, n) /\ m \in Nat /\ IsSeq(s, m)
    /\ l \in Nat /\ q \in Nat /\ (q * l) + m <= n
    /\ \A i \in 1 .. m : s[i] = g[(q * l) + i]

LEMMA BlockShifts ==
    ASSUME NEW s, NEW m, NEW g, NEW n, NEW q, NEW l, Stands(s, m, g, n, q, l),
           NEW a \in Nat, (a * l) + l <= m
    PROVE  Block(s, a, l) = Block(g, q + a, l)
  <1> USE DEF Stands
  <1>1. a * l \in Nat /\ q * l \in Nat /\ (q + a) * l = (q * l) + (a * l)
    BY Times
  <1>2. IsSeq(Block(s, a, l), l) /\ \A i \in 1 .. l : Block(s, a, l)[i] = s[(a * l) + i]
    BY BlockFacts
  <1>3. \A i \in 1 .. l : s[(a * l) + i] = g[((q + a) * l) + i]
    <2> SUFFICES ASSUME NEW i \in 1 .. l PROVE s[(a * l) + i] = g[((q + a) * l) + i]
      OBVIOUS
    <2> DEFINE j == (a * l) + i
               z == ((q + a) * l) + i
    <2>1. j \in 1 .. m /\ z = (q * l) + j
      BY <1>1
    <2> HIDE DEF j, z
    <2>2. s[j] = g[(q * l) + j]
      BY <2>1
    <2>3. s[j] = g[z]
      BY <2>1, <2>2, Zenon
    <2> QED
      BY <2>3 DEF j, z
  <1>4. ((q + a) * l) + l <= n /\ q + a \in Nat
    BY <1>1
  <1> DEFINE c == q + a
             b == Block(s, a, l)
  <1>5. \A i \in 1 .. l : b[i] = g[(c * l) + i]
    BY <1>2, <1>3
  <1>6. n \in Nat /\ IsSeq(g, n) /\ l \in Nat /\ c \in Nat /\ (c * l) + l <= n /\ IsSeq(b, l)
    BY <1>2, <1>4
  <1> HIDE DEF b, c, Stands
  <1>7. b = Block(g, c, l)
    BY <1>5, <1>6, BlockIs
  <1> QED
    BY <1>7 DEF b, c

LEMMA BlockStands ==
    ASSUME NEW s, NEW g, NEW n, NEW a, NEW l, Stands(s, l, g, n, a, l)
    PROVE  s = Block(g, a, l)
  BY BlockIs DEF Stands

\* The blocks of a beginning are blocks of the whole.
LEMMA BlockOfPrefix ==
    ASSUME NEW n \in Nat, NEW m \in Nat, NEW d, NEW b, NEW g, IsSeq(d, n), IsSeq(b, m), IsConcat(g, d, n, b, m),
           NEW l \in Nat, NEW a \in Nat, (a * l) + l <= n
    PROVE  Block(g, a, l) = Block(d, a, l)
  <1>1. IsSeq(g, n + m) /\ n + m \in Nat /\ \A i \in 1 .. n : d[i] = g[i]
    BY DEF IsConcat
  <1>2. 0 * l = 0 /\ 0 + a = a
    OBVIOUS
  <1>3. \A i \in 1 .. n : d[i] = g[(0 * l) + i]
    BY <1>1, <1>2
  <1>4. Stands(d, n, g, n + m, 0, l)
    BY <1>1, <1>2, <1>3 DEF Stands
  <1>5. Block(d, a, l) = Block(g, 0 + a, l)
    BY <1>4, BlockShifts
  <1> QED
    BY <1>2, <1>5

LEMMA MinFacts ==
    ASSUME NEW s \in Nat, NEW t \in Nat
    PROVE  Min({s, t}) = IF s <= t THEN s ELSE t
  <1> DEFINE z == IF s <= t THEN s ELSE t
  <1>1. z \in {s, t} /\ \A i \in {s, t} : z <= i
    OBVIOUS
  <1>2. \A i \in {s, t} : (\A j \in {s, t} : i <= j) => i = z
    OBVIOUS
  <1>3. Min({s, t}) = CHOOSE i \in {s, t} : \A j \in {s, t} : i <= j
    BY DEF Min
  <1> HIDE DEF z
  <1>4. Min({s, t}) = z
    BY <1>1, <1>2, <1>3
  <1> QED
    BY <1>4 DEF z

\* Of n bytes r are in the open block; m more fill it (taken), then w blocks
\* and begin the next.
Split(l, n, q, r, m, taken, w, v, x1) ==
    /\ r < l /\ n = (q * l) + r
    /\ taken <= m /\ r + taken <= l
    /\ r = 0 => taken = 0
    /\ r > 0 /\ r + taken # l => taken = m
    /\ v < l /\ m - taken = (w * l) + v
    /\ x1 = IF r + taken = l THEN 1 ELSE 0

LEMMA Places ==
    ASSUME NEW l \in Nat, NEW n \in Nat, NEW q \in Nat, NEW r \in Nat, NEW m \in Nat,
           NEW taken \in Nat, NEW w \in Nat, NEW v \in Nat, NEW x1 \in Nat,
           Split(l, n, q, r, m, taken, w, v, x1)
    PROVE  /\ r = 0 \/ r + taken = l =>
                /\ (q + x1) * l = n + taken
                /\ n + m = (((q + x1) + w) * l) + v
           /\ ~(r = 0 \/ r + taken = l) =>
                w = 0 /\ v = 0 /\ taken = m /\ x1 = 0 /\ n + m = (((q + x1) + w) * l) + (r + taken)
  <1> USE DEF Split
  <1>1. q * l \in Nat /\ w * l \in Nat
    BY Times
  <1>2. CASE r + taken = l
    <2>1. x1 = 1 /\ (q + x1) * l = (q * l) + l
      BY <1>2, Times
    <2>2. ((q + x1) + w) * l = ((q + x1) * l) + (w * l)
      BY Times
    <2> QED
      BY <1>1, <1>2, <2>1, <2>2
  <1>3. CASE r = 0 /\ r + taken # l
    <2>1. x1 = 0 /\ q + x1 = q
      BY <1>3
    <2>2. (q + w) * l = (q * l) + (w * l)
      BY Times
    <2> QED
      BY <1>1, <1>3, <2>1, <2>2
  <1>4. CASE r > 0 /\ r + taken # l
    <2>1. x1 = 0 /\ taken = m /\ (w * l) + v = 0
      BY <1>4
    <2>2. w = 0 /\ v = 0
      <3>1. ASSUME 0 < w PROVE FALSE
        <4>1. (0 * l) + l <= w * l
          BY <3>1, Times
        <4> QED
          BY <1>1, <2>1, <4>1
      <3> QED
        BY <1>1, <2>1, <3>1
    <2>3. (q + x1) + w = q
      BY <2>1, <2>2
    <2> QED
      BY <1>4, <2>1, <2>2, <2>3
  <1> QED
    BY <1>2, <1>3, <1>4

\* The bytes b follow d in g.  r bytes of d were left over, filled is the
\* block they and the first bytes of b are in, and rest is what follows in b.
Follows(l, n, q, r, m, taken, w, v, x1, d, b, g, filled, rest) ==
    /\ l \in Nat /\ l > 0 /\ n \in Nat /\ q \in Nat /\ r \in Nat /\ m \in Nat
    /\ taken \in Nat /\ w \in Nat /\ v \in Nat /\ x1 \in Nat
    /\ Split(l, n, q, r, m, taken, w, v, x1)
    /\ IsSeq(d, n) /\ IsSeq(b, m) /\ IsConcat(g, d, n, b, m)
    /\ IsSeq(filled, l)
    /\ \A i \in 1 .. r : filled[i] = d[(q * l) + i]
    /\ \A i \in 1 .. taken : filled[r + i] = b[i]
    /\ IsSeq(rest, m - taken)
    /\ \A i \in 1 .. m - taken : rest[i] = b[taken + i]

\* The blocks that were there, the one filled, and those that followed.
ChainOf(chain, l, q, w, x1, d, filled, rest) ==
    /\ \A a \in Nat : a < q => chain[a + 1] = Block(d, a, l)
    /\ x1 = 1 => chain[q + 1] = filled
    /\ \A a \in Nat : a < w => chain[((q + x1) + a) + 1] = Block(rest, a, l)

LEMMA BlocksOfBoth ==
    ASSUME NEW l, NEW n, NEW q, NEW r, NEW m, NEW taken, NEW w, NEW v, NEW x1,
           NEW d, NEW b, NEW g, NEW filled, NEW rest,
           Follows(l, n, q, r, m, taken, w, v, x1, d, b, g, filled, rest),
           NEW chain, ChainOf(chain, l, q, w, x1, d, filled, rest)
    PROVE  \A a \in Nat : a < (q + x1) + w => chain[a + 1] = Block(g, a, l)
  <1> SUFFICES ASSUME NEW a \in Nat, a < (q + x1) + w PROVE chain[a + 1] = Block(g, a, l)
    OBVIOUS
  <1>1. q * l \in Nat /\ w * l \in Nat
    BY Times DEF Follows
  <1>2. /\ IsSeq(g, n + m) /\ n + m \in Nat
        /\ \A i \in 1 .. n : g[i] = d[i]
        /\ \A i \in 1 .. m : g[n + i] = b[i]
    BY DEF IsConcat, Follows
  <1> USE DEF Split, Follows, ChainOf
  <1>3. CASE a < q
    <2>1. (a * l) + l <= q * l
      BY <1>3, Times
    <2>2. (a * l) + l <= n
      <3>1. a * l \in Nat
        BY Times
      <3> QED
        BY <1>1, <2>1, <3>1
    <2>3. Block(g, a, l) = Block(d, a, l)
      BY <2>2, BlockOfPrefix
    <2> QED
      BY <1>3, <2>3
  <1>4. CASE a = q /\ x1 = 1
    <2>1. r + taken = l /\ n + taken = (q * l) + l
      BY <1>1, <1>4
    <2>2. ASSUME NEW i \in 1 .. l PROVE filled[i] = g[(q * l) + i]
      <3>1. CASE i <= r
        <4>1. (q * l) + i \in 1 .. n /\ i \in 1 .. r
          BY <1>1, <3>1
        <4> QED
          BY <1>2, <4>1
      <3>2. CASE i > r
        <4> DEFINE j == i - r
                   z == (q * l) + i
        <4>1. j \in 1 .. taken /\ j \in 1 .. m /\ r + j = i /\ n + j = z
          BY <1>1, <2>1, <3>2
        <4> HIDE DEF j, z
        <4>2. filled[r + j] = b[j]
          BY <4>1
        <4> HIDE DEF Split, Follows, ChainOf
        <4>3. g[n + j] = b[j]
          BY <1>2, <4>1
        <4>4. filled[i] = g[z]
          BY <4>1, <4>2, <4>3, Zenon
        <4> QED
          BY <4>4 DEF z
      <3> QED
        BY <3>1, <3>2
    <2>3. (q * l) + l <= n + m
      BY <1>1, <2>1
    <2>4. filled = Block(g, q, l)
      BY <1>2, <2>2, <2>3, BlockIs
    <2> QED
      BY <1>4, <2>4
  <1>5. CASE a >= q + x1
    <2> DEFINE c == a - (q + x1)
    <2>1. c \in Nat /\ c < w /\ (q + x1) + c = a
      BY <1>5
    <2> HIDE DEF c
    <2>2. r = 0 \/ r + taken = l
      <3>1. ~(r = 0 \/ r + taken = l) => w = 0
        BY Places
      <3> QED
        BY <2>1, <3>1
    <2>3. (q + x1) * l = n + taken
      BY <2>2, Places
    <2>4. (c * l) + l <= w * l /\ c * l \in Nat
      BY <2>1, Times
    <2>5. (c * l) + l <= m - taken /\ m - taken \in Nat
      BY <1>1, <2>4
    <2>6. ((q + x1) * l) + (m - taken) <= n + m
      BY <2>3
    <2>7. ASSUME NEW i \in 1 .. m - taken PROVE rest[i] = g[((q + x1) * l) + i]
      <3> DEFINE j == taken + i
                 z == ((q + x1) * l) + i
      <3>1. j \in 1 .. m /\ n + j = z
        BY <2>3, <2>5
      <3>2. rest[i] = b[j]
        OBVIOUS
      <3> HIDE DEF j, z, Split, Follows, ChainOf
      <3>3. g[n + j] = b[j]
        BY <1>2, <3>1
      <3>4. rest[i] = g[z]
        BY <3>1, <3>2, <3>3, Zenon
      <3> QED
        BY <3>4 DEF z
    <2>8. Block(rest, c, l) = Block(g, (q + x1) + c, l)
      <3> DEFINE z == q + x1
                 p == m - taken
                 e == n + m
      <3>1. Stands(rest, p, g, e, z, l) /\ (c * l) + l <= p
        BY <1>2, <2>5, <2>6, <2>7 DEF Stands
      <3> HIDE DEF z, p, e, Split, Follows, ChainOf
      <3>2. Block(rest, c, l) = Block(g, z + c, l)
        BY <2>1, <3>1, BlockShifts
      <3> QED
        BY <3>2 DEF z
    <2> QED
      BY <2>1, <2>8
  <1>6. a < q \/ (a = q /\ x1 = 1) \/ a >= q + x1
    OBVIOUS
  <1> QED
    BY <1>3, <1>4, <1>5, <1>6

OpenBlock(buf, l, w, v, filled, rest) ==
    /\ \A i \in 1 .. v : buf[i] = rest[(w * l) + i]
    /\ v = 0 => \A i \in 1 .. l : buf[i] = filled[i]

\* And the bytes after the last of these blocks.
LEMMA OpenOfBoth ==
    ASSUME NEW l, NEW n, NEW q, NEW r, NEW m, NEW taken, NEW w, NEW v, NEW x1,
           NEW d, NEW b, NEW g, NEW filled, NEW rest,
           Follows(l, n, q, r, m, taken, w, v, x1, d, b, g, filled, rest),
           NEW buf, OpenBlock(buf, l, w, v, filled, rest),
           NEW x \in Nat, x = (q + x1) + w,
           NEW y \in Nat, y = IF r = 0 \/ r + taken = l THEN v ELSE r + taken
    PROVE  n + m = (x * l) + y /\ y < l /\ \A i \in 1 .. y : buf[i] = g[(x * l) + i]
  <1>1. q * l \in Nat /\ w * l \in Nat /\ x * l \in Nat
    BY Times DEF Follows
  <1>2. /\ \A i \in 1 .. n : g[i] = d[i]
        /\ \A i \in 1 .. m : g[n + i] = b[i]
    BY DEF IsConcat, Follows
  <1> USE DEF Split, Follows, OpenBlock
  <1>3. CASE r = 0 \/ r + taken = l
    <2>1. n + m = (x * l) + v /\ y = v
      BY <1>3, Places
    <2>2. ASSUME NEW i \in 1 .. v PROVE buf[i] = g[(x * l) + i]
      <3> DEFINE j == (w * l) + i
      <3>1. j \in 1 .. m - taken /\ taken + j \in 1 .. m /\ n + (taken + j) = (x * l) + i
        BY <1>1, <2>1
      <3> QED
        BY <1>2, <3>1
    <2> QED
      BY <2>1, <2>2
  <1>4. CASE ~(r = 0 \/ r + taken = l)
    <2>1. w = 0 /\ v = 0 /\ taken = m /\ x1 = 0 /\ n + m = (x * l) + (r + taken) /\ y = r + taken
      BY <1>4, Places
    <2>2. x = q /\ y < l
      BY <1>4, <2>1
    <2>3. ASSUME NEW i \in 1 .. y PROVE buf[i] = g[(x * l) + i]
      <3>0. i \in 1 .. l /\ buf[i] = filled[i]
        BY <2>1, <2>2
      <3>1. CASE i <= r
        <4>1. i \in 1 .. r /\ (q * l) + i \in 1 .. n
          BY <1>1, <3>1
        <4> QED
          BY <1>2, <2>2, <3>0, <4>1
      <3>2. CASE i > r
        <4> DEFINE j == i - r
        <4>1. j \in 1 .. taken /\ j \in 1 .. m /\ r + j = i /\ n + j = (q * l) + i
          BY <1>1, <2>1, <3>2
        <4>2. filled[r + j] = b[j] /\ g[n + j] = b[j]
          BY <1>2, <4>1
        <4>3. buf[i] = filled[r + j] /\ g[(x * l) + i] = g[n + j]
          BY <2>2, <3>0, <4>1
        <4> QED
          BY <4>2, <4>3
      <3> QED
        BY <3>1, <3>2
    <2> QED
      BY <2>1, <2>2, <2>3
  <1> QED
    BY <1>3, <1>4

LEMMA InnerUpdateFacts ==
    ASSUME NEW o, IsObject(o), o.alg \in Names, NEW n \in Nat, NEW d, NEW q, NEW r, Part(o, d, n, q, r),
           NEW m \in Nat, NEW b, IsSeq(b, m)
    PROVE  /\ IsObject(InnerUpdate(o, b)) /\ SameMake(InnerUpdate(o, b), o)
           /\ \E x, y : Part(InnerUpdate(o, b), d \o b, n + m, x, y)
  <1> DEFINE l == BlockSize(o.alg)
             u == InnerUpdate(o, b)
             g == d \o b
  <1>0. l \in Nat /\ l > 0
    BY SizeFacts
  <1>1. /\ IsSeq(d, n) /\ q \in Nat /\ r \in Nat /\ r < l /\ n = (q * l) + r /\ o.n = r
        /\ IsSeq(o.chain, q) /\ IsSeq(o.buf, l)
        /\ \A a \in Nat : a < q => o.chain[a + 1] = Block(d, a, l)
        /\ \A i \in 1 .. r : o.buf[i] = d[(q * l) + i]
        /\ q * l \in Nat
    BY <1>0, Times DEF Part
  <1>2. Len(b) = m
    BY SeqFacts
  <1>3. IsConcat(g, d, n, b, m)
    BY <1>1, ConcatFacts
  <1>4. \A x : IsSeq(x, 0) => x = << >>
    BY EmptyIs
  <1> DEFINE taken == IF r = 0 THEN 0 ELSE Min({l - r, m})
             head == SubSeq(b, 1, taken)
             filled == Overwritten(o.buf, r, head)
             rest == SubSeq(b, taken + 1, m)
             whole == Len(rest) \div l
             tail == SubSeq(rest, (whole * l) + 1, Len(rest))
             full == r + taken = l
  <1>5. u = [o EXCEPT !.chain = @ \o (IF full THEN <<filled>> ELSE << >>) \o Blocks(rest, whole, l),
                      !.buf = Overwritten(filled, 0, tail),
                      !.n = IF full \/ r = 0 THEN Len(tail) ELSE r + taken]
    BY <1>1, <1>2 DEF InnerUpdate
  <1> HIDE DEF l
  <1>6. taken \in Nat /\ taken <= m /\ r + taken <= l
        /\ (r = 0 => taken = 0) /\ (r > 0 /\ ~full => taken = m)
    <2>1. l - r \in Nat
      BY <1>0, <1>1
    <2> DEFINE z == Min({l - r, m})
    <2>2. z = IF l - r <= m THEN l - r ELSE m
      BY <2>1, MinFacts
    <2> HIDE DEF z
    <2>3. taken = IF r = 0 THEN 0 ELSE z
      BY DEF z
    <2> HIDE DEF taken
    <2> QED
      BY <1>0, <1>1, <2>1, <2>2, <2>3
  <1> HIDE DEF taken
  <1>7. IsSeq(head, taken) /\ \A a \in 1 .. taken : head[a] = b[a]
    <2>1. IsHead(head, b, taken)
      BY <1>6, HeadFacts
    <2> QED
      BY <2>1 DEF IsHead
  <1> HIDE DEF head
  <1>8a. IsSeq(o.buf, l) /\ r \in Nat /\ taken \in Nat /\ r + taken <= l
    BY <1>1, <1>6
  <1>8. /\ IsSeq(filled, l)
        /\ \A i \in 1 .. r : filled[i] = o.buf[i]
        /\ \A i \in 1 .. taken : filled[r + i] = b[i]
    BY <1>0, <1>7, <1>8a, OverwrittenFacts
  <1>9. IsSeq(rest, m - taken) /\ m - taken \in Nat /\ \A a \in 1 .. m - taken : rest[a] = b[taken + a]
    <2> DEFINE z == m - taken
    <2>1. z \in Nat /\ taken + z = m /\ taken + z <= m
      BY <1>6
    <2> HIDE DEF z
    <2>2. IsSeq(SubSeq(b, taken + 1, taken + z), z) /\ \A a \in 1 .. z : SubSeq(b, taken + 1, taken + z)[a] = b[taken + a]
      BY <1>6, <2>1, SubSeqFacts
    <2>3. SubSeq(b, taken + 1, taken + z) = rest
      BY <2>1
    <2> QED
      BY <2>1, <2>2, <2>3 DEF z
  <1> DEFINE p == m - taken
  <1>10. Len(rest) = p /\ p \in Nat /\ whole = p \div l
    BY <1>9, SeqFacts
  <1> DEFINE w == p \div l
             v == p % l
  <1>11. w \in Nat /\ v \in Nat /\ v < l /\ p = (w * l) + v /\ w * l \in Nat /\ whole = w
    BY <1>0, <1>10, DivMod, Times
  <1> HIDE DEF w, v, whole, rest, filled
  <1>12. IsSeq(tail, v) /\ \A a \in 1 .. v : tail[a] = rest[(w * l) + a]
    BY <1>9, <1>10, <1>11, SubSeqFacts
  <1> HIDE DEF tail, p
  <1>13. Len(tail) = v
    BY <1>11, <1>12, SeqFacts
  <1>14. /\ IsSeq(Overwritten(filled, 0, tail), l)
         /\ \A i \in 1 .. v : Overwritten(filled, 0, tail)[i] = tail[i]
         /\ v = 0 => \A i \in 1 .. l : Overwritten(filled, 0, tail)[i] = filled[i]
    <2>0. l \in Nat /\ v \in Nat /\ 0 \in Nat /\ 0 + v <= l /\ IsSeq(filled, l) /\ IsSeq(tail, v)
      BY <1>0, <1>8, <1>11, <1>12
    <2>1. /\ IsSeq(Overwritten(filled, 0, tail), l)
          /\ \A i \in 1 .. v : Overwritten(filled, 0, tail)[0 + i] = tail[i]
      BY <2>0, OverwrittenFacts
    <2>2. ASSUME v = 0 PROVE \A i \in 1 .. l : Overwritten(filled, 0, tail)[i] = filled[i]
      <3>1. DOMAIN filled = 1 .. l
        BY <1>0, <1>8, SeqFacts
      <3> QED
        BY <1>13, <2>2, <3>1 DEF Overwritten
    <2>3. \A i \in 1 .. v : 0 + i = i
      BY <1>11
    <2> QED
      BY <2>1, <2>2, <2>3
  <1> DEFINE first == IF full THEN <<filled>> ELSE << >>
             x1 == IF full THEN 1 ELSE 0
             blocks == Blocks(rest, w, l)
             c1 == o.chain \o first
             chain == c1 \o blocks
             buf == Overwritten(filled, 0, tail)
             x == (q + x1) + w
             y == IF full \/ r = 0 THEN v ELSE r + taken
  <1>15. u = [alg |-> o.alg, build |-> o.build, chain |-> chain, n |-> y, live |-> o.live, buf |-> buf]
    BY <1>5, <1>11, <1>13 DEF IsObject
  <1>16. IsObject(u) /\ SameMake(u, o) /\ u.chain = chain /\ u.n = y /\ u.buf = buf /\ BlockSize(u.alg) = l
    BY <1>15 DEF IsObject, SameMake, l
  <1>17. IsSeq(first, x1) /\ x1 \in Nat /\ (full => first[1] = filled)
    BY DEF IsSeq
  <1>18. IsSeq(blocks, w) /\ \A a \in Nat : a < w => blocks[a + 1] = Block(rest, a, l)
    BY <1>0, <1>11, BlocksFacts
  <1> HIDE DEF first, x1
  <1>19a. IsConcat(c1, o.chain, q, first, x1) /\ q + x1 \in Nat
    BY <1>1, <1>17, ConcatFacts
  <1> HIDE DEF c1
  <1>19. IsConcat(c1, o.chain, q, first, x1) /\ IsSeq(c1, q + x1) /\ q + x1 \in Nat
    BY <1>19a DEF IsConcat
  <1>20. IsConcat(chain, c1, q + x1, blocks, w)
    BY <1>11, <1>18, <1>19, ConcatFacts
  <1> HIDE DEF blocks, chain, buf, u, g
  <1>21. IsSeq(chain, x) /\ x \in Nat
         /\ (\A a \in 1 .. q : chain[a] = o.chain[a])
         /\ (full => x1 = 1 /\ chain[q + 1] = filled)
         /\ (~full => x1 = 0)
         /\ \A a \in 1 .. w : chain[(q + x1) + a] = blocks[a]
    <2>1. x1 \in {0, 1} /\ (full => x1 = 1) /\ (~full => x1 = 0)
      BY DEF x1
    <2> QED
      BY <1>1, <1>11, <1>17, <1>19, <1>20, <2>1 DEF IsConcat
  <1>22. IsSeq(g, n + m) /\ n + m \in Nat
         /\ (\A i \in 1 .. n : g[i] = d[i]) /\ \A i \in 1 .. m : g[n + i] = b[i]
    BY <1>3 DEF IsConcat
  <1>23. x1 \in Nat /\ Split(l, n, q, r, m, taken, w, v, x1)
    BY <1>1, <1>6, <1>11 DEF p, x1, Split
  <1>24. /\ \A i \in 1 .. r : filled[i] = d[(q * l) + i]
         /\ \A i \in 1 .. m - taken : rest[i] = b[taken + i]
         /\ IsSeq(rest, m - taken)
    BY <1>1, <1>8, <1>9
  <1>25. /\ \A a \in Nat : a < q => chain[a + 1] = Block(d, a, l)
         /\ x1 = 1 => chain[q + 1] = filled
         /\ \A a \in Nat : a < w => chain[((q + x1) + a) + 1] = Block(rest, a, l)
    <2>1. ASSUME NEW a \in Nat, a < q PROVE chain[a + 1] = Block(d, a, l)
      <3>1. a + 1 \in 1 .. q
        BY <1>1, <2>1
      <3> QED
        BY <1>1, <1>21, <2>1, <3>1
    <2>2. ASSUME NEW a \in Nat, a < w PROVE chain[((q + x1) + a) + 1] = Block(rest, a, l)
      <3>1. a + 1 \in 1 .. w /\ ((q + x1) + a) + 1 = (q + x1) + (a + 1)
        BY <1>1, <1>11, <1>23, <2>2
      <3> QED
        BY <1>18, <1>21, <2>2, <3>1
    <2> QED
      BY <1>21, <1>23, <2>1, <2>2 DEF Split
  <1>26. Follows(l, n, q, r, m, taken, w, v, x1, d, b, g, filled, rest)
    BY <1>0, <1>1, <1>3, <1>6, <1>8, <1>11, <1>23, <1>24 DEF Follows
  <1>27. \A a \in Nat : a < x => chain[a + 1] = Block(g, a, l)
    <2>1. ChainOf(chain, l, q, w, x1, d, filled, rest)
      BY <1>25 DEF ChainOf
    <2> QED
      BY <1>26, <2>1, BlocksOfBoth
  <1>28. y \in Nat /\ n + m = (x * l) + y /\ y < l /\ \A i \in 1 .. y : buf[i] = g[(x * l) + i]
    <2>1. x \in Nat /\ y \in Nat /\ y = IF r = 0 \/ r + taken = l THEN v ELSE r + taken
      BY <1>1, <1>6, <1>11, <1>21
    <2>2. OpenBlock(buf, l, w, v, filled, rest)
      BY <1>12, <1>14 DEF buf, OpenBlock
    <2>3. x = (q + x1) + w
      OBVIOUS
    <2> HIDE DEF x, y, full
    <2> QED
      BY <1>26, <2>1, <2>2, <2>3, OpenOfBoth
  <1>29. IsSeq(buf, l)
    BY <1>14 DEF buf
  <1>30. Part(u, g, n + m, x, y)
    BY <1>16, <1>21, <1>22, <1>27, <1>28, <1>29 DEF Part
  <1> QED
    BY <1>16, <1>30 DEF u, g
-----------------------------------------------------------------------------
(* What digest appends *)

LEMMA BE64Seq == \A v : IsSeq(BE64(v), 8)
  BY DEF BE64, IsSeq

LEMMA ZerosFacts ==
    ASSUME NEW n \in Nat
    PROVE  IsSeq(Zeros(n), n) /\ \A i \in 1 .. n : Zeros(n)[i] = Byte(0)
  BY DEF Zeros, IsSeq

LEMMA OneSeq == \A x : IsSeq(<<x>>, 1) /\ <<x>>[1] = x
  BY DEF IsSeq

Marked(s, z) == (s \o <<Byte(128)>>) \o Zeros(z)

\* The n elements of s, the mark of the end, and zeros up to length c.
IsMarked(t, s, n, c) ==
    /\ IsSeq(t, c)
    /\ \A i \in 1 .. n : t[i] = s[i]
    /\ t[n + 1] = Byte(128)
    /\ \A i \in n + 2 .. c : t[i] = Byte(0)

LEMMA MarkedFacts ==
    ASSUME NEW n \in Nat, NEW s, IsSeq(s, n), NEW z \in Nat
    PROVE  IsMarked(Marked(s, z), s, n, (n + 1) + z)
  <1> DEFINE one == <<Byte(128)>>
             zeros == Zeros(z)
             m == s \o one
             t == m \o zeros
  <1>1. IsSeq(one, 1) /\ one[1] = Byte(128)
    BY OneSeq
  <1>2. IsSeq(zeros, z) /\ \A i \in 1 .. z : zeros[i] = Byte(0)
    BY ZerosFacts
  <1> HIDE DEF one, zeros
  <1>3. IsConcat(m, s, n, one, 1)
    BY <1>1, ConcatFacts
  <1> HIDE DEF m
  <1>4. IsSeq(m, n + 1) /\ n + 1 \in Nat
    BY <1>3 DEF IsConcat
  <1>5. IsConcat(t, m, n + 1, zeros, z)
    BY <1>2, <1>4, ConcatFacts
  <1>6. t = Marked(s, z)
    BY DEF Marked, m, one, zeros
  <1> HIDE DEF t
  <1>7. IsSeq(t, (n + 1) + z)
    BY <1>5 DEF IsConcat
  <1>8. ASSUME NEW i \in 1 .. n PROVE t[i] = s[i]
    BY <1>3, <1>5 DEF IsConcat
  <1>9. t[n + 1] = Byte(128)
    BY <1>1, <1>3, <1>5 DEF IsConcat
  <1>10. ASSUME NEW i \in n + 2 .. (n + 1) + z PROVE t[i] = Byte(0)
    <2>1. i - (n + 1) \in 1 .. z /\ i \in 1 .. (n + 1) + z /\ ~(i <= n + 1)
      OBVIOUS
    <2> QED
      BY <1>2, <1>5, <2>1 DEF IsConcat
  <1> QED
    BY <1>6, <1>7, <1>8, <1>9, <1>10 DEF IsMarked

\* With z zeros the mark and the size fill up a number of blocks.
FillsUp(n, z, blocks, l) == z \in Nat /\ ((n + 1) + z) + 8 = blocks * l

\* How many zeros FIPS 180-4 fills up with, and how many blocks are appended.
FipsZeros(alg, n) == ((-(n + 1 + MsgLenByte(alg))) % BlockSize(alg)) + MsgLenByte(alg) - 8
Appended(alg, r) == IF r >= BlockSize(alg) - MsgLenByte(alg) THEN 2 ELSE 1

LEMMA ZerosOfFips ==
    ASSUME NEW alg \in Names, NEW n \in Nat, NEW q \in Nat, NEW r \in Nat,
           r < BlockSize(alg), n = (q * BlockSize(alg)) + r
    PROVE  FillsUp(n, FipsZeros(alg, n), q + Appended(alg, r), BlockSize(alg))
  <1> USE DEF FillsUp, FipsZeros, Appended
  <1>1. CASE BlockSize(alg) = 64 /\ MsgLenByte(alg) = 8
    BY <1>1
  <1>2. CASE BlockSize(alg) = 128 /\ MsgLenByte(alg) = 16
    BY <1>2
  <1> QED
    BY <1>1, <1>2 DEF Names, BlockSize, MsgLenByte

\* All that, and behind it the size.
IsSized(t, c, m, v) ==
    /\ IsSeq(t, c + 8)
    /\ \A i \in 1 .. c : t[i] = m[i]
    /\ \A i \in 1 .. 8 : t[c + i] = BE64(v)[i]

LEMMA SizedFacts ==
    ASSUME NEW c \in Nat, NEW m, IsSeq(m, c), NEW v
    PROVE  IsSized(m \o BE64(v), c, m, v)
  <1> DEFINE b == BE64(v)
             t == m \o b
  <1>1. IsSeq(b, 8)
    BY BE64Seq
  <1> HIDE DEF b
  <1>2. IsConcat(t, m, c, b, 8)
    BY <1>1, ConcatFacts
  <1> HIDE DEF t
  <1>3. IsSeq(t, c + 8) /\ \A i \in 1 .. c : t[i] = m[i]
    BY <1>2 DEF IsConcat
  <1>4. ASSUME NEW i \in 1 .. 8 PROVE t[c + i] = b[i]
    <2>1. c + i \in 1 .. c + 8 /\ ~(c + i <= c) /\ (c + i) - c = i
      OBVIOUS
    <2> QED
      BY <1>2, <2>1 DEF IsConcat
  <1> QED
    BY <1>3, <1>4 DEF IsSized, t, b

\* The block that is open when digest is called, with the mark of the end.
LEMMA FilledFacts ==
    ASSUME NEW l \in Nat, NEW buf, IsSeq(buf, l), NEW r \in Nat, r < l,
           NEW s, s = Marked(SubSeq(buf, 1, r), (l - r) - 1)
    PROVE  IsMarked(s, buf, r, l)
  <1> DEFINE h == SubSeq(buf, 1, r)
             z == (l - r) - 1
  <1>1. IsSeq(h, r) /\ \A i \in 1 .. r : h[i] = buf[i]
    <2>1. IsHead(h, buf, r)
      BY HeadFacts
    <2> QED
      BY <2>1 DEF IsHead
  <1>2. z \in Nat /\ (r + 1) + z = l
    OBVIOUS
  <1>3. s = Marked(h, z)
    OBVIOUS
  <1> HIDE DEF h, z
  <1>4. IsMarked(s, h, r, l)
    <2>1. IsMarked(Marked(h, z), h, r, (r + 1) + z)
      BY <1>1, <1>2, MarkedFacts
    <2> QED
      BY <1>2, <1>3, <2>1
  <1> QED
    BY <1>1, <1>4 DEF IsMarked

Padded(d, n, z) == Marked(d, z) \o BE64(8 * n)

\* What digest appends are the last blocks of the padded bytes.
LEMMA LastOfPadded ==
    ASSUME NEW o, o.alg \in Names, NEW n \in Nat, NEW d, NEW q, NEW r, Part(o, d, n, q, r),
           NEW e, e = Appended(o.alg, r),
           NEW z \in Nat, FillsUp(n, z, q + e, BlockSize(o.alg))
    PROVE  /\ IsSeq(LastBlocks(o), e)
           /\ \A a \in Nat : a < e => LastBlocks(o)[a + 1] = Block(Padded(d, n, z), q + a, BlockSize(o.alg))
           /\ IsSeq(LastBlocks(o)[e], BlockSize(o.alg))
  <1> DEFINE l == BlockSize(o.alg)
             mb == MsgLenByte(o.alg)
             b == BE64(8 * n)
             filled == Marked(SubSeq(o.buf, 1, r), (l - r) - 1)
             end == (q + e) * l
             p == Padded(d, n, z)
  <1>0. l \in Nat /\ mb \in Nat /\ mb >= 8 /\ l > mb + 1
    BY SizeFacts
  <1>1. /\ IsSeq(d, n) /\ q \in Nat /\ r \in Nat /\ r < l /\ n = (q * l) + r /\ o.n = r
        /\ IsSeq(o.chain, q) /\ IsSeq(o.buf, l)
        /\ \A i \in 1 .. r : o.buf[i] = d[(q * l) + i]
    BY DEF Part
  <1>2. TotalSize(o) = n
    <2>1. Len(o.chain) = q
      BY <1>1, SeqFacts
    <2> QED
      BY <1>1, <2>1 DEF TotalSize
  <1>3. LastBlocks(o) = IF r >= l - mb THEN <<filled, Zeros(l - 8) \o b>>
                        ELSE <<SubSeq(filled, 1, l - 8) \o b>>
    BY <1>1, <1>2 DEF LastBlocks, Marked
  <1>4. /\ IsSeq(filled, l)
        /\ \A i \in 1 .. r : filled[i] = o.buf[i]
        /\ filled[r + 1] = Byte(128)
        /\ \A i \in r + 2 .. l : filled[i] = Byte(0)
    <2>1. IsMarked(filled, o.buf, r, l)
      BY <1>0, <1>1, FilledFacts
    <2> QED
      BY <2>1 DEF IsMarked
  <1>5. /\ IsSeq(p, end)
        /\ \A i \in 1 .. n : p[i] = d[i]
        /\ p[n + 1] = Byte(128)
        /\ \A i \in n + 2 .. end - 8 : p[i] = Byte(0)
        /\ \A i \in 1 .. 8 : p[(end - 8) + i] = b[i]
    <2> DEFINE m == Marked(d, z)
               y == (n + 1) + z
    <2>1. y \in Nat /\ y + 8 = end /\ y = end - 8
      BY DEF FillsUp
    <2>2. IsMarked(m, d, n, y)
      BY <1>1, MarkedFacts
    <2> HIDE DEF m, y, p, end, b
    <2>3. IsSeq(m, y)
      BY <2>2 DEF IsMarked
    <2>4. IsSized(m \o BE64(8 * n), y, m, 8 * n)
      BY <2>1, <2>3, SizedFacts
    <2>5. p = m \o BE64(8 * n)
      BY DEF m, p, Padded
    <2>6. IsSized(p, y, m, 8 * n)
      BY <2>4, <2>5
    <2>7. n + 1 \in 1 .. y /\ \A i \in 1 .. n : i \in 1 .. y
      BY DEF y
    <2>8. \A i \in n + 2 .. y : i \in 1 .. y
      BY <2>1
    <2>9. IsSeq(p, end) /\ \A i \in 1 .. y : p[i] = m[i]
      BY <2>1, <2>6 DEF IsSized
    <2>10. \A i \in 1 .. 8 : p[(end - 8) + i] = b[i]
      BY <2>1, <2>6 DEF IsSized, b
    <2>11. (\A i \in 1 .. n : p[i] = d[i]) /\ p[n + 1] = Byte(128)
      BY <2>2, <2>7, <2>9 DEF IsMarked
    <2>12. \A i \in n + 2 .. end - 8 : p[i] = Byte(0)
      BY <2>1, <2>2, <2>8, <2>9 DEF IsMarked
    <2> QED
      BY <2>9, <2>10, <2>11, <2>12
  <1>6. l \in Nat /\ q \in Nat /\ q * l \in Nat /\ (q + 1) * l = (q * l) + l /\ (q + 2) * l = ((q * l) + l) + l
    <2>0. l \in Nat /\ q \in Nat /\ q + 1 \in Nat
      BY <1>0, <1>1
    <2> HIDE DEF l
    <2>1. (q + 1) * l = (q * l) + l /\ ((q + 1) + 1) * l = ((q + 1) * l) + l /\ q * l \in Nat
      BY <2>0, Times, Zenon
    <2>2. (q + 1) + 1 = q + 2
      BY <1>1
    <2> QED
      BY <1>0, <1>1, <2>1, <2>2
  <1> DEFINE c == q * l
  <1> HIDE DEF l, mb, b, filled, end, c, p
  <1>7. /\ c \in Nat /\ l \in Nat /\ r \in Nat /\ mb \in Nat /\ mb >= 8 /\ l > mb + 1 /\ r < l /\ n = c + r
        /\ e = IF r >= l - mb THEN 2 ELSE 1
        /\ e = 1 => end = c + l
        /\ e = 2 => end = (c + l) + l
    <2>1. e = IF r >= l - mb THEN 2 ELSE 1
      BY DEF l, mb, Appended
    <2>2. (e = 1 => end = c + l) /\ (e = 2 => end = (c + l) + l)
      BY <1>6 DEF end, c
    <2> QED
      BY <1>0, <1>1, <1>6, <2>1, <2>2 DEF c
  <1>7a. \A i \in 1 .. r : o.buf[i] = d[c + i]
    BY <1>1 DEF c
  \* As far as the marked block and the end agree.
  <1>8. ASSUME NEW i \in 1 .. l, c + i <= end - 8 PROVE filled[i] = p[c + i]
    <2>1. CASE i <= r
      <3>1. i \in 1 .. r /\ c + i \in 1 .. n
        BY <1>7, <2>1
      <3> QED
        BY <1>4, <1>5, <1>7a, <3>1
    <2>2. CASE i = r + 1
      <3>1. c + i = n + 1
        BY <1>7, <2>2
      <3> QED
        BY <1>4, <1>5, <2>2, <3>1
    <2>3. CASE i > r + 1
      <3>1. i \in r + 2 .. l /\ c + i \in n + 2 .. end - 8
        BY <1>7, <1>8, <2>3
      <3> QED
        BY <1>4, <1>5, <3>1
    <2> QED
      BY <1>7, <2>1, <2>2, <2>3
  <1>9. CASE e = 1
    <2> DEFINE h == SubSeq(filled, 1, l - 8)
               x == h \o b
    <2>1. l - 8 \in Nat /\ r < l - mb
      BY <1>7, <1>9
    <2>1a. LastBlocks(o) = <<x>>
      <3>1. ~(r >= l - mb)
        BY <1>7, <2>1
      <3> HIDE DEF x
      <3> QED
        BY <1>3, <3>1 DEF x
    <2>2. IsSeq(h, l - 8) /\ \A i \in 1 .. l - 8 : h[i] = filled[i]
      <3>1. l - 8 <= l
        BY <1>7
      <3>2. IsHead(h, filled, l - 8)
        BY <1>4, <1>7, <2>1, <3>1, HeadFacts
      <3> QED
        BY <3>2 DEF IsHead
    <2> HIDE DEF h
    <2>3. /\ IsSeq(x, l)
          /\ \A i \in 1 .. l - 8 : x[i] = h[i]
          /\ \A i \in 1 .. 8 : x[(l - 8) + i] = b[i]
      <3>1. IsSized(x, l - 8, h, 8 * n)
        BY <2>1, <2>2, SizedFacts DEF b
      <3> HIDE DEF x
      <3>2. (l - 8) + 8 = l
        BY <1>7
      <3> QED
        BY <3>1, <3>2 DEF IsSized, b
    <2> HIDE DEF x
    <2>4. ASSUME NEW i \in 1 .. l PROVE x[i] = p[c + i]
      <3>1. CASE i <= l - 8
        <4>1. i \in 1 .. l - 8 /\ c + i <= end - 8
          BY <1>7, <1>9, <3>1
        <4> QED
          BY <1>8, <2>2, <2>3, <4>1
      <3>2. CASE i > l - 8
        <4> DEFINE j == i - (l - 8)
        <4>1. j \in 1 .. 8 /\ (l - 8) + j = i /\ (end - 8) + j = c + i
          BY <1>7, <1>9, <3>2
        <4> QED
          BY <1>5, <2>3, <4>1
      <3> QED
        BY <1>7, <3>1, <3>2
    <2>5. x = Block(p, q, l)
      <3>1. c + l <= end /\ end \in Nat
        BY <1>7, <1>9
      <3> QED
        BY <1>5, <1>6, <2>3, <2>4, <3>1, BlockIs DEF c
    <2>6. IsSeq(<<x>>, 1) /\ <<x>>[1] = x
      BY OneSeq
    <2>7. \A a \in Nat : a < 1 => a = 0 /\ a + 1 = 1 /\ q + a = q
      BY <1>6
    <2> QED
      BY <1>9, <2>1a, <2>3, <2>5, <2>6, <2>7 DEF l, p
  <1>10. CASE e = 2
    <2> DEFINE h == Zeros(l - 8)
               x == h \o b
    <2>1. l - 8 \in Nat /\ r >= l - mb
      BY <1>7, <1>10
    <2>1a. LastBlocks(o) = <<filled, x>>
      BY <1>3, <2>1
    <2>2. IsSeq(h, l - 8) /\ \A i \in 1 .. l - 8 : h[i] = Byte(0)
      BY <2>1, ZerosFacts
    <2> HIDE DEF h
    <2>3. /\ IsSeq(x, l)
          /\ \A i \in 1 .. l - 8 : x[i] = h[i]
          /\ \A i \in 1 .. 8 : x[(l - 8) + i] = b[i]
      <3>1. IsSized(x, l - 8, h, 8 * n)
        BY <2>1, <2>2, SizedFacts DEF b
      <3> HIDE DEF x
      <3>2. (l - 8) + 8 = l
        BY <1>7
      <3> QED
        BY <3>1, <3>2 DEF IsSized, b
    <2> HIDE DEF x
    <2>4. ASSUME NEW i \in 1 .. l PROVE x[i] = p[(c + l) + i]
      <3>1. CASE i <= l - 8
        <4>1. i \in 1 .. l - 8 /\ (c + l) + i \in n + 2 .. end - 8
          BY <1>7, <1>10, <3>1
        <4> QED
          BY <1>5, <2>2, <2>3, <4>1
      <3>2. CASE i > l - 8
        <4> DEFINE j == i - (l - 8)
        <4>1. j \in 1 .. 8 /\ (l - 8) + j = i /\ (end - 8) + j = (c + l) + i
          BY <1>7, <1>10, <3>2
        <4> QED
          BY <1>5, <2>3, <4>1
      <3> QED
        BY <1>7, <3>1, <3>2
    <2>5. (c + l) + l <= end /\ c + l <= end /\ end \in Nat
      BY <1>7, <1>10
    <2>6. x = Block(p, q + 1, l)
      <3>1. (q + 1) * l = c + l /\ q + 1 \in Nat
        BY <1>6 DEF c
      <3>2. \A i \in 1 .. l : x[i] = p[((q + 1) * l) + i]
        BY <2>4, <3>1
      <3>3. ((q + 1) * l) + l <= end
        BY <2>5, <3>1
      <3>4. Stands(x, l, p, end, q + 1, l)
        BY <1>5, <1>7, <2>3, <2>5, <3>1, <3>2, <3>3 DEF Stands
      <3> QED
        BY <3>4, BlockStands
    <2>7. filled = Block(p, q, l)
      <3>1. \A i \in 1 .. l : c + i <= end - 8
        BY <1>7, <1>10
      <3>2. \A i \in 1 .. l : filled[i] = p[c + i]
        BY <1>8, <3>1
      <3>3. Stands(filled, l, p, end, q, l)
        BY <1>4, <1>5, <1>6, <2>5, <3>2 DEF Stands, c
      <3> QED
        BY <3>3, BlockStands
    <2>8. IsSeq(<<filled, x>>, 2) /\ <<filled, x>>[1] = filled /\ <<filled, x>>[2] = x
      BY DEF IsSeq
    <2>9. \A a \in Nat : a < 2 => \/ a = 0 /\ a + 1 = 1 /\ q + a = q
                                  \/ a = 1 /\ a + 1 = 2 /\ q + a = q + 1
      BY <1>6
    <2> QED
      BY <1>10, <2>1a, <2>3, <2>6, <2>7, <2>8, <2>9 DEF l, p
  <1> QED
    BY <1>7, <1>9, <1>10

\* term (sha1.hpp, sha2.hpp): what went through the rounds in the end are the
\* blocks of FIPS 180-4, and the object has a buffer for the next.
LEMMA PortableDigestFacts ==
    ASSUME NEW o, IsObject(o), o.alg \in Names, NEW n \in Nat, NEW d, NEW q, NEW r, Part(o, d, n, q, r)
    PROVE  /\ PortableDigest(o).chain = FipsBlocks(o.alg, d)
           /\ IsObject(PortableDigest(o).after) /\ SameMake(PortableDigest(o).after, o)
           /\ IsSeq(PortableDigest(o).after.buf, BlockSize(o.alg))
  <1> DEFINE l == BlockSize(o.alg)
             mb == MsgLenByte(o.alg)
             e == Appended(o.alg, r)
             z == FipsZeros(o.alg, n)
             p == Padded(d, n, z)
             last == LastBlocks(o)
             chain == o.chain \o last
             c == q + e
  <1>0. l \in Nat /\ l > 0
    BY SizeFacts
  <1>1. /\ IsSeq(d, n) /\ q \in Nat /\ r \in Nat /\ r < l /\ n = (q * l) + r
        /\ IsSeq(o.chain, q) /\ IsSeq(o.buf, l)
        /\ \A a \in Nat : a < q => o.chain[a + 1] = Block(d, a, l)
    BY DEF Part
  <1>2. e \in Nat /\ c \in Nat
    BY <1>1 DEF Appended
  <1>3. FillsUp(n, z, c, l)
    BY <1>1, ZerosOfFips
  <1>4. z \in Nat /\ ((n + 1) + z) + 8 = c * l
    BY <1>3 DEF FillsUp
  <1> HIDE DEF z
  <1>5. /\ IsSeq(last, e)
        /\ \A a \in Nat : a < e => last[a + 1] = Block(p, q + a, l)
        /\ IsSeq(last[e], l)
    BY <1>3, <1>4, LastOfPadded
  <1> DEFINE m == Marked(d, z)
             end == c * l
  <1>6. IsSeq(p, end) /\ end \in Nat /\ n <= end /\ \A i \in 1 .. n : p[i] = d[i]
    <2> DEFINE x == (n + 1) + z
    <2>1. x \in Nat /\ x + 8 = end /\ n + 1 <= x
      BY <1>4
    <2>2. IsMarked(m, d, n, x)
      BY <1>1, <1>4, MarkedFacts
    <2> HIDE DEF x, m, end
    <2>3. IsSeq(m, x)
      BY <2>2 DEF IsMarked
    <2>4. IsSized(m \o BE64(8 * n), x, m, 8 * n)
      BY <2>1, <2>3, SizedFacts
    <2>5. p = m \o BE64(8 * n)
      BY DEF m, Padded
    <2> HIDE DEF p
    <2>6. IsSized(p, x, m, 8 * n)
      BY <2>4, <2>5
    <2> QED
      BY <2>1, <2>2, <2>6 DEF IsSized, IsMarked
  <1> HIDE DEF l, mb, e, p, last, m, end, c
  <1>7. IsConcat(chain, o.chain, q, last, e)
    BY <1>1, <1>2, <1>5, ConcatFacts
  <1>8. IsSeq(chain, c)
    BY <1>7 DEF IsConcat, c
  <1> HIDE DEF chain
  <1>9. ASSUME NEW a \in Nat, a < c PROVE chain[a + 1] = Block(p, a, l)
    <2>1. CASE a < q
      <3>1. chain[a + 1] = Block(d, a, l)
        BY <1>1, <1>2, <1>7, <2>1 DEF IsConcat
      <3>2. Stands(d, n, p, end, 0, l)
        <4>1. 0 * l = 0 /\ 0 + n = n /\ \A i \in 1 .. n : 0 + i = i
          BY <1>0
        <4> QED
          BY <1>0, <1>1, <1>6, <4>1 DEF Stands
      <3>3. (a * l) + l <= n
        <4>1. (a * l) + l <= q * l /\ a * l \in Nat /\ q * l \in Nat
          <5>1. q \in Nat /\ l \in Nat
            BY <1>0, <1>1
          <5>2. a * l \in Nat /\ q * l \in Nat
            BY <5>1, Times
          <5>3. (a * l) + l <= q * l
            BY <2>1, <5>1, Times
          <5> QED
            BY <5>2, <5>3
        <4>2. n = (q * l) + r /\ r \in Nat
          BY <1>1
        <4> DEFINE c1 == a * l
                   c2 == q * l
        <4>3. c1 + l <= c2 /\ c1 \in Nat /\ c2 \in Nat /\ n = c2 + r
          BY <4>1, <4>2
        <4> HIDE DEF c1, c2
        <4>4. c1 + l <= n
          BY <1>0, <4>2, <4>3
        <4> QED
          BY <4>4 DEF c1
      <3>4. Block(d, a, l) = Block(p, 0 + a, l)
        BY <3>2, <3>3, BlockShifts
      <3> QED
        BY <3>1, <3>4
    <2>2. CASE a >= q
      <3> DEFINE i == a - q
      <3>1. i \in Nat /\ i < e /\ q + i = a /\ (a + 1) - q = i + 1 /\ a + 1 \in 1 .. q + e /\ ~(a + 1 <= q)
        BY <1>1, <1>2, <1>9, <2>2 DEF c
      <3>2. chain[a + 1] = last[(a + 1) - q]
        BY <1>7, <3>1 DEF IsConcat
      <3> QED
        BY <1>5, <3>1, <3>2
    <2> QED
      BY <1>1, <2>1, <2>2
  <1>10. FipsBlocks(o.alg, d) = Blocks(p, end \div l, l)
    <2>1. Len(d) = n
      BY <1>1, SeqFacts
    <2>2. Len(p) = end
      BY <1>6, SeqFacts
    <2> DEFINE Bytes(i) == (d \o <<Byte(128)>>) \o Zeros(((-(i + 1 + mb)) % l) + mb - 8) \o BE64(8 * i)
    <2>3. FipsBlocks(o.alg, d) = Blocks(Bytes(Len(d)), Len(Bytes(Len(d))) \div l, l)
      BY DEF FipsBlocks, mb, l
    <2>4. Bytes(n) = p
      BY DEF p, Padded, Marked, z, FipsZeros, mb, l
    <2> HIDE DEF Bytes
    <2>5. FipsBlocks(o.alg, d) = Blocks(p, Len(p) \div l, l)
      BY <2>1, <2>3, <2>4, Zenon
    <2> QED
      BY <2>2, <2>5
  <1>11. end \div l = c
    BY <1>0, <1>2, DivModIs DEF end
  <1>12. chain = Blocks(p, c, l)
    <2> DEFINE blocks == Blocks(p, c, l)
    <2>1. IsSeq(blocks, c) /\ \A a \in Nat : a < c => blocks[a + 1] = Block(p, a, l)
      BY <1>0, <1>2, BlocksFacts
    <2> HIDE DEF blocks
    <2>2. ASSUME NEW a \in 1 .. c PROVE chain[a] = blocks[a]
      <3>1. a - 1 \in Nat /\ a - 1 < c /\ (a - 1) + 1 = a
        BY <1>2
      <3> QED
        BY <1>9, <2>1, <3>1
    <2>3. chain = blocks
      BY <1>2, <1>8, <2>1, <2>2, SameSeq
    <2> QED
      BY <2>3 DEF blocks
  <1>13. Last(last) = last[e]
    <2>1. Len(last) = e
      BY <1>2, <1>5, SeqFacts
    <2> QED
      BY <2>1 DEF Last
  <1>14. PortableDigest(o).chain = chain
    BY DEF PortableDigest, chain, last
  <1>15. PortableDigest(o).after = IF o.alg = "SHA1" THEN [o EXCEPT !.chain = << >>, !.n = 0]
                                   ELSE [o EXCEPT !.chain = chain, !.buf = last[e]]
    BY <1>13 DEF PortableDigest, chain, last
  <1>16. IsObject(PortableDigest(o).after) /\ SameMake(PortableDigest(o).after, o)
         /\ PortableDigest(o).after.buf \in {o.buf, last[e]}
    BY <1>15 DEF IsObject, SameMake
  <1> QED
    BY <1>1, <1>5, <1>10, <1>11, <1>12, <1>14, <1>16 DEF l
-----------------------------------------------------------------------------
(* The libraries *)

\* Induction over the naturals, of a set.
LEMMA NatSetInduction ==
    ASSUME NEW S, 0 \in S, \A n \in Nat : n \in S => n + 1 \in S
    PROVE  Nat \subseteq S
  <1> DEFINE R == OpToRel(<, Nat)
             T == Nat \ S
  <1>1. IsWellFoundedOn(R, Nat)
    BY NatLessThanWellFounded
  <1>2. \A x, y \in Nat : y < x => <<y, x>> \in R
    BY DEF OpToRel
  <1>3. CASE T # {}
    <2>1. PICK x \in T : \A y \in T : ~ (<<y, x>> \in R)
      <3>1. T \subseteq Nat
        OBVIOUS
      <3> HIDE DEF R, T
      <3> QED
        BY <1>1, <1>3, <3>1, WFMin
    <2>2. x \in Nat /\ x # 0 /\ x - 1 \in Nat /\ x - 1 < x
      OBVIOUS
    <2>3. x - 1 \in T
      BY <2>2
    <2> QED
      BY <1>2, <2>1, <2>2, <2>3
  <1> QED
    BY <1>3

\* Sums of the first elements of s.
IsFlattening(e, s, c) ==
    e = [i \in 1 .. c |-> IF i = 1 THEN s[i] ELSE e[i - 1] \o s[i]]

LEMMA FlattenFacts ==
    ASSUME NEW c \in Nat, c > 0, NEW s, IsSeq(s, c), NEW x, IsFlattening(x, s, c)
    PROVE  FlattenSeq(s) = x[c]
  <1> DEFINE y == CHOOSE e : IsFlattening(e, s, c)
  <1>1. IsFlattening(y, s, c)
    OBVIOUS
  <1>2. FlattenSeq(s) = y[c]
    <2>1. Len(s) = c
      BY SeqFacts
    <2>2. FlattenSeq(s) = (CHOOSE e : e = [i \in 1 .. c |-> IF i = 1 THEN s[i] ELSE e[i - 1] \o s[i]])[c]
      BY <2>1 DEF FlattenSeq
    <2> QED
      BY <2>2 DEF IsFlattening
  <1> HIDE DEF y
  <1> DEFINE S == {i \in Nat : i + 1 \in 1 .. c => y[i + 1] = x[i + 1]}
  <1>3. 0 \in S
    <2>1. 1 \in 1 .. c
      OBVIOUS
    <2>2. y[1] = s[1] /\ x[1] = s[1]
      BY <1>1, <2>1 DEF IsFlattening
    <2> QED
      BY <2>2
  <1>4. ASSUME NEW i \in Nat, i \in S PROVE i + 1 \in S
    <2> SUFFICES ASSUME (i + 1) + 1 \in 1 .. c PROVE y[(i + 1) + 1] = x[(i + 1) + 1]
      OBVIOUS
    <2> DEFINE j == (i + 1) + 1
    <2>1. j \in 1 .. c /\ j # 1 /\ j - 1 = i + 1 /\ i + 1 \in 1 .. c
      OBVIOUS
    <2>2. y[i + 1] = x[i + 1]
      BY <1>4, <2>1
    <2> HIDE DEF j, S
    <2>3. y[j] = y[j - 1] \o s[j] /\ x[j] = x[j - 1] \o s[j]
      BY <1>1, <2>1, Zenon DEF IsFlattening
    <2>4. y[j] = x[j]
      BY <2>1, <2>2, <2>3, Zenon
    <2> QED
      BY <2>4 DEF j
  <1> HIDE DEF S
  <1>5. c - 1 \in S
    <2>1. Nat \subseteq S
      BY <1>3, <1>4, NatSetInduction
    <2> QED
      BY <2>1
  <1>6. y[c] = x[c]
    <2>1. (c - 1) + 1 = c /\ c \in 1 .. c
      OBVIOUS
    <2> QED
      BY <1>5, <2>1 DEF S
  <1> QED
    BY <1>2, <1>6

LEMMA HeadIsAll ==
    ASSUME NEW n \in Nat, NEW s, IsSeq(s, n)
    PROVE  SubSeq(s, 1, n) = s
  <1>1. IsHead(SubSeq(s, 1, n), s, n)
    BY HeadFacts
  <1> DEFINE t == SubSeq(s, 1, n)
  <1> HIDE DEF t
  <1>2. IsSeq(t, n) /\ \A a \in 1 .. n : t[a] = s[a]
    BY <1>1 DEF IsHead, t
  <1>3. t = s
    BY <1>2, SameSeq
  <1> QED
    BY <1>3 DEF t

LEMMA HeadAndNext ==
    ASSUME NEW n \in Nat, NEW s, IsSeq(s, n), NEW c \in Nat, NEW e \in Nat, c + e <= n
    PROVE  SubSeq(s, 1, c) \o SubSeq(s, c + 1, c + e) = SubSeq(s, 1, c + e)
  <1> DEFINE x == SubSeq(s, 1, c)
             y == SubSeq(s, c + 1, c + e)
             z == SubSeq(s, 1, c + e)
  <1>1. IsHead(x, s, c)
    BY HeadFacts
  <1>2. IsSeq(y, e) /\ \A a \in 1 .. e : y[a] = s[c + a]
    BY SubSeqFacts
  <1>3. IsHead(z, s, c + e)
    BY HeadFacts
  <1> HIDE DEF x, y, z
  <1>4. IsConcat(z, x, c, y, e)
    <2>1. IsSeq(z, c + e)
      BY <1>3 DEF IsHead
    <2>2. ASSUME NEW a \in 1 .. c + e PROVE z[a] = IF a <= c THEN x[a] ELSE y[a - c]
      <3>1. CASE a <= c
        BY <1>1, <1>3, <3>1 DEF IsHead
      <3>2. CASE ~(a <= c)
        <4>1. a - c \in 1 .. e /\ c + (a - c) = a
          BY <3>2
        <4> QED
          BY <1>2, <1>3, <3>2, <4>1 DEF IsHead
      <3> QED
        BY <3>1, <3>2
    <2> QED
      BY <2>1, <2>2 DEF IsConcat
  <1>5. IsSeq(x, c)
    BY <1>1 DEF IsHead
  <1>6. x \o y = z
    BY <1>2, <1>4, <1>5, ConcatIs
  <1> QED
    BY <1>6 DEF x, y, z

\* A piece is never so long that its length is cut.
LEMMA AbsorbedFacts ==
    ASSUME NEW o, NEW l \in Nat, NEW p, IsSeq(p, l), o.build = "openssl" \/ l <= MaxUpdate
    PROVE  Absorbed(o, p) = p
  <1>1. CASE o.build = "openssl"
    BY <1>1 DEF Absorbed
  <1>2. CASE o.build # "openssl"
    <2>1. Len(p) = l
      BY SeqFacts
    <2>2. l % Wide = l
      BY <1>2, MaxUpdateAssumption
    <2>3. Absorbed(o, p) = SubSeq(p, 1, l)
      BY <1>2, <2>1, <2>2 DEF Absorbed
    <2> QED
      BY <2>3, HeadIsAll
  <1> QED
    BY <1>1, <1>2

LEMMA AbsorbedIsAll ==
    ASSUME NEW o, NEW m \in Nat, NEW b, IsSeq(b, m)
    PROVE  FlattenSeq([a \in DOMAIN Pieces(o, b) |-> Absorbed(o, Pieces(o, b)[a])]) = b
  <1> DEFINE p == Pieces(o, b)
             s == [a \in DOMAIN p |-> Absorbed(o, p[a])]
  <1>0. Len(b) = m
    BY SeqFacts
  <1>1. CASE o.build = "openssl" \/ m <= MaxUpdate
    <2>1. p = <<b>>
      BY <1>0, <1>1 DEF Pieces
    <2>2. DOMAIN p = 1 .. 1 /\ p[1] = b
      BY <2>1
    <2>3. Absorbed(o, b) = b
      BY <1>1, AbsorbedFacts
    <2> HIDE DEF p
    <2>4. s = [a \in 1 .. 1 |-> b]
      BY <2>2, <2>3
    <2> DEFINE x == [a \in 1 .. 1 |-> b]
    <2>5. IsSeq(x, 1)
      BY DEF IsSeq
    <2>6. IsFlattening(x, x, 1)
      BY DEF IsFlattening
    <2>7. x[1] = b
      OBVIOUS
    <2> HIDE DEF x
    <2>8. FlattenSeq(x) = b
      BY <2>5, <2>6, <2>7, FlattenFacts
    <2> QED
      BY <2>4, <2>8 DEF x, p
  <1>2. CASE o.build # "openssl" /\ m > MaxUpdate
    <2> DEFINE l == MaxUpdate
               w == (m - 1) \div l
               v == (m - 1) % l
               rest == SubSeq(b, (w * l) + 1, m)
               blocks == Blocks(b, w, l)
               one == <<rest>>
    <2>1. l \in Nat /\ l > 0 /\ m - 1 \in Nat
      BY <1>2, MaxUpdateAssumption
    <2>2. w \in Nat /\ v \in Nat /\ v < l /\ m - 1 = (w * l) + v
      BY <2>1, DivMod
    <2>3. w * l \in Nat /\ 1 * l = l /\ 0 * l = 0
      BY <2>1, <2>2, Times
    <2>4. p = blocks \o one
      <3> DEFINE P(i) == IF o.build = "openssl" \/ i <= MaxUpdate THEN <<b>>
                         ELSE Blocks(b, (i - 1) \div MaxUpdate, MaxUpdate)
                                  \o <<SubSeq(b, (((i - 1) \div MaxUpdate) * MaxUpdate) + 1, i)>>
      <3>1. p = P(Len(b))
        BY DEF Pieces
      <3>2. ~(o.build = "openssl" \/ m <= MaxUpdate)
        BY <1>2, <2>1
      <3>3. P(m) = blocks \o one
        BY <3>2
      <3> HIDE DEF P, blocks, one, p
      <3> QED
        BY <1>0, <3>1, <3>3, Zenon
    <2> HIDE DEF w, v, l
    <2>5. w >= 1
      <3>1. CASE w = 0
        <4>1. m - 1 = v
          BY <2>2, <2>3, <3>1
        <4> QED
          BY <1>2, <2>1, <2>2, <4>1 DEF l
      <3> QED
        BY <2>2, <3>1
    <2> DEFINE c == w + 1
               n1 == w * l
               e == v + 1
    <2>6. n1 \in Nat /\ e \in Nat /\ n1 + e = m /\ e <= l
      BY <2>1, <2>2, <2>3
    <2> HIDE DEF n1, e
    <2>7. IsSeq(rest, e)
      <3>1. rest = SubSeq(b, n1 + 1, n1 + e)
        BY <2>6 DEF n1
      <3>2. IsSeq(SubSeq(b, n1 + 1, n1 + e), e)
        <4>1. n1 \in Nat /\ e \in Nat /\ n1 + e <= m
          BY <2>6
        <4> QED
          BY <4>1, SubSeqFacts
      <3> HIDE DEF rest
      <3> QED
        BY <3>1, <3>2
    <2>8. IsSeq(blocks, w) /\ \A a \in Nat : a < w => blocks[a + 1] = Block(b, a, l)
      BY <2>1, <2>2, BlocksFacts
    <2>9. IsSeq(one, 1) /\ one[1] = rest
      BY OneSeq
    <2> HIDE DEF p, blocks, one, rest
    <2>10. IsConcat(p, blocks, w, one, 1)
      BY <2>2, <2>4, <2>8, <2>9, ConcatFacts
    <2>11. IsSeq(p, c) /\ c \in Nat /\ DOMAIN p = 1 .. c
      BY <2>2, <2>10 DEF IsConcat, IsSeq
    <2>12. ASSUME NEW a \in Nat, a < w PROVE p[a + 1] = Block(b, a, l) /\ (a * l) + l <= n1 /\ a * l \in Nat
      <3>1. a * l \in Nat
        BY <2>1, Times
      <3>2. (a * l) + l <= w * l
        BY <2>1, <2>2, <2>12, Times
      <3>3. p[a + 1] = blocks[a + 1]
        <4>1. a + 1 \in 1 .. w + 1 /\ a + 1 <= w
          BY <2>2, <2>12
        <4> QED
          BY <2>10, <4>1 DEF IsConcat
      <3> QED
        BY <2>8, <2>12, <3>1, <3>2, <3>3 DEF n1
    <2>13. p[c] = rest
      <3>1. c \in 1 .. w + 1 /\ ~(c <= w) /\ c - w = 1
        BY <2>2
      <3> QED
        BY <2>9, <2>10, <3>1 DEF IsConcat
    <2>14. ASSUME NEW a \in 1 .. c PROVE Absorbed(o, p[a]) = p[a]
      <3>1. CASE a = c
        BY <2>6, <2>7, <2>13, <3>1, AbsorbedFacts DEF l
      <3>2. CASE a < c
        <4>1. a - 1 \in Nat /\ a - 1 < w /\ (a - 1) + 1 = a
          BY <2>2, <3>2
        <4> DEFINE j == a - 1
        <4>2. p[a] = Block(b, j, l) /\ (j * l) + l <= n1 /\ j * l \in Nat
          BY <2>12, <4>1
        <4>3. (j * l) + l <= m /\ j \in Nat
          BY <2>1, <2>6, <4>1, <4>2
        <4> HIDE DEF j
        <4>4. IsSeq(Block(b, j, l), l)
          BY <2>1, <4>3, BlockFacts
        <4> QED
          <5> DEFINE t == Block(b, j, l)
          <5>1. IsSeq(t, MaxUpdate) /\ MaxUpdate \in Nat /\ MaxUpdate <= MaxUpdate
            BY <2>1, <4>4 DEF l
          <5> HIDE DEF t
          <5>2. Absorbed(o, t) = t
            BY <5>1, AbsorbedFacts
          <5> QED
            BY <4>2, <5>2 DEF t
      <3> QED
        BY <2>11, <3>1, <3>2
    <2>15. s = p
      BY <2>11, <2>14 DEF IsSeq
    <2> DEFINE x == [a \in 1 .. c |-> IF a <= w THEN SubSeq(b, 1, a * l) ELSE b]
    <2>16. x[c] = b
      BY <2>2
    <2>17. ASSUME NEW a \in 1 .. c PROVE x[a] = IF a = 1 THEN p[a] ELSE x[a - 1] \o p[a]
      <3> DEFINE j == a - 1
                 h == j * l
      <3>1. j \in Nat /\ j <= w /\ a = j + 1
        BY <2>2
      <3>2. h \in Nat /\ a * l = h + l
        BY <2>1, <3>1, Times
      <3> HIDE DEF h
      <3>3. CASE a = 1
        <4>1. p[a] = Block(b, 0, l)
          <5>1. 0 \in Nat /\ 0 < w /\ 0 + 1 = 1
            BY <2>2, <2>5
          <5> QED
            BY <2>12, <3>3, <5>1
        <4>2. Block(b, 0, l) = SubSeq(b, 1, l)
          <5>1. (0 * l) + 1 = 1 /\ (0 * l) + l = l
            BY <2>1
          <5> QED
            BY <5>1 DEF Block
        <4>3. x[a] = SubSeq(b, 1, l)
          BY <2>3, <2>5, <3>3
        <4> QED
          BY <3>3, <4>1, <4>2, <4>3
      <3>4. CASE a # 1 /\ a <= w
        <4>1. p[a] = SubSeq(b, h + 1, h + l) /\ h + l <= m
          <5>1. j \in Nat /\ j < w /\ j + 1 = a
            BY <2>2, <3>1, <3>4
          <5>2. p[a] = Block(b, j, l) /\ (j * l) + l <= n1
            BY <2>12, <5>1
          <5>3. Block(b, j, l) = SubSeq(b, h + 1, h + l)
            BY DEF Block, h
          <5> QED
            BY <2>1, <2>6, <3>2, <5>2, <5>3 DEF h
        <4>2. SubSeq(b, 1, h) \o SubSeq(b, h + 1, h + l) = SubSeq(b, 1, h + l)
          BY <2>1, <3>2, <4>1, HeadAndNext
        <4>3. x[a] = SubSeq(b, 1, h + l) /\ x[a - 1] = SubSeq(b, 1, h)
          <5>1. j \in 1 .. c /\ j <= w /\ j = a - 1
            BY <2>2, <3>1, <3>4
          <5>2. x[a] = SubSeq(b, 1, a * l) /\ x[j] = SubSeq(b, 1, j * l)
            BY <3>4, <5>1
          <5> HIDE DEF x
          <5> QED
            BY <3>2, <5>2 DEF h
        <4> QED
          BY <3>4, <4>1, <4>2, <4>3
      <3>5. CASE a # 1 /\ a = c
        <4>1. h = n1 /\ x[a - 1] = SubSeq(b, 1, n1)
          <5>0. a = w + 1
            BY <3>5
          <5>1. j = w /\ w \in 1 .. c /\ w <= w
            BY <2>2, <2>5, <5>0
          <5> HIDE DEF c, j
          <5>2. x[w] = SubSeq(b, 1, w * l)
            BY <5>1
          <5> HIDE DEF x
          <5> QED
            BY <5>1, <5>2 DEF h, n1, j
        <4>2. p[a] = SubSeq(b, n1 + 1, n1 + e)
          BY <2>6, <2>13, <3>5 DEF rest, n1
        <4>3. SubSeq(b, 1, n1) \o SubSeq(b, n1 + 1, n1 + e) = SubSeq(b, 1, n1 + e)
          BY <2>6, HeadAndNext
        <4>4. SubSeq(b, 1, n1 + e) = b
          BY <2>6, HeadIsAll
        <4> QED
          BY <2>16, <3>5, <4>1, <4>2, <4>3, <4>4
      <3> QED
        BY <2>2, <3>3, <3>4, <3>5
    <2>18. x = [a \in 1 .. c |-> x[a]]
      OBVIOUS
    <2> HIDE DEF x
    <2>19. IsFlattening(x, p, c)
      BY <2>17, <2>18 DEF IsFlattening
    <2>20. FlattenSeq(p) = b
      BY <2>2, <2>11, <2>16, <2>19, FlattenFacts
    <2> QED
      BY <2>15, <2>20 DEF p
  <1> QED
    BY <1>1, <1>2, MaxUpdateAssumption
-----------------------------------------------------------------------------
(* The object, in any build: it holds d, what it was fed since it was clear *)

Holds(o, d) ==
    /\ IsObject(o) /\ o.alg \in Names
    /\ \E n \in Nat :
        /\ IsSeq(d, n)
        /\ \/ IsPortable(o) /\ \E q, r : Part(o, d, n, q, r)
           \/ ~IsPortable(o) /\ o.buf = d

\* Only bcrypt has to make its object before it is fed.
Lives(o) == ~IsPortable(o) /\ o.build # "bcrypt" => o.live

LEMMA UpdateFacts ==
    ASSUME NEW o, NEW d, Holds(o, d), IsPortable(o) \/ o.live, NEW m \in Nat, NEW b, IsSeq(b, m)
    PROVE  Holds(Update(o, b), d \o b) /\ SameMake(Update(o, b), o)
  <1>1. PICK n \in Nat : /\ IsSeq(d, n)
                         /\ \/ IsPortable(o) /\ \E q, r : Part(o, d, n, q, r)
                            \/ ~IsPortable(o) /\ o.buf = d
    BY DEF Holds
  <1>2. IsObject(o) /\ o.alg \in Names
    BY DEF Holds
  <1> DEFINE g == d \o b
             u == Update(o, b)
  <1>3. IsConcat(g, d, n, b, m)
    BY <1>1, ConcatFacts
  <1> HIDE DEF g
  <1>4. IsSeq(g, n + m) /\ n + m \in Nat
    BY <1>3 DEF IsConcat
  <1>5. CASE IsPortable(o)
    <2>1. PICK q, r : Part(o, d, n, q, r)
      BY <1>1, <1>5
    <2>2. u = InnerUpdate(o, b)
      BY <1>5 DEF Update
    <2> DEFINE i == InnerUpdate(o, b)
    <2>3. IsObject(i) /\ SameMake(i, o) /\ \E x, y : Part(i, g, n + m, x, y)
      BY <1>2, <2>1, InnerUpdateFacts DEF g
    <2> HIDE DEF i
    <2>4. i.alg \in Names /\ IsPortable(i)
      BY <1>2, <1>5, <2>3 DEF SameMake, IsPortable
    <2>5. Holds(i, g)
      BY <1>4, <2>3, <2>4 DEF Holds
    <2> QED
      BY <2>2, <2>3, <2>5 DEF g, i
  <1>6. CASE ~IsPortable(o)
    <2> DEFINE all == FlattenSeq([a \in DOMAIN Pieces(o, b) |-> Absorbed(o, Pieces(o, b)[a])])
    <2>1. all = b
      BY AbsorbedIsAll
    <2> DEFINE L(i) == [o EXCEPT !.buf = (IF o.live THEN @ ELSE <<Unset>>) \o i]
    <2>2. u = L(all)
      BY <1>6 DEF Update, LibraryUpdate
    <2> HIDE DEF all, u
    <2>3. u = [o EXCEPT !.buf = o.buf \o b]
      BY <1>6, <2>1, <2>2
    <2>4. u = [o EXCEPT !.buf = g]
      BY <1>1, <1>6, <2>3 DEF g
    <2>5. IsObject(u) /\ SameMake(u, o) /\ u.buf = g /\ u.alg \in Names /\ ~IsPortable(u)
      BY <1>2, <1>6, <2>4 DEF IsObject, SameMake, IsPortable
    <2>6. Holds(u, g)
      BY <1>4, <2>5 DEF Holds
    <2> QED
      BY <2>5, <2>6 DEF g, u
  <1> QED
    BY <1>5, <1>6

LEMMA ClearFacts ==
    ASSUME NEW o, IsObject(o), o.alg \in Names, IsPortable(o) => IsSeq(o.buf, BlockSize(o.alg))
    PROVE  /\ Holds(Clear(o), << >>) /\ Lives(Clear(o))
           /\ Clear(o).alg = o.alg /\ Clear(o).build = o.build
  <1> DEFINE u == Clear(o)
  <1>1. IsSeq(<< >>, 0)
    BY EmptyIs
  <1>2. CASE IsPortable(o)
    <2>1. u = [o EXCEPT !.chain = << >>, !.n = 0]
      BY <1>2 DEF Clear
    <2>2. /\ IsObject(u) /\ u.alg = o.alg /\ u.build = o.build /\ u.buf = o.buf
          /\ u.chain = << >> /\ u.n = 0 /\ IsPortable(u)
      BY <1>2, <2>1 DEF IsObject, IsPortable
    <2> HIDE DEF u
    <2>3. BlockSize(u.alg) \in Nat /\ BlockSize(u.alg) > 0
      BY <2>2, SizeFacts
    <2>4. Part(u, << >>, 0, 0, 0)
      BY <1>1, <1>2, <2>2, <2>3 DEF Part
    <2>5. Holds(u, << >>)
      BY <1>1, <2>2, <2>4 DEF Holds
    <2> QED
      BY <2>2, <2>5 DEF u, Lives
  <1>3. CASE ~IsPortable(o)
    <2>1. u = [o EXCEPT !.buf = << >>, !.live = (o.build # "bcrypt")]
      BY <1>3 DEF Clear
    <2>2. /\ IsObject(u) /\ u.alg = o.alg /\ u.build = o.build /\ u.buf = << >>
          /\ u.live = (o.build # "bcrypt") /\ ~IsPortable(u)
      BY <1>3, <2>1 DEF IsObject, IsPortable
    <2> HIDE DEF u
    <2>3. Holds(u, << >>)
      BY <1>1, <2>2 DEF Holds
    <2> QED
      BY <2>2, <2>3 DEF u, Lives
  <1> QED
    BY <1>2, <1>3

LEMMA NewFacts ==
    ASSUME NEW alg \in Names, NEW build
    PROVE  /\ Holds(New(alg, build), << >>) /\ Lives(New(alg, build))
           /\ New(alg, build).alg = alg /\ New(alg, build).build = build
  <1> DEFINE buf == [a \in 1 .. BlockSize(alg) |-> Unset]
             o == [alg |-> alg, build |-> build, chain |-> << >>, n |-> 0, live |-> FALSE, buf |-> buf]
  <1>1. New(alg, build) = Clear(o)
    BY DEF New
  <1>2. IsObject(o) /\ o.alg = alg /\ o.build = build /\ o.buf = buf
    BY DEF IsObject
  <1>3. IsSeq(buf, BlockSize(alg))
    BY DEF IsSeq
  <1> HIDE DEF o, buf
  <1> QED
    BY <1>1, <1>2, <1>3, ClearFacts

\* What is digested is what the object holds and the last bytes; cleared, it
\* is as good as new.
LEMMA DigestFacts ==
    ASSUME NEW o, NEW d, Holds(o, d), IsPortable(o) \/ o.live, NEW m \in Nat, NEW b, IsSeq(b, m)
    PROVE  /\ Digest(o, b).chain = FipsBlocks(o.alg, d \o b)
           /\ Holds(Clear(Digest(o, b).after), << >>) /\ Lives(Clear(Digest(o, b).after))
           /\ Clear(Digest(o, b).after).alg = o.alg /\ Clear(Digest(o, b).after).build = o.build
  <1> DEFINE u == Update(o, b)
             g == d \o b
             digest == Digest(o, b)
  <1>1. Holds(u, g) /\ SameMake(u, o)
    BY UpdateFacts
  <1>2. digest = IF IsPortable(o) THEN PortableDigest(u) ELSE LibraryDigest(u)
    BY DEF Digest
  <1> HIDE DEF u, g, digest
  <1>3. IsObject(u) /\ u.alg \in Names
    BY <1>1 DEF Holds
  <1>4. IsPortable(u) <=> IsPortable(o)
    BY <1>1 DEF SameMake, IsPortable
  <1> DEFINE w == digest.after
  <1>5. /\ digest.chain = FipsBlocks(u.alg, g)
        /\ IsObject(w) /\ w.alg = u.alg /\ w.build = u.build
        /\ IsPortable(w) => IsSeq(w.buf, BlockSize(w.alg))
    <2>1. CASE IsPortable(o)
      <3>1. PICK n \in Nat : \E q, r : Part(u, g, n, q, r)
        BY <1>1, <1>4, <2>1 DEF Holds
      <3>2. PICK q, r : Part(u, g, n, q, r)
        BY <3>1
      <3> DEFINE p == PortableDigest(u)
      <3>3. /\ p.chain = FipsBlocks(u.alg, g) /\ IsObject(p.after) /\ SameMake(p.after, u)
            /\ IsSeq(p.after.buf, BlockSize(u.alg))
        BY <1>3, <3>2, PortableDigestFacts
      <3>4. digest = p
        BY <1>2, <2>1
      <3> HIDE DEF p
      <3> QED
        BY <3>3, <3>4 DEF SameMake
    <2>2. CASE ~IsPortable(o)
      <3>1. u.buf = g
        BY <1>1, <1>4, <2>2 DEF Holds
      <3>2. digest.chain = FipsBlocks(u.alg, g) /\ w = [u EXCEPT !.live = FALSE, !.buf = << >>]
        BY <1>2, <2>2, <3>1 DEF LibraryDigest
      <3> HIDE DEF w
      <3>3. IsObject(w) /\ w.alg = u.alg /\ w.build = u.build
        BY <1>3, <3>2 DEF IsObject
      <3>4. ~IsPortable(w)
        BY <1>4, <2>2, <3>3 DEF IsPortable
      <3> QED
        BY <3>2, <3>3, <3>4
    <2> QED
      BY <2>1, <2>2
  <1> HIDE DEF w
  <1>6. /\ Holds(Clear(w), << >>) /\ Lives(Clear(w))
        /\ Clear(w).alg = w.alg /\ Clear(w).build = w.build
    BY <1>3, <1>5, ClearFacts
  <1>7. u.alg = o.alg /\ u.build = o.build
    BY <1>1 DEF SameMake
  <1> QED
    BY <1>5, <1>6, <1>7 DEF w, digest, g
-----------------------------------------------------------------------------
(* The blocks of all digests: each has one place, which it keeps. *)

IsIn(q, c) == \E a \in DOMAIN q : q[a] = c
PlaceIn(q, c) == IF IsIn(q, c) THEN CHOOSE a \in DOMAIN q : q[a] = c ELSE Len(q) + 1

Distinct(q) == \E n \in Nat :
    /\ IsSeq(q, n)
    /\ \A a \in 1 .. n, b \in 1 .. n : q[a] = q[b] => a = b

Extends(r, q) ==
    /\ \A a \in DOMAIN q : a \in DOMAIN r /\ r[a] = q[a]
    /\ \A c : IsIn(q, c) => IsIn(r, c) /\ PlaceIn(r, c) = PlaceIn(q, c)

LEMMA PlaceFacts ==
    ASSUME NEW q, NEW n \in Nat, IsSeq(q, n), \A a \in 1 .. n, b \in 1 .. n : q[a] = q[b] => a = b,
           NEW c
    PROVE  /\ \A a \in 1 .. n : q[a] = c => PlaceIn(q, c) = a
           /\ ~IsIn(q, c) => PlaceIn(q, c) = n + 1
  <1>1. Len(q) = n /\ DOMAIN q = 1 .. n
    BY SeqFacts
  <1>2. ASSUME NEW a \in 1 .. n, q[a] = c PROVE PlaceIn(q, c) = a
    <2>1. PlaceIn(q, c) = CHOOSE b \in DOMAIN q : q[b] = c
      BY <1>1, <1>2 DEF PlaceIn, IsIn
    <2>2. PlaceIn(q, c) \in DOMAIN q /\ q[PlaceIn(q, c)] = c
      BY <1>1, <1>2, <2>1
    <2> QED
      BY <1>1, <1>2, <2>2
  <1>3. ~IsIn(q, c) => PlaceIn(q, c) = n + 1
    BY <1>1 DEF PlaceIn
  <1> QED
    BY <1>2, <1>3

IsAppend(r, q, c, n) == IsSeq(r, n + 1) /\ r[n + 1] = c /\ \A a \in 1 .. n : r[a] = q[a]

LEMMA AppendFacts ==
    ASSUME NEW n \in Nat, NEW q, IsSeq(q, n), NEW c
    PROVE  IsAppend(Append(q, c), q, c, n)
  <1> DEFINE S == {q[a] : a \in 1 .. n} \cup {c}
             r == Append(q, c)
  <1>1. Len(q) = n /\ q \in Seq({q[a] : a \in 1 .. n})
    BY SeqFacts
  <1>2. q \in Seq(S) /\ c \in S
    BY <1>1, SeqMonotonic
  <1> HIDE DEF S
  <1>3. /\ r \in Seq(S) /\ Len(r) = n + 1 /\ r[n + 1] = c
        /\ \A a \in 1 .. n : r[a] = q[a]
    BY <1>1, <1>2, AppendProperties
  <1>4. r \in [1 .. n + 1 -> S]
    BY <1>3, LenProperties, Zenon
  <1> QED
    BY <1>3, <1>4 DEF IsSeq, IsAppend

LEMMA ExtendsItself == ASSUME NEW q PROVE Extends(q, q)
  BY DEF Extends

LEMMA KnowsFacts ==
    ASSUME Distinct(known), NEW c, Knows(c)
    PROVE  /\ Distinct(known') /\ Extends(known', known)
           /\ IsIn(known', c) /\ PlaceIn(known', c) = Known(c)
           /\ Known(c) \in DOMAIN known' /\ known'[Known(c)] = c
  <1> DEFINE q == known
             r == known'
  <1>0. Known(c) = PlaceIn(q, c)
    BY DEF Known, PlaceIn, IsIn
  <1>1. r = IF PlaceIn(q, c) > Len(q) THEN Append(q, c) ELSE q
    BY <1>0 DEF Knows
  <1> HIDE DEF q, r
  <1>2. PICK n \in Nat : IsSeq(q, n) /\ \A a \in 1 .. n, b \in 1 .. n : q[a] = q[b] => a = b
    BY DEF Distinct, q
  <1>3. Len(q) = n /\ DOMAIN q = 1 .. n
    BY <1>2, SeqFacts
  <1>4. CASE IsIn(q, c)
    <2>1. PICK a \in 1 .. n : q[a] = c
      BY <1>3, <1>4 DEF IsIn
    <2>2. PlaceIn(q, c) = a
      BY <1>2, <2>1, PlaceFacts
    <2>3. r = q
      BY <1>1, <1>3, <2>2
    <2>4. Distinct(q)
      BY DEF q
    <2> QED
      BY <1>0, <1>3, <1>4, <2>1, <2>2, <2>3, <2>4, ExtendsItself DEF q, r
  <1>5. CASE ~IsIn(q, c)
    <2>1. PlaceIn(q, c) = n + 1
      BY <1>2, <1>5, PlaceFacts
    <2>2. r = Append(q, c)
      BY <1>1, <1>3, <2>1
    <2>3. IsSeq(r, n + 1) /\ r[n + 1] = c /\ \A a \in 1 .. n : r[a] = q[a]
      <3>1. IsAppend(Append(q, c), q, c, n)
        BY <1>2, AppendFacts
      <3>2. IsAppend(r, q, c, n)
        BY <2>2, <3>1
      <3> QED
        BY <3>2 DEF IsAppend
    <2>4. n + 1 \in Nat /\ DOMAIN r = 1 .. n + 1 /\ n + 1 \in 1 .. n + 1
      BY <2>3 DEF IsSeq
    <2>5. \A a \in 1 .. n + 1, b \in 1 .. n + 1 : r[a] = r[b] => a = b
      <3>1. \A a \in 1 .. n : q[a] # c
        BY <1>3, <1>5 DEF IsIn
      <3>2. \A a \in 1 .. n + 1 : a \in 1 .. n \/ a = n + 1
        OBVIOUS
      <3> QED
        BY <1>2, <2>3, <3>1, <3>2
    <2>6. Distinct(r)
      BY <2>3, <2>4, <2>5 DEF Distinct
    <2>7. \A a \in 1 .. n : a \in 1 .. n + 1
      OBVIOUS
    <2>8. \A a \in DOMAIN q : a \in DOMAIN r /\ r[a] = q[a]
      BY <1>3, <2>3, <2>4, <2>7
    <2>9. ASSUME NEW d, IsIn(q, d) PROVE IsIn(r, d) /\ PlaceIn(r, d) = PlaceIn(q, d)
      <3>1. PICK a \in 1 .. n : q[a] = d
        BY <1>3, <2>9 DEF IsIn
      <3>2. PlaceIn(q, d) = a
        BY <1>2, <3>1, PlaceFacts
      <3>3. r[a] = d /\ a \in DOMAIN r
        BY <1>3, <2>8, <3>1
      <3>4. PlaceIn(r, d) = a
        BY <2>3, <2>4, <2>5, <3>3, PlaceFacts
      <3> QED
        BY <3>2, <3>3, <3>4 DEF IsIn
    <2>10. PlaceIn(r, c) = n + 1 /\ IsIn(r, c)
      BY <2>3, <2>4, <2>5, PlaceFacts DEF IsIn
    <2>11. Extends(r, q)
      BY <2>8, <2>9 DEF Extends
    <2> QED
      BY <1>0, <2>1, <2>3, <2>4, <2>6, <2>10, <2>11 DEF q, r
  <1> QED
    BY <1>4, <1>5
-----------------------------------------------------------------------------
(* The bytes the threads digest *)

LEMMA OutSizeFacts ==
    ASSUME NEW a \in Names
    PROVE  OutByteSize(a) \in Nat /\ OutByteSize(a) <= BlockSize(a)
  BY DEF Names, OutByteSize, BlockSize

LEMMA BytesFacts ==
    ASSUME NEW t
    PROVE  /\ \A n : IsSeq(Fresh(t, n), n)
           /\ IsSeq(Key(t), job[t].key) /\ IsSeq(Text(t), job[t].text)
           /\ \A id : IsSeq(DigestBytes(t, id), OutByteSize(Alg(t)))
           /\ \A n : IsSeq(LE32(n), 4) /\ IsSeq(Zeros(n), n)
  BY DEF IsSeq, Fresh, Key, Text, DigestBytes, LE32, Zeros

\* Bytes that were not xored.
IsPlain(s) == \A a \in DOMAIN s : \E x, y : s[a] = <<x, y, {}>>

LEMMA PlainFacts ==
    ASSUME NEW t
    PROVE  /\ IsPlain(Key(t))
           /\ \A id : IsPlain(DigestBytes(t, id))
           /\ \A n : IsPlain(Zeros(n))
  <1>1. IsPlain(Key(t))
    BY DEF IsPlain, Key, MessageByte
  <1>2. ASSUME NEW id PROVE IsPlain(DigestBytes(t, id))
    BY DEF IsPlain, DigestBytes, DigestByte
  <1>3. ASSUME NEW n PROVE IsPlain(Zeros(n))
    BY DEF IsPlain, Zeros, Byte
  <1> QED
    BY <1>1, <1>2, <1>3

LEMMA MaskedFacts ==
    ASSUME NEW n \in Nat, NEW s, IsSeq(s, n), NEW mask
    PROVE  /\ IsSeq(Masked(s, mask), n)
           /\ \A a \in 1 .. n : Masked(s, mask)[a] = [s[a] EXCEPT ![3] = (@ \ mask) \cup (mask \ @)]
  <1>1. DOMAIN s = 1 .. n
    BY SeqFacts
  <1> QED
    BY <1>1 DEF Masked, IsSeq

LEMMA MaskedConcat ==
    ASSUME NEW m \in Nat, NEW n \in Nat, NEW s, NEW t, IsSeq(s, m), IsSeq(t, n), NEW mask
    PROVE  Masked(s, mask) \o Masked(t, mask) = Masked(s \o t, mask)
  <1> DEFINE x == s \o t
             r == Masked(x, mask)
             p == Masked(s, mask)
             q == Masked(t, mask)
  <1>1. IsConcat(x, s, m, t, n) /\ m + n \in Nat
    BY ConcatFacts
  <1> HIDE DEF x
  <1>2. IsSeq(x, m + n)
    BY <1>1 DEF IsConcat
  <1>3. /\ IsSeq(r, m + n) /\ IsSeq(p, m) /\ IsSeq(q, n)
        /\ \A a \in 1 .. m + n : r[a] = [x[a] EXCEPT ![3] = (@ \ mask) \cup (mask \ @)]
        /\ \A a \in 1 .. m : p[a] = [s[a] EXCEPT ![3] = (@ \ mask) \cup (mask \ @)]
        /\ \A a \in 1 .. n : q[a] = [t[a] EXCEPT ![3] = (@ \ mask) \cup (mask \ @)]
    BY <1>1, <1>2, MaskedFacts
  <1> HIDE DEF r, p, q
  <1>4. ASSUME NEW a \in 1 .. m + n PROVE r[a] = IF a <= m THEN p[a] ELSE q[a - m]
    <2>1. CASE a <= m
      <3>1. a \in 1 .. m /\ x[a] = s[a]
        BY <1>1, <2>1 DEF IsConcat
      <3> QED
        BY <1>3, <2>1, <3>1
    <2>2. CASE ~(a <= m)
      <3>1. a - m \in 1 .. n /\ x[a] = t[a - m]
        BY <1>1, <2>2 DEF IsConcat
      <3> QED
        BY <1>3, <2>2, <3>1
    <2> QED
      BY <2>1, <2>2
  <1>5. IsConcat(r, p, m, q, n)
    BY <1>3, <1>4 DEF IsConcat
  <1>6. p \o q = r
    BY <1>3, <1>5, ConcatIs
  <1> QED
    BY <1>6 DEF r, p, q, x

LEMMA ByteXored ==
    ASSUME NEW b, NEW x, NEW y, NEW m, b = <<x, y, m>>, NEW mask
    PROVE  [b EXCEPT ![3] = (@ \ mask) \cup (mask \ @)] = <<x, y, (m \ mask) \cup (mask \ m)>>
  <1>1. b[3] = m
    OBVIOUS
  <1>2. [<<x, y, m>> EXCEPT ![3] = (m \ mask) \cup (mask \ m)] = <<x, y, (m \ mask) \cup (mask \ m)>>
    OBVIOUS
  <1> QED
    BY <1>1, <1>2

\* xored with the one pad, then with both, a byte is xored with the other.
LEMMA PadsFacts ==
    ASSUME NEW n \in Nat, NEW s, IsSeq(s, n), IsPlain(s)
    PROVE  Masked(Masked(s, {"ipad"}), {"ipad", "opad"}) = Masked(s, {"opad"})
  <1> DEFINE p == Masked(s, {"ipad"})
             q == Masked(p, {"ipad", "opad"})
             r == Masked(s, {"opad"})
  <1>1. /\ IsSeq(p, n) /\ IsSeq(r, n)
        /\ \A a \in 1 .. n : p[a] = [s[a] EXCEPT ![3] = (@ \ {"ipad"}) \cup ({"ipad"} \ @)]
        /\ \A a \in 1 .. n : r[a] = [s[a] EXCEPT ![3] = (@ \ {"opad"}) \cup ({"opad"} \ @)]
    BY MaskedFacts
  <1> HIDE DEF p, r
  <1>2. /\ IsSeq(q, n)
        /\ \A a \in 1 .. n : q[a] = [p[a] EXCEPT ![3] = (@ \ {"ipad", "opad"}) \cup ({"ipad", "opad"} \ @)]
    BY <1>1, MaskedFacts
  <1> HIDE DEF q
  <1>3. DOMAIN s = 1 .. n
    BY SeqFacts
  <1>4. ASSUME NEW a \in 1 .. n PROVE q[a] = r[a]
    <2>1. PICK x, y : s[a] = <<x, y, {}>>
      BY <1>3 DEF IsPlain
    <2>2. p[a] = <<x, y, {"ipad"}>>
      <3>1. p[a] = [s[a] EXCEPT ![3] = (@ \ {"ipad"}) \cup ({"ipad"} \ @)]
        BY <1>1
      <3>2. ({} \ {"ipad"}) \cup ({"ipad"} \ {}) = {"ipad"}
        OBVIOUS
      <3> QED
        BY <2>1, <3>1, <3>2, ByteXored
    <2>3. r[a] = <<x, y, {"opad"}>>
      <3>1. r[a] = [s[a] EXCEPT ![3] = (@ \ {"opad"}) \cup ({"opad"} \ @)]
        BY <1>1
      <3>2. ({} \ {"opad"}) \cup ({"opad"} \ {}) = {"opad"}
        OBVIOUS
      <3> QED
        BY <2>1, <3>1, <3>2, ByteXored
    <2>4. ({"ipad"} \ {"ipad", "opad"}) \cup ({"ipad", "opad"} \ {"ipad"}) = {"opad"}
      OBVIOUS
    <2>5. q[a] = <<x, y, {"opad"}>>
      <3>1. q[a] = [p[a] EXCEPT ![3] = (@ \ {"ipad", "opad"}) \cup ({"ipad", "opad"} \ @)]
        BY <1>2
      <3> QED
        BY <2>2, <2>4, <3>1, ByteXored
    <2> QED
      BY <2>3, <2>5
  <1>5. q = r
    BY <1>1, <1>2, <1>4, SameSeq
  <1> QED
    BY <1>5 DEF p, q, r

LEMMA PlainConcat ==
    ASSUME NEW m \in Nat, NEW n \in Nat, NEW s, NEW t, IsSeq(s, m), IsSeq(t, n), IsPlain(s), IsPlain(t)
    PROVE  IsPlain(s \o t)
  <1> DEFINE x == s \o t
  <1>1. IsConcat(x, s, m, t, n)
    BY ConcatFacts
  <1> HIDE DEF x
  <1>2. IsSeq(x, m + n) /\ m + n \in Nat
    BY <1>1 DEF IsConcat
  <1>3. DOMAIN x = 1 .. m + n /\ DOMAIN s = 1 .. m /\ DOMAIN t = 1 .. n
    BY <1>2, SeqFacts
  <1>4. ASSUME NEW a \in 1 .. m + n PROVE \E y, z : x[a] = <<y, z, {}>>
    <2>1. CASE a <= m
      BY <1>1, <1>3, <2>1 DEF IsConcat, IsPlain
    <2>2. CASE ~(a <= m)
      <3>1. a - m \in 1 .. n
        BY <2>2
      <3> QED
        BY <1>1, <1>3, <2>2, <3>1, SMTT(30) DEF IsConcat, IsPlain
    <2> QED
      BY <2>1, <2>2
  <1>5. IsPlain(x)
    BY <1>3, <1>4 DEF IsPlain
  <1> QED
    BY <1>5 DEF x
-----------------------------------------------------------------------------
(* The key of hmac *)

HmacKey(t) == IF TooLong(t) THEN DigestBytes(t, Known(FipsBlocks(Alg(t), Key(t)))) ELSE Key(t)

LEMMA HmacKeyFacts ==
    ASSUME job \in Jobs, NEW t \in Threads, job[t].kind = "hmac"
    PROVE  /\ BlockSize(Alg(t)) \in Nat
           /\ RfcKey(t) = HmacKey(t) \o Zeros(BlockSize(Alg(t)) - Len(HmacKey(t)))
           /\ \E n \in Nat : n <= BlockSize(Alg(t)) /\ IsSeq(HmacKey(t), n) /\ IsPlain(HmacKey(t))
  <1>1. Alg(t) \in Names /\ job[t].key \in Nat
    BY JobsAssumption DEF Alg
  <1>2. BlockSize(Alg(t)) \in Nat /\ OutByteSize(Alg(t)) \in Nat /\ OutByteSize(Alg(t)) <= BlockSize(Alg(t))
    BY <1>1, SizeFacts, OutSizeFacts
  <1>3. RfcKey(t) = HmacKey(t) \o Zeros(BlockSize(Alg(t)) - Len(HmacKey(t)))
    BY DEF RfcKey, HmacKey, Filled, TooLong
  <1> DEFINE id == Known(FipsBlocks(Alg(t), Key(t)))
  <1>4. IsSeq(DigestBytes(t, id), OutByteSize(Alg(t))) /\ IsPlain(DigestBytes(t, id))
    BY BytesFacts, PlainFacts
  <1>5. IsSeq(Key(t), job[t].key) /\ IsPlain(Key(t))
    BY BytesFacts, PlainFacts
  <1>6. TooLong(t) => HmacKey(t) = DigestBytes(t, id)
    BY DEF HmacKey
  <1>7. ~TooLong(t) => HmacKey(t) = Key(t) /\ job[t].key <= BlockSize(Alg(t))
    BY <1>1, <1>2 DEF HmacKey, TooLong
  <1> HIDE DEF id
  <1> QED
    BY <1>1, <1>2, <1>3, <1>4, <1>5, <1>6, <1>7

LEMMA InnerKeyFacts ==
    ASSUME job \in Jobs, NEW t \in Threads, job[t].kind = "hmac", k[t] = HmacKey(t)
    PROVE  /\ BlockSize(Alg(t)) \in Nat
           /\ IsSeq(InnerKey(t), BlockSize(Alg(t)))
           /\ InnerKey(t) = Masked(RfcKey(t), {"ipad"})
           /\ Masked(InnerKey(t), {"ipad", "opad"}) = Masked(RfcKey(t), {"opad"})
  <1> DEFINE l == BlockSize(Alg(t))
             s == HmacKey(t)
  <1>1. /\ l \in Nat /\ RfcKey(t) = s \o Zeros(l - Len(s))
    BY HmacKeyFacts
  <1>2. PICK n \in Nat : n <= l /\ IsSeq(s, n) /\ IsPlain(s)
    BY HmacKeyFacts
  <1>3. Len(s) = n
    BY <1>2, SeqFacts
  <1>4. InnerKey(t) = Masked(s, {"ipad"}) \o Masked(Zeros(l - Len(s)), {"ipad"})
    BY DEF InnerKey
  <1> HIDE DEF l, s
  <1> DEFINE z == Zeros(l - n)
             r == s \o z
  <1>5. IsSeq(z, l - n) /\ IsPlain(z) /\ l - n \in Nat /\ n + (l - n) = l
    BY <1>1, <1>2, BytesFacts, PlainFacts
  <1>6. RfcKey(t) = r /\ InnerKey(t) = Masked(s, {"ipad"}) \o Masked(z, {"ipad"})
    BY <1>1, <1>3, <1>4
  <1> HIDE DEF z
  <1>7. Masked(s, {"ipad"}) \o Masked(z, {"ipad"}) = Masked(r, {"ipad"})
    BY <1>2, <1>5, MaskedConcat
  <1>8. IsConcat(r, s, n, z, l - n) /\ IsPlain(r)
    BY <1>2, <1>5, ConcatFacts, PlainConcat
  <1> HIDE DEF r
  <1>9. IsSeq(r, l)
    BY <1>5, <1>8 DEF IsConcat
  <1>10. IsSeq(Masked(r, {"ipad"}), l)
    BY <1>1, <1>9, MaskedFacts
  <1>11. Masked(Masked(r, {"ipad"}), {"ipad", "opad"}) = Masked(r, {"opad"})
    BY <1>1, <1>8, <1>9, PadsFacts
  <1> QED
    BY <1>1, <1>6, <1>7, <1>10, <1>11 DEF l

LEMMA OuterKeyFacts ==
    ASSUME job \in Jobs, NEW t \in Threads, job[t].kind = "hmac"
    PROVE  BlockSize(Alg(t)) \in Nat /\ IsSeq(Masked(RfcKey(t), {"opad"}), BlockSize(Alg(t)))
  <1> DEFINE l == BlockSize(Alg(t))
             s == HmacKey(t)
  <1>1. /\ l \in Nat /\ RfcKey(t) = s \o Zeros(l - Len(s))
    BY HmacKeyFacts
  <1>2. PICK n \in Nat : n <= l /\ IsSeq(s, n)
    BY HmacKeyFacts
  <1>3. Len(s) = n
    BY <1>2, SeqFacts
  <1> HIDE DEF l, s
  <1> DEFINE z == Zeros(l - n)
             r == s \o z
  <1>4. IsSeq(z, l - n) /\ l - n \in Nat /\ n + (l - n) = l
    BY <1>1, <1>2, BytesFacts
  <1>5. RfcKey(t) = r
    BY <1>1, <1>3
  <1> HIDE DEF z
  <1>6. IsConcat(r, s, n, z, l - n)
    BY <1>2, <1>4, ConcatFacts
  <1> HIDE DEF r
  <1>7. IsSeq(r, l)
    BY <1>4, <1>6 DEF IsConcat
  <1>8. IsSeq(Masked(r, {"opad"}), l)
    BY <1>1, <1>7, MaskedFacts
  <1> QED
    BY <1>1, <1>5, <1>8 DEF l
-----------------------------------------------------------------------------
(* The invariant *)

\* The object is one of the job's, and clear where the next step is a new
\* digest; a message's object holds what was asked for.
ObjectOK(t) ==
    /\ IsObject(obj[t]) /\ obj[t].alg = Alg(t) /\ obj[t].build = job[t].build /\ Lives(obj[t])
    /\ pc[t] = "stream" => Holds(obj[t], asked[t])
    /\ pc[t] \in {"again", "vector", "hmac", "inner", "outer", "password", "custom", "iterate"} =>
        Holds(obj[t], << >>)

PlaceOK(t) ==
    /\ pc[t] = "stream" => job[t].kind = "stream"
    /\ pc[t] = "vector" => job[t].kind = "vector"
    /\ pc[t] \in {"hmac", "inner", "outer"} => job[t].kind = "hmac"
    /\ pc[t] \in {"password", "custom"} => job[t].kind \in {"password", "custom"}
    /\ pc[t] \in {"custom", "read", "spin"} => job[t].kind = "custom"

\* hmac's key is the one of RFC 2104.
KeyOK(t) ==
    /\ pc[t] \in {"inner", "outer"} => (TooLong(t) => IsIn(known, FipsBlocks(Alg(t), Key(t))))
    /\ pc[t] = "inner" => k[t] = HmacKey(t)
    /\ pc[t] = "outer" => k[t] = Masked(RfcKey(t), {"opad"})

OutOK(t) ==
    /\ pc[t] \in {"stream", "keys", "cipher", "call", "encipher", "decipher"} => out[t] = 0
    /\ out[t] # 0 => out[t] \in DOMAIN known /\ known[out[t]] = FipsBlocks(Alg(t), asked[t])

ThreadOK(t) == ObjectOK(t) /\ PlaceOK(t) /\ KeyOK(t) /\ OutOK(t)

Functional(g) == g = [t \in Threads |-> g[t]]
States == Functional(obj) /\ Functional(pc) /\ Functional(asked) /\ Functional(k) /\ Functional(out)

CryptoInv == job \in Jobs /\ States /\ Distinct(known) /\ \A t \in Threads : ThreadOK(t)

LEMMA HmacKeyStays ==
    ASSUME NEW t \in Threads, Extends(known', known), job' = job, TooLong(t) => IsIn(known, FipsBlocks(Alg(t), Key(t)))
    PROVE  /\ HmacKey(t)' = HmacKey(t) /\ RfcKey(t)' = RfcKey(t)
           /\ (TooLong(t) => IsIn(known, FipsBlocks(Alg(t), Key(t))))'
  <1>1. TooLong(t)' = TooLong(t) /\ Alg(t)' = Alg(t) /\ Key(t)' = Key(t)
    BY DEF Alg, Key, TooLong
  <1> DEFINE c == FipsBlocks(Alg(t), Key(t))
  <1>2. c' = c
    BY <1>1
  <1>3. TooLong(t) => IsIn(known', c) /\ Known(c)' = Known(c)
    <2>1. Known(c)' = PlaceIn(known', c')
      BY DEF Known, PlaceIn, IsIn
    <2>2. Known(c) = PlaceIn(known, c)
      BY DEF Known, PlaceIn, IsIn
    <2>3. TooLong(t) => IsIn(known', c) /\ PlaceIn(known', c) = PlaceIn(known, c)
      <3> HIDE DEF c
      <3> QED
        BY DEF Extends, c
    <2> QED
      BY <1>2, <2>1, <2>2, <2>3
  <1>4. HmacKey(t)' = HmacKey(t)
    BY <1>1, <1>2, <1>3 DEF HmacKey, DigestBytes
  <1>5. RfcKey(t)' = RfcKey(t)
    BY <1>1, <1>4 DEF RfcKey, HmacKey, Filled, TooLong
  <1> QED
    BY <1>1, <1>2, <1>3, <1>4, <1>5

\* A thread that does nothing keeps all of it, whatever the others digest.
LEMMA OtherStays ==
    ASSUME NEW t \in Threads, ThreadOK(t), Extends(known', known), job' = job, obj'[t] = obj[t], pc'[t] = pc[t],
           asked'[t] = asked[t], k'[t] = k[t], out'[t] = out[t]
    PROVE  ThreadOK(t)'
  <1>1. ObjectOK(t)'
    BY DEF ThreadOK, ObjectOK, Alg
  <1>2. PlaceOK(t)'
    BY DEF ThreadOK, PlaceOK
  <1>3. OutOK(t)'
    BY DEF ThreadOK, OutOK, Alg, Extends
  <1>4. KeyOK(t)'
    <2>1. CASE pc[t] \in {"inner", "outer"}
      <3>1. (TooLong(t) => IsIn(known, FipsBlocks(Alg(t), Key(t)))) /\ job' = job
        BY <2>1 DEF ThreadOK, KeyOK
      <3>2. /\ HmacKey(t)' = HmacKey(t) /\ RfcKey(t)' = RfcKey(t)
            /\ (TooLong(t) => IsIn(known, FipsBlocks(Alg(t), Key(t))))'
        BY <3>1, HmacKeyStays
      <3> QED
        BY <2>1, <3>2 DEF ThreadOK, KeyOK
    <2>2. CASE pc[t] \notin {"inner", "outer"}
      BY <2>2 DEF KeyOK
    <2> QED
      BY <2>1, <2>2
  <1> QED
    BY <1>1, <1>2, <1>3, <1>4 DEF ThreadOK
-----------------------------------------------------------------------------
(* Every step that makes a digest *)

Joins(g, d, b) == g = d \o b

LEMMA CanBeUsed ==
    ASSUME NEW t \in Threads, ObjectOK(t), Ready(t)
    PROVE  IsPortable(obj[t]) \/ obj[t].live
  BY DEF ObjectOK, Ready, Lives, IsPortable

\* What TakeDigest leaves: the digest of g is in the thread's hands and its
\* object is clear.
Took(t, g) ==
    /\ job' = job /\ Distinct(known') /\ Extends(known', known)
    /\ Functional(obj') /\ Functional(out')
    /\ \A u \in Threads : u # t => obj'[u] = obj[u] /\ out'[u] = out[u]
    /\ IsObject(obj'[t]) /\ obj'[t].alg = Alg(t) /\ obj'[t].build = job[t].build
    /\ Lives(obj'[t]) /\ Holds(obj'[t], << >>)
    /\ out'[t] \in DOMAIN known' /\ known'[out'[t]] = FipsBlocks(Alg(t), g)
    /\ IsIn(known', FipsBlocks(Alg(t), g)) /\ out'[t] = PlaceIn(known', FipsBlocks(Alg(t), g))

LEMMA TakeDigestFacts ==
    ASSUME CryptoInv, NEW t \in Threads, NEW o, NEW d, Holds(o, d), SameMake(o, obj[t]),
           NEW m \in Nat, NEW b, IsSeq(b, m), TakeDigest(t, o, b), NEW g, Joins(g, d, b)
    PROVE  Took(t, g) /\ Digest(o, b).chain = FipsBlocks(Alg(t), g)
  <1> DEFINE digest == Digest(o, b)
             c == FipsBlocks(Alg(t), g)
  <1>1. /\ Ready(t) /\ out' = [out EXCEPT ![t] = Known(digest.chain)] /\ Knows(digest.chain)
        /\ obj' = [obj EXCEPT ![t] = Clear(digest.after)] /\ job' = job
    BY DEF TakeDigest, AfterDigest
  <1>2. ObjectOK(t) /\ Functional(obj) /\ Functional(out) /\ Distinct(known)
    BY DEF CryptoInv, ThreadOK, States
  <1>3. IsPortable(o) \/ o.live
    BY <1>1, <1>2, CanBeUsed DEF SameMake, IsPortable
  <1>4. /\ digest.chain = FipsBlocks(o.alg, d \o b)
        /\ Holds(Clear(digest.after), << >>) /\ Lives(Clear(digest.after))
        /\ Clear(digest.after).alg = o.alg /\ Clear(digest.after).build = o.build
    BY <1>3, DigestFacts
  <1>5. o.alg = Alg(t) /\ o.build = job[t].build
    BY <1>2 DEF ObjectOK, SameMake
  <1>6. digest.chain = c
    BY <1>4, <1>5 DEF Joins
  <1> HIDE DEF digest, c
  <1>7. /\ obj'[t] = Clear(digest.after) /\ out'[t] = Known(c)
        /\ \A u \in Threads : u # t => obj'[u] = obj[u] /\ out'[u] = out[u]
        /\ Functional(obj') /\ Functional(out')
    BY <1>1, <1>2, <1>6 DEF Functional
  <1>8. /\ Distinct(known') /\ Extends(known', known)
        /\ IsIn(known', c) /\ PlaceIn(known', c) = Known(c)
        /\ Known(c) \in DOMAIN known' /\ known'[Known(c)] = c
    BY <1>1, <1>2, <1>6, KnowsFacts
  <1>9. /\ Lives(obj'[t]) /\ Holds(obj'[t], << >>)
        /\ obj'[t].alg = Alg(t) /\ obj'[t].build = job[t].build
    BY <1>4, <1>5, <1>7
  <1>10. IsObject(obj'[t])
    BY <1>9 DEF Holds
  <1> QED
    BY <1>1, <1>6, <1>7, <1>8, <1>9, <1>10 DEF Took, digest, c

LEMMA DigestStep ==
    ASSUME CryptoInv, NEW t \in Threads, NEW g, Took(t, g), Asks(t, g),
           NEW p, GoesTo(t, p), p \notin {"stream", "keys", "cipher", "call", "encipher", "decipher"},
           NEW q, k' = [k EXCEPT ![t] = q], PlaceOK(t)', KeyOK(t)'
    PROVE  CryptoInv'
  <1>1. States /\ job \in Jobs /\ \A u \in Threads : ThreadOK(u)
    BY DEF CryptoInv
  <1>2. pc' = [pc EXCEPT ![t] = p] /\ asked' = [asked EXCEPT ![t] = g]
    BY DEF GoesTo, Asks
  <1>3. /\ States' /\ pc'[t] = p /\ asked'[t] = g
        /\ \A u \in Threads : u # t => pc'[u] = pc[u] /\ asked'[u] = asked[u] /\ k'[u] = k[u]
    BY <1>1, <1>2 DEF States, Functional, Took
  <1>4. job' = job /\ Distinct(known') /\ Extends(known', known)
    BY DEF Took
  <1>5. Alg(t)' = Alg(t)
    BY <1>4 DEF Alg
  <1>6. ObjectOK(t)'
    BY <1>3, <1>4, <1>5 DEF ObjectOK, Took
  <1>7. OutOK(t)'
    BY <1>3, <1>4, <1>5 DEF OutOK, Took
  <1>8. ThreadOK(t)'
    BY <1>6, <1>7 DEF ThreadOK
  <1>9. ASSUME NEW u \in Threads, u # t PROVE ThreadOK(u)'
    <2>1. obj'[u] = obj[u] /\ out'[u] = out[u]
      BY <1>9 DEF Took
    <2> QED
      BY <1>1, <1>3, <1>4, <1>9, <2>1, OtherStays
  <1>10. \A u \in Threads : ThreadOK(u)'
    BY <1>8, <1>9
  <1> QED
    BY <1>1, <1>3, <1>4, <1>10 DEF CryptoInv

LEMMA SameMakeItself == \A o : SameMake(o, o)
  BY DEF SameMake

LEMMA PhaseIs ==
    ASSUME CryptoInv, NEW t \in Threads, NEW p, GoesTo(t, p)
    PROVE  pc'[t] = p
  BY DEF CryptoInv, States, Functional, GoesTo

LEMMA DigestStreamStep ==
    ASSUME CryptoInv, NEW t \in Threads, DigestStream(t)
    PROVE  CryptoInv'
  <1>1. /\ job[t].kind = "stream" /\ Holds(obj[t], asked[t]) /\ States /\ job \in Jobs
    BY DEF DigestStream, CryptoInv, ThreadOK, ObjectOK, PlaceOK
  <1>2. PICK n \in job[t].lengths : TakeDigest(t, obj[t], Fresh(t, n)) /\ Asks(t, asked[t] \o Fresh(t, n))
    BY DEF DigestStream
  <1>3. n \in Nat /\ IsSeq(Fresh(t, n), n)
    BY <1>1, JobsAssumption, BytesFacts
  <1> DEFINE b == Fresh(t, n)
             g == asked[t] \o b
  <1>4. Joins(g, asked[t], b)
    BY DEF Joins
  <1>5. Asks(t, g) /\ TakeDigest(t, obj[t], b)
    BY <1>2
  <1> HIDE DEF b, g
  <1>6. Took(t, g)
    BY <1>1, <1>3, <1>4, <1>5, SameMakeItself, TakeDigestFacts DEF b
  <1>7. GoesTo(t, "again") /\ k' = [k EXCEPT ![t] = k[t]]
    BY <1>1 DEF DigestStream, States, Functional
  <1>8. pc'[t] = "again"
    BY <1>7, PhaseIs
  <1>9. PlaceOK(t)' /\ KeyOK(t)'
    BY <1>8 DEF PlaceOK, KeyOK
  <1> QED
    BY <1>5, <1>6, <1>7, <1>9, DigestStep

\* A digest of the bytes b alone, after which hmac's key plays no part.
LEMMA WholeDigestStep ==
    ASSUME CryptoInv, NEW t \in Threads, Holds(obj[t], << >>), NEW m \in Nat, NEW b, IsSeq(b, m),
           TakeDigest(t, obj[t], b), Asks(t, b), k' = k,
           NEW p, GoesTo(t, p), p \in {"done", "read", "iterate"}, p = "read" => job[t].kind = "custom"
    PROVE  CryptoInv'
  <1>1. Joins(b, << >>, b)
    BY ConcatEmpty DEF Joins
  <1>2. Took(t, b)
    BY <1>1, SameMakeItself, TakeDigestFacts
  <1>3. k' = [k EXCEPT ![t] = k[t]]
    BY DEF CryptoInv, States, Functional
  <1>4. pc'[t] = p
    BY PhaseIs
  <1>5. PlaceOK(t)'
    BY <1>2, <1>4 DEF PlaceOK, Took
  <1>6. KeyOK(t)'
    BY <1>4 DEF KeyOK
  <1> QED
    BY <1>2, <1>3, <1>5, <1>6, DigestStep

LEMMA DigestAgainStep ==
    ASSUME CryptoInv, NEW t \in Threads, DigestAgain(t)
    PROVE  CryptoInv'
  <1> DEFINE b == [a \in 1 .. 3 |-> MessageByte(1000 + a)]
  <1>1. IsSeq(b, 3)
    BY DEF IsSeq
  <1>2. Holds(obj[t], << >>)
    BY DEF DigestAgain, CryptoInv, ThreadOK, ObjectOK
  <1>3. TakeDigest(t, obj[t], b) /\ Asks(t, b) /\ GoesTo(t, "done") /\ k' = k
    BY DEF DigestAgain
  <1> HIDE DEF b
  <1> QED
    BY <1>1, <1>2, <1>3, WholeDigestStep

LEMMA DigestVectorStep ==
    ASSUME CryptoInv, NEW t \in Threads, DigestVector(t)
    PROVE  CryptoInv'
  <1> DEFINE b == [a \in DOMAIN job[t].message |-> Byte(job[t].message[a])]
  <1>1. Holds(obj[t], << >>) /\ job[t].kind = "vector" /\ job \in Jobs
    BY DEF DigestVector, CryptoInv, ThreadOK, ObjectOK, PlaceOK
  <1>2. job[t].message \in Seq(Nat)
    BY <1>1, JobsAssumption
  <1>3. PICK n \in Nat : DOMAIN job[t].message = 1 .. n
    BY <1>2, LenProperties, Zenon
  <1>4. IsSeq(b, n)
    BY <1>3 DEF IsSeq
  <1>5. TakeDigest(t, obj[t], b) /\ Asks(t, b) /\ GoesTo(t, "done") /\ k' = k
    BY DEF DigestVector
  <1> HIDE DEF b
  <1> QED
    BY <1>1, <1>4, <1>5, WholeDigestStep

LEMMA FirstHashStep ==
    ASSUME CryptoInv, NEW t \in Threads, FirstHash(t)
    PROVE  CryptoInv'
  <1> DEFINE b == Text(t)
             p == IF pc[t] = "custom" THEN "read" ELSE "iterate"
  <1>1. /\ Holds(obj[t], << >>) /\ job[t].kind \in {"password", "custom"} /\ job \in Jobs
        /\ pc[t] = "custom" => job[t].kind = "custom"
    BY DEF FirstHash, CryptoInv, ThreadOK, ObjectOK, PlaceOK
  <1>2. job[t].text \in Nat /\ IsSeq(b, job[t].text)
    BY <1>1, JobsAssumption, BytesFacts
  <1>3. TakeDigest(t, obj[t], b) /\ Asks(t, b) /\ GoesTo(t, p) /\ k' = k
    BY DEF FirstHash
  <1>4. p \in {"read", "iterate"} /\ (p = "read" => job[t].kind = "custom")
    BY <1>1
  <1> HIDE DEF b, p
  <1> QED
    BY <1>1, <1>2, <1>3, <1>4, WholeDigestStep

\* First x is fed, then b is digested.
LEMMA TwoPiecesFacts ==
    ASSUME CryptoInv, NEW t \in Threads, Holds(obj[t], << >>), Ready(t),
           NEW n \in Nat, NEW x, IsSeq(x, n), NEW m \in Nat, NEW b, IsSeq(b, m),
           TakeDigest(t, Update(obj[t], x), b), NEW g, Joins(g, x, b)
    PROVE  Took(t, g)
  <1>1. IsPortable(obj[t]) \/ obj[t].live
    BY CanBeUsed DEF CryptoInv, ThreadOK
  <1> DEFINE u == Update(obj[t], x)
             d == << >> \o x
  <1>2. Holds(u, d) /\ SameMake(u, obj[t])
    BY <1>1, UpdateFacts
  <1>3. d = x
    BY ConcatEmpty
  <1>4. TakeDigest(t, u, b)
    OBVIOUS
  <1> HIDE DEF u, d
  <1> QED
    BY <1>2, <1>3, <1>4, TakeDigestFacts

LEMMA IterateStep ==
    ASSUME CryptoInv, NEW t \in Threads, Iterate(t)
    PROVE  CryptoInv'
  <1> DEFINE x == LE32(pieces[t])
             b == DigestBytes(t, out[t])
             g == Iterated(t, pieces[t])
  <1>1. /\ Holds(obj[t], << >>) /\ job \in Jobs /\ States /\ pc[t] = "iterate"
    BY DEF Iterate, CryptoInv, ThreadOK, ObjectOK
  <1>2. IsSeq(x, 4) /\ IsSeq(b, OutByteSize(Alg(t))) /\ OutByteSize(Alg(t)) \in Nat
    BY <1>1, JobsAssumption, BytesFacts, OutSizeFacts DEF Alg
  <1>3. Joins(g, x, b)
    BY DEF Joins, Iterated
  <1>4. TakeDigest(t, Update(obj[t], x), b) /\ Asks(t, g) /\ pc' = pc /\ k' = k
    BY DEF Iterate
  <1> HIDE DEF x, b, g
  <1>5. Ready(t)
    BY <1>4 DEF TakeDigest
  <1>6. Took(t, g)
    BY <1>1, <1>2, <1>3, <1>4, <1>5, TwoPiecesFacts
  <1>7. GoesTo(t, "iterate") /\ k' = [k EXCEPT ![t] = k[t]]
    BY <1>1, <1>4 DEF GoesTo, States, Functional
  <1>8. PlaceOK(t)' /\ KeyOK(t)'
    BY <1>1, <1>4 DEF PlaceOK, KeyOK
  <1> QED
    BY <1>4, <1>6, <1>7, <1>8, DigestStep
-----------------------------------------------------------------------------
(* hmac *)

LEMMA HashKeyStep ==
    ASSUME CryptoInv, NEW t \in Threads, HashKey(t)
    PROVE  CryptoInv'
  <1> DEFINE b == Key(t)
             c == FipsBlocks(Alg(t), b)
             digest == Digest(obj[t], b)
  <1>1. /\ Holds(obj[t], << >>) /\ job[t].kind = "hmac" /\ job \in Jobs /\ States
    BY DEF HashKey, CryptoInv, ThreadOK, ObjectOK, PlaceOK
  <1>2. job[t].key \in Nat /\ IsSeq(b, job[t].key)
    BY <1>1, JobsAssumption, BytesFacts
  <1>3. /\ TakeDigest(t, obj[t], b) /\ Asks(t, b) /\ GoesTo(t, "inner") /\ TooLong(t)
        /\ k' = [k EXCEPT ![t] = DigestBytes(t, Known(digest.chain))]
    BY DEF HashKey
  <1>4. out' = [out EXCEPT ![t] = Known(digest.chain)]
    BY <1>3 DEF TakeDigest
  <1> HIDE DEF b
  <1>5. Joins(b, << >>, b)
    BY <1>2, ConcatEmpty DEF Joins
  <1>6. Took(t, b) /\ digest.chain = c
    BY <1>1, <1>2, <1>3, <1>5, SameMakeItself, TakeDigestFacts
  <1> HIDE DEF c, digest
  <1>7. out'[t] = Known(c)
    BY <1>1, <1>4, <1>6 DEF States, Functional
  <1>8. out'[t] = PlaceIn(known', c) /\ IsIn(known', c) /\ job' = job
    BY <1>6 DEF Took, c
  <1> DEFINE q == DigestBytes(t, Known(c))
  <1>9. k' = [k EXCEPT ![t] = q] /\ k'[t] = q
    BY <1>1, <1>3, <1>6 DEF States, Functional
  <1>10. Alg(t)' = Alg(t) /\ Key(t)' = Key(t) /\ TooLong(t)'
    BY <1>3, <1>8 DEF Alg, Key, TooLong
  <1>11. FipsBlocks(Alg(t), Key(t))' = c
    BY <1>10 DEF c, b
  <1>12. HmacKey(t)' = q
    <2>1. HmacKey(t)' = DigestBytes(t, Known(FipsBlocks(Alg(t), Key(t))))'
      BY <1>10 DEF HmacKey
    <2>2. Known(FipsBlocks(Alg(t), Key(t)))' = PlaceIn(known', FipsBlocks(Alg(t), Key(t))')
      BY DEF Known, PlaceIn, IsIn
    <2>3. Known(FipsBlocks(Alg(t), Key(t)))' = Known(c)
      BY <1>7, <1>8, <1>11, <2>2
    <2> QED
      BY <1>10, <2>1, <2>3 DEF DigestBytes
  <1>13. IsIn(known, FipsBlocks(Alg(t), Key(t)))'
    BY <1>8, <1>11
  <1>14. pc'[t] = "inner"
    BY <1>3, PhaseIs
  <1>15. KeyOK(t)'
    BY <1>9, <1>12, <1>13, <1>14 DEF KeyOK
  <1>16. PlaceOK(t)'
    BY <1>1, <1>8, <1>14 DEF PlaceOK
  <1> QED
    BY <1>3, <1>6, <1>9, <1>14, <1>15, <1>16, DigestStep

LEMMA InnerStep ==
    ASSUME CryptoInv, NEW t \in Threads, Inner(t)
    PROVE  CryptoInv'
  <1> DEFINE x == InnerKey(t)
             y == Masked(RfcKey(t), {"ipad"})
             b == Text(t)
             g == y \o b
             q == Masked(x, {"ipad", "opad"})
             l == BlockSize(Alg(t))
  <1>1. /\ Holds(obj[t], << >>) /\ job[t].kind = "hmac" /\ job \in Jobs /\ States
        /\ k[t] = HmacKey(t) /\ (TooLong(t) => IsIn(known, FipsBlocks(Alg(t), Key(t))))
    BY DEF Inner, CryptoInv, ThreadOK, ObjectOK, PlaceOK, KeyOK
  <1>2. job[t].text \in Nat /\ IsSeq(b, job[t].text)
    BY <1>1, JobsAssumption, BytesFacts
  <1>3. l \in Nat /\ IsSeq(x, l) /\ x = y /\ q = Masked(RfcKey(t), {"opad"})
    BY <1>1, InnerKeyFacts
  <1>4. Joins(g, y, b)
    BY DEF Joins
  <1>5. /\ TakeDigest(t, Update(obj[t], x), b) /\ Asks(t, g) /\ GoesTo(t, "outer")
        /\ k' = [k EXCEPT ![t] = q]
    BY DEF Inner
  <1> HIDE DEF x, y, b, g, q, l
  <1>6. Ready(t)
    BY <1>5 DEF TakeDigest
  <1>7. Joins(g, x, b)
    BY <1>3, <1>4
  <1>8. Took(t, g)
    BY <1>1, <1>2, <1>3, <1>5, <1>6, <1>7, TwoPiecesFacts
  <1>9. job' = job /\ Extends(known', known)
    BY <1>8 DEF Took
  <1>10. RfcKey(t)' = RfcKey(t) /\ (TooLong(t) => IsIn(known, FipsBlocks(Alg(t), Key(t))))'
    BY <1>1, <1>9, HmacKeyStays
  <1>11. k'[t] = Masked(RfcKey(t)', {"opad"})
    BY <1>1, <1>3, <1>5, <1>10 DEF States, Functional
  <1>12. pc'[t] = "outer"
    BY <1>5, PhaseIs
  <1>13. KeyOK(t)'
    BY <1>10, <1>11, <1>12 DEF KeyOK
  <1>14. PlaceOK(t)'
    BY <1>1, <1>9, <1>12 DEF PlaceOK
  <1> QED
    BY <1>5, <1>8, <1>13, <1>14, DigestStep

LEMMA OuterStep ==
    ASSUME CryptoInv, NEW t \in Threads, Outer(t)
    PROVE  CryptoInv'
  <1> DEFINE y == Masked(RfcKey(t), {"opad"})
             b == DigestBytes(t, out[t])
             g == y \o b
             l == BlockSize(Alg(t))
  <1>1. /\ Holds(obj[t], << >>) /\ job[t].kind = "hmac" /\ job \in Jobs /\ States
        /\ k[t] = y
    BY DEF Outer, CryptoInv, ThreadOK, ObjectOK, PlaceOK, KeyOK
  <1>2. IsSeq(b, OutByteSize(Alg(t))) /\ OutByteSize(Alg(t)) \in Nat
    BY <1>1, JobsAssumption, BytesFacts, OutSizeFacts DEF Alg
  <1>3. l \in Nat /\ IsSeq(y, l)
    BY <1>1, OuterKeyFacts
  <1>4. Joins(g, y, b)
    BY DEF Joins
  <1>5. TakeDigest(t, Update(obj[t], k[t]), b) /\ Asks(t, g) /\ GoesTo(t, "done") /\ k' = k
    BY DEF Outer
  <1> HIDE DEF y, b, g, l
  <1>6. Ready(t)
    BY <1>5 DEF TakeDigest
  <1>7. TakeDigest(t, Update(obj[t], y), b)
    BY <1>1, <1>5
  <1>8. Took(t, g)
    BY <1>1, <1>2, <1>3, <1>4, <1>6, <1>7, TwoPiecesFacts
  <1>9. k' = [k EXCEPT ![t] = k[t]]
    BY <1>1, <1>5 DEF States, Functional
  <1>10. pc'[t] = "done"
    BY <1>5, PhaseIs
  <1>11. KeyOK(t)' /\ PlaceOK(t)'
    BY <1>10 DEF KeyOK, PlaceOK
  <1> QED
    BY <1>5, <1>8, <1>9, <1>11, DigestStep

\* A step of t that digests nothing.
LEMMA QuietStep ==
    ASSUME CryptoInv, NEW t \in Threads, job' = job, known' = known, States',
           \A u \in Threads : u # t => /\ obj'[u] = obj[u] /\ pc'[u] = pc[u] /\ asked'[u] = asked[u]
                                       /\ k'[u] = k[u] /\ out'[u] = out[u],
           ThreadOK(t)'
    PROVE  CryptoInv'
  <1>1. Extends(known', known) /\ Distinct(known')
    BY ExtendsItself DEF CryptoInv
  <1>2. ASSUME NEW u \in Threads, u # t PROVE ThreadOK(u)'
    BY <1>1, <1>2, OtherStays DEF CryptoInv
  <1>3. \A u \in Threads : ThreadOK(u)'
    BY <1>2
  <1> QED
    BY <1>1, <1>3 DEF CryptoInv

LEMMA TakeKeyStep ==
    ASSUME CryptoInv, NEW t \in Threads, TakeKey(t)
    PROVE  CryptoInv'
  <1>1. States /\ ThreadOK(t)
    BY DEF CryptoInv
  <1>2. /\ pc[t] = "hmac" /\ ~TooLong(t) /\ k' = [k EXCEPT ![t] = Key(t)] /\ pc' = [pc EXCEPT ![t] = "inner"]
        /\ job' = job /\ obj' = obj /\ asked' = asked /\ out' = out /\ known' = known
    BY DEF TakeKey, GoesTo
  <1>3. /\ States' /\ pc'[t] = "inner" /\ k'[t] = Key(t)
        /\ \A u \in Threads : u # t => pc'[u] = pc[u] /\ k'[u] = k[u]
    BY <1>1, <1>2 DEF States, Functional
  <1>4. Alg(t)' = Alg(t) /\ Key(t)' = Key(t) /\ ~TooLong(t)'
    BY <1>2 DEF Alg, Key, TooLong
  <1>5. ObjectOK(t)' /\ PlaceOK(t)'
    BY <1>1, <1>2, <1>3, <1>4 DEF ThreadOK, ObjectOK, PlaceOK
  <1>6. KeyOK(t)'
    BY <1>3, <1>4 DEF KeyOK, HmacKey
  <1>7. OutOK(t)'
    BY <1>1, <1>2, <1>3, <1>4 DEF ThreadOK, OutOK
  <1>8. ThreadOK(t)'
    BY <1>5, <1>6, <1>7 DEF ThreadOK
  <1> QED
    BY <1>2, <1>3, <1>8, QuietStep
-----------------------------------------------------------------------------
(* The other steps *)

LEMMA UpdateStreamStep ==
    ASSUME CryptoInv, NEW t \in Threads, UpdateStream(t)
    PROVE  CryptoInv'
  <1>1. /\ job[t].kind = "stream" /\ Holds(obj[t], asked[t]) /\ States /\ job \in Jobs /\ pc[t] = "stream"
        /\ ObjectOK(t) /\ PlaceOK(t) /\ out[t] = 0
    BY DEF UpdateStream, CryptoInv, ThreadOK, ObjectOK, PlaceOK, OutOK
  <1>2. PICK n \in job[t].lengths : Feed(t, Fresh(t, n)) /\ Asks(t, asked[t] \o Fresh(t, n))
    BY DEF UpdateStream
  <1>3. n \in Nat /\ IsSeq(Fresh(t, n), n)
    BY <1>1, JobsAssumption, BytesFacts
  <1> DEFINE b == Fresh(t, n)
             g == asked[t] \o b
             u == Update(obj[t], b)
  <1>4. /\ Ready(t) /\ obj' = [obj EXCEPT ![t] = u] /\ asked' = [asked EXCEPT ![t] = g]
        /\ job' = job /\ out' = out /\ known' = known /\ pc' = pc /\ k' = k
    BY <1>2 DEF Feed, Asks, UpdateStream
  <1>5. IsPortable(obj[t]) \/ obj[t].live
    BY <1>1, <1>4, CanBeUsed
  <1>6. Holds(u, g) /\ SameMake(u, obj[t])
    BY <1>1, <1>3, <1>5, UpdateFacts
  <1> HIDE DEF b, g, u
  <1>7. /\ States' /\ obj'[t] = u /\ asked'[t] = g
        /\ \A v \in Threads : v # t => obj'[v] = obj[v] /\ asked'[v] = asked[v]
    BY <1>1, <1>4 DEF States, Functional
  <1>8. Alg(t)' = Alg(t)
    BY <1>4 DEF Alg
  <1>9. ObjectOK(t)'
    <2>1. obj'[t].alg = Alg(t) /\ obj'[t].build = job[t].build /\ Lives(obj'[t])
      BY <1>1, <1>6, <1>7 DEF ObjectOK, SameMake, Lives, IsPortable
    <2>2. IsObject(obj'[t])
      BY <1>6, <1>7 DEF Holds
    <2> QED
      BY <1>1, <1>4, <1>6, <1>7, <1>8, <2>1, <2>2 DEF ObjectOK
  <1>10. PlaceOK(t)' /\ KeyOK(t)' /\ OutOK(t)'
    BY <1>1, <1>4 DEF PlaceOK, KeyOK, OutOK
  <1>11. ThreadOK(t)'
    BY <1>9, <1>10 DEF ThreadOK
  <1> QED
    BY <1>4, <1>7, <1>11, QuietStep

\* The object is made or the thread gives up; what it holds is the same.
LEMMA CreateStep ==
    ASSUME CryptoInv, NEW t \in Threads, Create(t)
    PROVE  CryptoInv'
  <1> DEFINE l == apc'[t] = "hash"
             p == IF apc'[t] = "idle" THEN "threw" ELSE pc[t]
             u == [obj[t] EXCEPT !.live = l]
  <1>1. States /\ ThreadOK(t)
    BY DEF CryptoInv
  <1>2. /\ job[t].build = "bcrypt" /\ obj' = [obj EXCEPT ![t] = u] /\ pc' = [pc EXCEPT ![t] = p]
        /\ job' = job /\ asked' = asked /\ k' = k /\ out' = out /\ known' = known
    BY DEF Create
  <1>3. p \in {"threw", pc[t]}
    OBVIOUS
  <1> HIDE DEF p, l
  <1>4. ~IsPortable(obj[t]) /\ obj[t].build = "bcrypt"
    BY <1>1, <1>2 DEF ThreadOK, ObjectOK, IsPortable
  <1>5. ASSUME NEW d, Holds(obj[t], d) PROVE Holds(u, d)
    BY <1>4, <1>5 DEF Holds, IsObject, IsPortable
  <1>6. IsObject(u) /\ u.alg = obj[t].alg /\ u.build = obj[t].build
    BY <1>1 DEF ThreadOK, ObjectOK, IsObject
  <1> HIDE DEF u
  <1>7. /\ States' /\ obj'[t] = u /\ pc'[t] = p
        /\ \A v \in Threads : v # t => obj'[v] = obj[v] /\ pc'[v] = pc[v]
    BY <1>1, <1>2 DEF States, Functional
  <1>8. Alg(t)' = Alg(t)
    BY <1>2 DEF Alg
  <1>9. ObjectOK(t)'
    <2>1. Lives(u)
      BY <1>4, <1>6 DEF Lives
    <2>2. IsObject(u) /\ u.alg = Alg(t) /\ u.build = job[t].build
      BY <1>1, <1>6 DEF ThreadOK, ObjectOK
    <2>3. CASE p = "threw"
      BY <1>2, <1>7, <1>8, <2>1, <2>2, <2>3 DEF ObjectOK
    <2>4. CASE p = pc[t]
      BY <1>1, <1>2, <1>5, <1>7, <1>8, <2>1, <2>2, <2>4 DEF ThreadOK, ObjectOK
    <2> QED
      BY <1>3, <2>3, <2>4
  <1>10. PlaceOK(t)'
    BY <1>1, <1>2, <1>3, <1>7 DEF ThreadOK, PlaceOK
  <1>11. KeyOK(t)'
    <2>1. CASE p = "threw"
      BY <1>7, <2>1 DEF KeyOK
    <2>2. CASE p = pc[t]
      <3>1. HmacKey(t)' = HmacKey(t) /\ RfcKey(t)' = RfcKey(t) /\ Key(t)' = Key(t) /\ TooLong(t)' = TooLong(t)
        BY <1>2 DEF HmacKey, RfcKey, Filled, Key, TooLong, Alg, DigestBytes, Known
      <3> QED
        BY <1>1, <1>2, <1>7, <1>8, <2>2, <3>1 DEF ThreadOK, KeyOK
    <2> QED
      BY <1>3, <2>1, <2>2
  <1>12. OutOK(t)'
    BY <1>1, <1>2, <1>3, <1>7, <1>8 DEF ThreadOK, OutOK
  <1>13. ThreadOK(t)'
    BY <1>9, <1>10, <1>11, <1>12 DEF ThreadOK
  <1> QED
    BY <1>2, <1>7, <1>13, QuietStep

\* Steps of the cipher, of CustomSha1, and the last one of hashPassword.
LEMMA NoDigestStep ==
    ASSUME CryptoInv, NEW t \in Threads, job' = job, obj' = obj, out' = out, known' = known,
           NEW p, pc' = [pc EXCEPT ![t] = p], NEW a, asked' = [asked EXCEPT ![t] = a],
           NEW q, k' = [k EXCEPT ![t] = q],
           p \in {"done", "threw", "expanded", "spin", "encipher", "decipher"},
           p = "spin" => job[t].kind = "custom",
           out[t] = 0 \/ (a = asked[t] /\ p \notin {"encipher", "decipher"})
    PROVE  CryptoInv'
  <1>1. States /\ ThreadOK(t)
    BY DEF CryptoInv
  <1>2. /\ States' /\ pc'[t] = p /\ asked'[t] = a
        /\ \A u \in Threads : u # t => pc'[u] = pc[u] /\ asked'[u] = asked[u] /\ k'[u] = k[u]
    BY <1>1 DEF States, Functional
  <1>3. Alg(t)' = Alg(t)
    BY DEF Alg
  <1>4. ObjectOK(t)' /\ PlaceOK(t)' /\ KeyOK(t)' /\ OutOK(t)'
    BY <1>1, <1>2, <1>3 DEF ThreadOK, ObjectOK, PlaceOK, KeyOK, OutOK
  <1>5. ThreadOK(t)'
    BY <1>4 DEF ThreadOK
  <1> QED
    BY <1>2, <1>5, QuietStep

\* The cipher's threads never hold a digest.
LEMMA CipherSteps ==
    ASSUME CryptoInv, NEW t \in Threads,
           \/ SetUpKey(t) \/ SetUpEnciphering(t) \/ SetUpFails(t) \/ UpdateEnciphering(t) \/ UpdateFails(t)
           \/ SetUpDeciphering(t) \/ UpdateDeciphering(t) \/ FinalizeCipher(t) \/ CallCipher(t)
    PROVE  CryptoInv'
  <1>1. States /\ OutOK(t)
    BY DEF CryptoInv, ThreadOK
  <1> DEFINE Stay == job' = job /\ obj' = obj /\ out' = out /\ known' = known
             Ends == {"done", "threw", "expanded", "encipher", "decipher"}
  <1>2. asked = [asked EXCEPT ![t] = asked[t]] /\ k = [k EXCEPT ![t] = k[t]]
    BY <1>1 DEF States, Functional
  <1>3. /\ out[t] = 0 /\ Stay
        /\ \/ asked' = asked /\ k' = k
           \/ asked' = [asked EXCEPT ![t] = given] /\ k' = [k EXCEPT ![t] = made]
        /\ \E p \in Ends : pc' = [pc EXCEPT ![t] = p]
    <2>1. CASE SetUpKey(t)
      <3>1. PICK size \in KeySizes : GoesTo(t, IF size = job[t].size THEN "expanded" ELSE "threw")
        BY <2>1 DEF SetUpKey
      <3> QED
        BY <1>1, <2>1, <3>1 DEF SetUpKey, CipherStep, GoesTo, OutOK
    <2>2. CASE SetUpEnciphering(t)
      BY <1>1, <2>2 DEF SetUpEnciphering, CipherStep, GoesTo, OutOK
    <2>3. CASE SetUpFails(t)
      BY <1>1, <2>3 DEF SetUpFails, CipherThrows, CipherStep, GoesTo, OutOK
    <2>4. CASE UpdateEnciphering(t)
      <3>1. pc' = [pc EXCEPT ![t] = "encipher"]
        BY <1>1, <2>4 DEF UpdateEnciphering, States, Functional
      <3> QED
        BY <1>1, <2>4, <3>1 DEF UpdateEnciphering, CipherStep, OutOK
    <2>5. CASE UpdateFails(t)
      BY <1>1, <2>5 DEF UpdateFails, CipherThrows, CipherStep, GoesTo, OutOK
    <2>6. CASE SetUpDeciphering(t)
      BY <1>1, <2>6 DEF SetUpDeciphering, CipherStep, GoesTo, OutOK
    <2>7. CASE UpdateDeciphering(t)
      <3>1. pc[t] = "decipher" /\ Stay /\ asked' = asked /\ k' = k /\ pc' = pc
        BY <2>7 DEF UpdateDeciphering, CipherStep
      <3>2. pc' = [pc EXCEPT ![t] = "decipher"]
        BY <1>1, <3>1 DEF States, Functional
      <3> QED
        BY <1>1, <3>1, <3>2 DEF OutOK
    <2>8. CASE FinalizeCipher(t)
      BY <1>1, <2>8 DEF FinalizeCipher, CipherStep, GoesTo, OutOK
    <2>9. CASE CallCipher(t)
      <3>1. pc[t] = "call" /\ Stay /\ asked' = asked /\ k' = k /\ GoesTo(t, "done")
        BY <2>9 DEF CallCipher, CipherStep
      <3> QED
        BY <1>1, <3>1 DEF GoesTo, OutOK
    <2> QED
      BY <2>1, <2>2, <2>3, <2>4, <2>5, <2>6, <2>7, <2>8, <2>9
  <1>4. PICK p \in Ends : pc' = [pc EXCEPT ![t] = p]
    BY <1>3
  <1>5. CASE asked' = asked /\ k' = k
    <2>1. asked' = [asked EXCEPT ![t] = asked[t]] /\ k' = [k EXCEPT ![t] = k[t]]
      BY <1>2, <1>5
    <2> QED
      BY <1>3, <1>4, <2>1, NoDigestStep
  <1>6. CASE asked' = [asked EXCEPT ![t] = given] /\ k' = [k EXCEPT ![t] = made]
    BY <1>3, <1>4, <1>6, NoDigestStep
  <1> QED
    BY <1>3, <1>5, <1>6

LEMMA CustomReadStep ==
    ASSUME CryptoInv, NEW t \in Threads, CustomRead(t) \/ ReturnHash(t)
    PROVE  CryptoInv'
  <1>1. States /\ PlaceOK(t)
    BY DEF CryptoInv, ThreadOK
  <1>2. asked = [asked EXCEPT ![t] = asked[t]] /\ k = [k EXCEPT ![t] = k[t]]
    BY <1>1 DEF States, Functional
  <1> DEFINE p == IF CustomRead(t) THEN "spin" ELSE "done"
  <1>3. /\ job' = job /\ obj' = obj /\ out' = out /\ known' = known /\ asked' = asked /\ k' = k
        /\ pc' = [pc EXCEPT ![t] = p] /\ (p = "spin" => job[t].kind = "custom")
    BY <1>1 DEF CustomRead, ReturnHash, GoesTo, PlaceOK
  <1>4. p \in {"spin", "done"}
    OBVIOUS
  <1> HIDE DEF p
  <1>5. asked' = [asked EXCEPT ![t] = asked[t]] /\ k' = [k EXCEPT ![t] = k[t]]
    BY <1>2, <1>3
  <1> QED
    BY <1>3, <1>4, <1>5, NoDigestStep

\* The block that the other build digests.
LEMMA IteratedBlockFacts ==
    ASSUME job \in Jobs, NEW t \in Threads, job[t].kind = "custom"
    PROVE  IteratedBlock(t) = FipsBlocks(Alg(t), Iterated(t, iteration))
  <1> DEFINE x == LE32(iteration)
             b == DigestBytes(t, out[t])
             o == New("SHA1", "portable")
             u == Update(o, x)
             d == << >> \o x
  <1>1. Alg(t) = "SHA1" /\ "SHA1" \in Names
    BY JobsAssumption DEF Alg, Names
  <1>2. IsSeq(x, 4) /\ IsSeq(b, OutByteSize(Alg(t))) /\ OutByteSize(Alg(t)) \in Nat
    BY <1>1, BytesFacts, OutSizeFacts
  <1>3. Holds(o, << >>) /\ o.alg = "SHA1" /\ o.build = "portable"
    BY <1>1, NewFacts
  <1> HIDE DEF x, b, o
  <1>4. IsPortable(o)
    BY <1>3 DEF IsPortable
  <1>5. Holds(u, d) /\ SameMake(u, o)
    BY <1>2, <1>3, <1>4, UpdateFacts
  <1>6. d = x
    BY <1>2, ConcatEmpty
  <1> HIDE DEF u, d
  <1>7. IsPortable(u) /\ u.alg = "SHA1" /\ Holds(u, x)
    BY <1>3, <1>5, <1>6 DEF IsPortable, SameMake
  <1>8. Digest(u, b).chain = FipsBlocks(u.alg, x \o b)
    BY <1>2, <1>7, DigestFacts
  <1>9. IteratedBlock(t) = Digest(u, b).chain /\ Iterated(t, iteration) = x \o b
    BY DEF IteratedBlock, Iterated, u, o, x, b
  <1> QED
    BY <1>1, <1>7, <1>8, <1>9

LEMMA CustomChainStep ==
    ASSUME CryptoInv, NEW t \in Threads, CustomChain(t)
    PROVE  CryptoInv'
  <1> DEFINE c == IteratedBlock(t)
             g == Iterated(t, iteration)
  <1>1. /\ States /\ job \in Jobs /\ Distinct(known) /\ \A u \in Threads : ThreadOK(u)
        /\ pc[t] = "spin" /\ job[t].kind = "custom"
    BY DEF CryptoInv, ThreadOK, PlaceOK, CustomChain
  <1>2. c = FipsBlocks(Alg(t), g)
    BY <1>1, IteratedBlockFacts
  <1>3. /\ Knows(c) /\ out' = [out EXCEPT ![t] = Known(c)] /\ asked' = [asked EXCEPT ![t] = g]
        /\ job' = job /\ obj' = obj /\ pc' = pc /\ k' = k
    BY DEF CustomChain, Asks
  <1> HIDE DEF c, g
  <1>4. /\ Distinct(known') /\ Extends(known', known)
        /\ Known(c) \in DOMAIN known' /\ known'[Known(c)] = c
    BY <1>1, <1>3, KnowsFacts
  <1>5. /\ States' /\ out'[t] = Known(c) /\ asked'[t] = g
        /\ \A u \in Threads : u # t => asked'[u] = asked[u] /\ out'[u] = out[u]
    BY <1>1, <1>3 DEF States, Functional
  <1>6. Alg(t)' = Alg(t)
    BY <1>3 DEF Alg
  <1>7. ObjectOK(t)' /\ PlaceOK(t)' /\ KeyOK(t)'
    BY <1>1, <1>3, <1>6 DEF ThreadOK, ObjectOK, PlaceOK, KeyOK
  <1>8. OutOK(t)'
    BY <1>1, <1>2, <1>3, <1>4, <1>5, <1>6 DEF OutOK
  <1>9. ThreadOK(t)'
    BY <1>7, <1>8 DEF ThreadOK
  <1>10. ASSUME NEW u \in Threads, u # t PROVE ThreadOK(u)'
    BY <1>1, <1>3, <1>4, <1>5, <1>10, OtherStays
  <1>11. \A u \in Threads : ThreadOK(u)'
    BY <1>9, <1>10
  <1> QED
    BY <1>1, <1>3, <1>4, <1>5, <1>11 DEF CryptoInv

LEMMA SameThreads ==
    ASSUME CryptoInv, UNCHANGED threadVars
    PROVE  CryptoInv'
  <1>1. /\ job' = job /\ obj' = obj /\ pc' = pc /\ asked' = asked /\ k' = k /\ out' = out /\ known' = known
    BY DEF threadVars
  <1>2. States' /\ Distinct(known') /\ Extends(known', known)
    BY <1>1, ExtendsItself DEF CryptoInv, States
  <1>3. ASSUME NEW u \in Threads PROVE ThreadOK(u)'
    BY <1>1, <1>2, OtherStays DEF CryptoInv
  <1> QED
    BY <1>1, <1>2, <1>3 DEF CryptoInv

LEMMA CryptoInvNext == CryptoInv /\ [Next]_vars => CryptoInv'
  <1> SUFFICES ASSUME CryptoInv, [Next]_vars PROVE CryptoInv'
    OBVIOUS
  <1>1. CASE UNCHANGED vars
    BY <1>1, SameThreads DEF vars
  <1>2. CASE AllDone
    BY <1>2, SameThreads DEF AllDone, vars
  <1>3. ASSUME NEW t \in Threads, Step(t) PROVE CryptoInv'
    <2>1. CASE CustomRounds(t)
      BY <2>1, SameThreads DEF CustomRounds
    <2> QED
      BY <1>3, <2>1, CipherSteps, CreateStep, UpdateStreamStep, DigestStreamStep, DigestAgainStep,
         DigestVectorStep, HashKeyStep, TakeKeyStep, InnerStep, OuterStep, FirstHashStep, IterateStep,
         CustomReadStep, CustomChainStep
         DEF Step
  <1> QED
    BY <1>1, <1>2, <1>3 DEF Next

LEMMA CryptoInvInit == Init => CryptoInv
  <1> SUFFICES ASSUME Init PROVE CryptoInv
    OBVIOUS
  <1>1. /\ job \in Jobs /\ known = << >>
        /\ obj = [t \in Threads |-> New(job[t].alg, job[t].build)]
        /\ pc = [t \in Threads |-> job[t].kind] /\ asked = [t \in Threads |-> << >>]
        /\ k = [t \in Threads |-> << >>] /\ out = [t \in Threads |-> 0]
    BY DEF Init
  <1>2. States
    BY <1>1 DEF States, Functional
  <1>3. Distinct(known)
    BY <1>1, EmptyIs DEF Distinct
  <1>4. ASSUME NEW t \in Threads PROVE ThreadOK(t)
    <2>1. /\ pc[t] = job[t].kind /\ asked[t] = << >> /\ out[t] = 0 /\ obj[t] = New(Alg(t), job[t].build)
          /\ Alg(t) \in Names
      BY <1>1, JobsAssumption DEF Alg
    <2>2. /\ Holds(obj[t], << >>) /\ Lives(obj[t]) /\ obj[t].alg = Alg(t) /\ obj[t].build = job[t].build
      BY <2>1, NewFacts
    <2>3. IsObject(obj[t])
      BY <2>2 DEF Holds
    <2>4. ObjectOK(t)
      BY <2>1, <2>2, <2>3 DEF ObjectOK
    <2>5. job[t].kind \in {"stream", "vector", "hmac", "password", "custom", "keys", "cipher", "call", "done"}
      BY <1>1, JobsAssumption
    <2>6. PlaceOK(t) /\ KeyOK(t) /\ OutOK(t)
      BY <2>1, <2>5 DEF PlaceOK, KeyOK, OutOK
    <2> QED
      BY <2>4, <2>6 DEF ThreadOK
  <1> QED
    BY <1>1, <1>2, <1>3, <1>4 DEF CryptoInv

\* However a message is cut into pieces, whichever library digests it, and
\* whatever the object digested before, a digest is that of the bytes it was
\* asked for and an HMAC is RFC 2104's: for every number of threads, message,
\* key, number of iterations and limit of the libraries (Hash and Hmac of
\* cybozu/crypto.hpp, hashPassword of crypto_util.hpp).
THEOREM DigestsAreOfTheirBytes == Spec => []DigestOfItsBytes
  <1>1. Init => CryptoInv
    BY CryptoInvInit
  <1>2. CryptoInv /\ [Next]_vars => CryptoInv'
    BY CryptoInvNext
  <1>3. CryptoInv => DigestOfItsBytes
    BY DEF CryptoInv, ThreadOK, OutOK, DigestOfItsBytes
  <1> QED
    BY <1>1, <1>2, <1>3, PTL DEF Spec
-----------------------------------------------------------------------------
(* The provider of a Windows build.  What hAlg_ needs beside the types: its *)
(* handle is open, it stays with a thread that has left open, and whoever   *)
(* is inside open has an open handle that is not yet the shared one.        *)

Shared == hAlg # NoHandle => handle[hAlg] = "open" /\ ~Opening(hAlg) /\ apc[hAlg] # "provider"
Owned == \A t \in Threads : Opening(t) => handle[t] = "open"
HandleStays == \A t \in Threads : apc[t] \in {"close", "opened", "hash"} => hAlg # NoHandle

AlgInv == AlgTypeOK /\ Shared /\ Owned /\ HandleStays /\ OneHandleStays

LEMMA AlgInvInit == AlgInit => AlgInv
  BY NoHandleAssumption
     DEF AlgInit, AlgInv, AlgTypeOK, Shared, Owned, HandleStays, OneHandleStays, Opening

\* Each step of open or of a hash object preserves the invariant.
LEMMA AlgInvStep ==
    ASSUME AlgInv, NEW t \in Threads, AlgStep(t)
    PROVE  AlgInv'
  <1> USE NoHandleAssumption, ObjSizeAssumption
         DEF AlgInv, AlgTypeOK, Shared, Owned, HandleStays, OneHandleStays, Opening, Goes
  <1>1. CASE Test(t)
    BY <1>1 DEF Test
  <1>2. CASE OpenAlgorithmProvider(t)
    BY <1>2 DEF OpenAlgorithmProvider
  <1>3. CASE GetProperty(t)
    BY <1>3 DEF GetProperty
  <1>4. CASE SetObjSize(t)
    BY <1>4 DEF SetObjSize
  <1>5. CASE Exchange(t)
    BY <1>5 DEF Exchange
  <1>6. CASE CloseLoser(t)
    BY <1>6 DEF CloseLoser
  <1>7. CASE CreateHash(t)
    BY <1>7 DEF CreateHash
  <1>8. CASE DestroyHash(t)
    BY <1>8 DEF DestroyHash
  <1> QED
    BY <1>1, <1>2, <1>3, <1>4, <1>5, <1>6, <1>7, <1>8 DEF AlgStep

LEMMA AlgInvNext == AlgInv /\ [AlgNext]_algVars => AlgInv'
  <1> SUFFICES ASSUME AlgInv, [AlgNext]_algVars PROVE AlgInv'
    OBVIOUS
  <1>1. CASE AlgNext
    BY <1>1, AlgInvStep DEF AlgNext
  <1>2. CASE UNCHANGED algVars
    BY <1>2 DEF algVars, AlgInv, AlgTypeOK, Shared, Owned, HandleStays, OneHandleStays, Opening
  <1> QED
    BY <1>1, <1>2

LEMMA AlgInvIsSafe == AlgInv => AlgSafe
  BY DEF AlgInv, AlgTypeOK, Shared, HandleStays, OneHandleStays, AlgSafe, HashesAreUsable

\* Threads that open the shared provider at the same time leave one handle
\* open, and no hash is ever made of a closed one (BCryptAlg::open).
THEOREM AlgSafety == AlgSpec => []AlgSafe
  <1>1. AlgInit => AlgInv
    BY AlgInvInit
  <1>2. AlgInv /\ [AlgNext]_algVars => AlgInv'
    BY AlgInvNext
  <1>3. AlgInv => AlgSafe
    BY AlgInvIsSafe
  <1> QED
    BY <1>1, <1>2, <1>3, PTL DEF AlgSpec

\* The same for the threads that make their digests with it: objects come and
\* go in every order the digests allow (createHash and the destructor of
\* cybozu/sha2.hpp's BCryptHash, called by Hash and Hmac).
THEOREM SafeInUse == Spec => []AlgSafe
  <1>1. Init => AlgInv
    BY AlgInvInit DEF Init
  <1>2. AlgInv /\ [Next]_vars => AlgInv'
    <2> SUFFICES ASSUME AlgInv, [Next]_vars PROVE AlgInv'
      OBVIOUS
    <2>1. CASE UNCHANGED algVars
      BY <2>1, AlgInvNext
    <2>2. ASSUME NEW t \in Threads, AlgStep(t) PROVE AlgInv'
      BY <2>2, AlgInvStep
    <2>3. ASSUME NEW t \in Threads, NEW o, NEW b, TakeDigest(t, o, b) PROVE AlgInv'
      BY <2>1, <2>2, <2>3 DEF TakeDigest, Finished, AlgStep
    <2>4. ASSUME NEW t \in Threads, Step(t) PROVE AlgInv'
      <3>1. CASE \/ SetUpKey(t) \/ SetUpEnciphering(t) \/ SetUpFails(t) \/ UpdateEnciphering(t) \/ UpdateFails(t)
                \/ SetUpDeciphering(t) \/ UpdateDeciphering(t) \/ FinalizeCipher(t) \/ CallCipher(t)
        BY <2>1, <3>1
           DEF SetUpKey, SetUpEnciphering, SetUpFails, UpdateEnciphering, UpdateFails, CipherThrows,
               SetUpDeciphering, UpdateDeciphering, FinalizeCipher, CallCipher, CipherStep
      <3>2. CASE UpdateStream(t) \/ TakeKey(t) \/ CustomRead(t) \/ CustomRounds(t) \/ CustomChain(t) \/ ReturnHash(t)
        BY <2>1, <3>2 DEF UpdateStream, Feed, TakeKey, CustomRead, CustomRounds, CustomChain, ReturnHash
      <3>3. CASE Create(t)
        BY <2>2, <3>3 DEF Create
      <3>4. CASE \/ DigestStream(t) \/ DigestAgain(t) \/ DigestVector(t) \/ HashKey(t)
                \/ Inner(t) \/ Outer(t) \/ FirstHash(t) \/ Iterate(t)
        BY <2>3, <3>4 DEF DigestStream, DigestAgain, DigestVector, HashKey, Inner, Outer, FirstHash, Iterate
      <3> QED
        BY <2>4, <3>1, <3>2, <3>3, <3>4 DEF Step
    <2> QED
      BY <2>1, <2>4 DEF Next, AllDone, vars
  <1>3. AlgInv => AlgSafe
    BY AlgInvIsSafe
  <1> QED
    BY <1>1, <1>2, <1>3, PTL DEF Spec
-----------------------------------------------------------------------------
(* Words that are xored *)

\* Of the words at I, those at A are the words of w at the slots T, and the
\* others are zero.
LEMMA XorSame ==
    ASSUME NEW I, IsFiniteSet(I), NEW A, A \subseteq I, NEW T, NEW v, NEW w, NEW g,
           \A i \in A : g[i] \in T /\ w[g[i]] = v[i],
           \A i \in I \ A : v[i] = {},
           \A i \in A, j \in A : g[i] = g[j] => i = j,
           \A s \in T : \E i \in A : g[i] = s
    PROVE  XorOf(w, T) = XorOf(v, I)
  <1> DEFINE From(x) == {i \in I : x \in v[i]}
             To(x) == {s \in T : x \in w[s]}
  <1>1. UNION {w[s] : s \in T} = UNION {v[i] : i \in I}
    <2>1. ASSUME NEW x, x \in UNION {w[s] : s \in T} PROVE x \in UNION {v[i] : i \in I}
      <3>1. PICK s \in T : x \in w[s]
        BY <2>1
      <3>2. PICK i \in A : g[i] = s
        BY <3>1
      <3> QED
        BY <3>1, <3>2
    <2>2. ASSUME NEW x, x \in UNION {v[i] : i \in I} PROVE x \in UNION {w[s] : s \in T}
      <3>1. PICK i \in I : x \in v[i]
        BY <2>2
      <3>2. i \in A
        BY <3>1
      <3> QED
        BY <3>1, <3>2
    <2> QED
      BY <2>1, <2>2
  <1>2. ASSUME NEW x PROVE Cardinality(To(x)) = Cardinality(From(x))
    <2> DEFINE F == From(x)
               U == To(x)
               h == [i \in F |-> g[i]]
    <2>1. IsFiniteSet(F)
      BY FS_Subset
    <2>2. \A i \in F : i \in A
      OBVIOUS
    <2>3. h \in [F -> U]
      BY <2>2
    <2>4. \A i \in F, j \in F : h[i] = h[j] => i = j
      BY <2>2
    <2>5. ASSUME NEW s \in U PROVE \E i \in F : h[i] = s
      <3>1. PICK i \in A : g[i] = s
        BY <2>5
      <3>2. i \in F
        BY <2>5, <3>1
      <3> QED
        BY <3>1, <3>2
    <2> HIDE DEF F, U, h
    <2>6. h \in Bijection(F, U)
      BY <2>3, <2>4, <2>5 DEF Bijection, Injection, Surjection, IsInjective
    <2>7. U # {} \/ U = {}
      OBVIOUS
    <2>8. Cardinality(F) = Cardinality(U)
      BY <2>1, <2>6, FS_Bijection DEF ExistsBijection
    <2> QED
      BY <2>8 DEF F, U
  <1> QED
    BY <1>1, <1>2 DEF XorOf

\* The same words on the same places.
LEMMA XorOfSame ==
    ASSUME NEW I, NEW v, NEW w, \A i \in I : w[i] = v[i]
    PROVE  XorOf(w, I) = XorOf(v, I)
  BY DEF XorOf
-----------------------------------------------------------------------------
(* SHA-1's schedule of a block *)

Terms4(i) == {i - 3, i - 8, i - 14, i - 16}

\* w has n words of the schedule of b.
IsSchedule(w, b, n) ==
    /\ IsSeq(w, n)
    /\ \A i \in 1 .. 16 : w[i] = WordsOf(b)[i]
    /\ \A i \in 17 .. n : w[i] = RotlOne(XorOf(w, Terms4(i)))

LEMMA ExtendedIs ==
    ASSUME NEW n \in Nat, n >= 16, NEW w, NEW b, IsSchedule(w, b, n)
    PROVE  IsSchedule(Extended(w), b, n + 1)
  <1> DEFINE x == RotlOne(XorOf(w, {Len(w) - a : a \in {2, 7, 13, 15}}))
             e == Extended(w)
  <1>1. e = Append(w, x)
    BY DEF Extended
  <1>2. IsSeq(w, n)
    BY DEF IsSchedule
  <1>3. Len(w) = n
    BY <1>2, SeqFacts
  <1>4. {Len(w) - a : a \in {2, 7, 13, 15}} = Terms4(n + 1)
    <2>1. /\ n - 2 = (n + 1) - 3 /\ n - 7 = (n + 1) - 8
          /\ n - 13 = (n + 1) - 14 /\ n - 15 = (n + 1) - 16
      OBVIOUS
    <2>2. {n - a : a \in {2, 7, 13, 15}} = {n - 2, n - 7, n - 13, n - 15}
      OBVIOUS
    <2> QED
      BY <1>3, <2>1, <2>2 DEF Terms4
  <1>5. x = RotlOne(XorOf(w, Terms4(n + 1)))
    BY <1>4
  <1> HIDE DEF x, e
  <1>6. IsAppend(e, w, x, n)
    BY <1>1, <1>2, AppendFacts
  <1>7. IsSeq(e, n + 1) /\ e[n + 1] = x /\ \A a \in 1 .. n : e[a] = w[a]
    BY <1>6 DEF IsAppend
  <1>8. ASSUME NEW i \in 1 .. 16 PROVE e[i] = WordsOf(b)[i]
    BY <1>7 DEF IsSchedule
  <1>9. ASSUME NEW i \in 17 .. n + 1 PROVE e[i] = RotlOne(XorOf(e, Terms4(i)))
    <2>1. \A j \in Terms4(i) : j \in 1 .. n
      BY DEF Terms4
    <2>2. XorOf(e, Terms4(i)) = XorOf(w, Terms4(i))
      BY <1>7, <2>1, XorOfSame
    <2>3. CASE i = n + 1
      BY <1>5, <1>7, <2>2, <2>3
    <2>4. CASE i \in 17 .. n
      BY <1>7, <2>2, <2>4 DEF IsSchedule
    <2> QED
      BY <2>3, <2>4
  <1> QED
    BY <1>7, <1>8, <1>9 DEF IsSchedule, e

\* The function that Schedule is the last value of, as far as m.
IsUpTo(e, b, m) == e = [n \in 16 .. m |-> IF n = 16 THEN WordsOf(b) ELSE Extended(e[n - 1])]

LEMMA UpToExists ==
    ASSUME NEW b, NEW m \in Nat
    PROVE  \E e : IsUpTo(e, b, 16 + m)
  <1> DEFINE S == {i \in Nat : \E e : IsUpTo(e, b, 16 + i)}
  <1>1. 0 \in S
    <2> DEFINE e == [n \in 16 .. 16 + 0 |-> WordsOf(b)]
    <2>1. IsUpTo(e, b, 16 + 0)
      BY DEF IsUpTo
    <2> QED
      BY <2>1
  <1>2. ASSUME NEW i \in Nat, i \in S PROVE i + 1 \in S
    <2>1. PICK e : IsUpTo(e, b, 16 + i)
      BY <1>2
    <2> DEFINE y == [n \in 16 .. 16 + (i + 1) |-> IF n = 16 + (i + 1) THEN Extended(e[n - 1]) ELSE e[n]]
               z == [n \in 16 .. 16 + (i + 1) |-> IF n = 16 THEN WordsOf(b) ELSE Extended(y[n - 1])]
    <2>2. ASSUME NEW n \in 16 .. 16 + (i + 1) PROVE y[n] = IF n = 16 THEN WordsOf(b) ELSE Extended(y[n - 1])
      <3>1. CASE n = 16
        BY <2>1, <3>1 DEF IsUpTo
      <3>2. CASE n # 16
        <4>1. n - 1 \in 16 .. 16 + i /\ n - 1 \in 16 .. 16 + (i + 1) /\ n - 1 # 16 + (i + 1)
          BY <3>2
        <4>2. y[n - 1] = e[n - 1]
          BY <4>1
        <4>3. CASE n = 16 + (i + 1)
          BY <3>2, <4>2, <4>3
        <4>4. CASE n # 16 + (i + 1)
          <5>1. n \in 16 .. 16 + i /\ y[n] = e[n]
            BY <4>4
          <5>2. e[n] = Extended(e[n - 1])
            BY <2>1, <3>2, <5>1 DEF IsUpTo
          <5> QED
            BY <3>2, <4>2, <5>1, <5>2
        <4> QED
          BY <4>3, <4>4
      <3> QED
        BY <3>1, <3>2
    <2>3. y = z
      BY <2>2
    <2>4. IsUpTo(y, b, 16 + (i + 1))
      <3> HIDE DEF y
      <3> QED
        BY <2>3 DEF IsUpTo
    <2> HIDE DEF y, z
    <2> QED
      BY <2>4
  <1> HIDE DEF S
  <1>3. Nat \subseteq S
    BY <1>1, <1>2, NatSetInduction
  <1> QED
    BY <1>3 DEF S

LEMMA ScheduleFacts ==
    ASSUME NEW b, IsSeq(WordsOf(b), 16)
    PROVE  IsSchedule(Schedule(b), b, 80)
  <1> DEFINE y == CHOOSE e : IsUpTo(e, b, 80)
  <1>1. IsUpTo(y, b, 80)
    <2>1. \E e : IsUpTo(e, b, 16 + 64)
      BY UpToExists
    <2> QED
      BY <2>1
  <1>2. Schedule(b) = y[80]
    <2>1. Schedule(b) = (CHOOSE e : e = [n \in 16 .. RoundCount |->
                              IF n = 16 THEN WordsOf(b) ELSE Extended(e[n - 1])])[RoundCount]
      BY DEF Schedule
    <2> QED
      BY <2>1 DEF IsUpTo, RoundCount
  <1> HIDE DEF y
  <1> DEFINE S == {i \in Nat : 16 + i <= 80 => IsSchedule(y[16 + i], b, 16 + i)}
  <1>3. 0 \in S
    <2>1. y[16] = WordsOf(b)
      BY <1>1 DEF IsUpTo
    <2>2. IsSchedule(y[16], b, 16)
      BY <2>1 DEF IsSchedule
    <2> QED
      BY <2>2
  <1>4. ASSUME NEW i \in Nat, i \in S PROVE i + 1 \in S
    <2> SUFFICES ASSUME 16 + (i + 1) <= 80 PROVE IsSchedule(y[16 + (i + 1)], b, 16 + (i + 1))
      OBVIOUS
    <2> DEFINE n == 16 + i
    <2>1. n \in Nat /\ n >= 16 /\ n <= 80 /\ 16 + (i + 1) = n + 1 /\ n + 1 \in 16 .. 80 /\ (n + 1) - 1 = n
      OBVIOUS
    <2>2. IsSchedule(y[n], b, n)
      BY <1>4, <2>1
    <2>3. y[n + 1] = Extended(y[n])
      <3> HIDE DEF n
      <3> QED
        BY <1>1, <2>1 DEF IsUpTo
    <2> HIDE DEF n, S
    <2>4. IsSchedule(y[n + 1], b, n + 1)
      BY <2>1, <2>2, <2>3, ExtendedIs
    <2> QED
      BY <2>1, <2>4
  <1> HIDE DEF S
  <1>5. 64 \in S
    BY <1>3, <1>4, NatSetInduction
  <1>6. IsSchedule(y[80], b, 80)
    <2>1. 64 \in Nat /\ 16 + 64 = 80
      OBVIOUS
    <2> QED
      BY <1>5, <2>1 DEF S
  <1> QED
    BY <1>2, <1>6
-----------------------------------------------------------------------------
(* The words of the block that an iteration digests *)

\* The number 192 shifted by whole bytes.
IsShifted(e) == e = [j \in 0 .. 7 |-> IF j = 0 THEN 192 ELSE e[j - 1] \div 256]

LEMMA ShiftedFacts ==
    ASSUME NEW e, IsShifted(e)
    PROVE  e[0] = 192 /\ \A j \in 1 .. 7 : e[j] = 0
  <1>1. \A j \in 1 .. 7 : j \in 0 .. 7 /\ j # 0
    OBVIOUS
  <1>2. e[0] = 192 /\ \A j \in 1 .. 7 : e[j] = e[j - 1] \div 256
    BY <1>1 DEF IsShifted
  <1>3. \A u : (u = 192 \/ u = 0) => u \div 256 = 0
    OBVIOUS
  <1>4. e[1] = 0
    <2>1. e[1] = e[0] \div 256
      BY <1>2
    <2> QED
      BY <1>2, <1>3, <2>1
  <1>5. e[2] = 0
    <2>1. e[2] = e[1] \div 256
      BY <1>2
    <2> QED
      BY <1>4, <1>3, <2>1
  <1>6. e[3] = 0
    <2>1. e[3] = e[2] \div 256
      BY <1>2
    <2> QED
      BY <1>5, <1>3, <2>1
  <1>7. e[4] = 0
    <2>1. e[4] = e[3] \div 256
      BY <1>2
    <2> QED
      BY <1>6, <1>3, <2>1
  <1>8. e[5] = 0
    <2>1. e[5] = e[4] \div 256
      BY <1>2
    <2> QED
      BY <1>7, <1>3, <2>1
  <1>9. e[6] = 0
    <2>1. e[6] = e[5] \div 256
      BY <1>2
    <2> QED
      BY <1>8, <1>3, <2>1
  <1>10. e[7] = 0
    <2>1. e[7] = e[6] \div 256
      BY <1>2
    <2> QED
      BY <1>9, <1>3, <2>1
  <1>11. \A j \in 1 .. 7 : j = 1 \/ j = 2 \/ j = 3 \/ j = 4 \/ j = 5 \/ j = 6 \/ j = 7
    OBVIOUS
  <1> QED
    BY <1>2, <1>4, <1>5, <1>6, <1>7, <1>8, <1>9, <1>10, <1>11

LEMMA SizeBytes ==
    ASSUME NEW v, v = BE64(192)
    PROVE  IsSeq(v, 8) /\ (\A i \in 1 .. 7 : v[i] = Byte(0)) /\ v[8] = Byte(192)
  <1> DEFINE g == [j \in 0 .. 7 |-> IF j = 0 THEN 192 ELSE 0]
             e == CHOOSE e : IsShifted(e)
  <1>1. IsShifted(g)
    <2>1. 192 \div 256 = 0 /\ 0 \div 256 = 0
      OBVIOUS
    <2>2. \A j \in 0 .. 7 : j # 0 => g[j - 1] \div 256 = 0
      BY <2>1
    <2>3. g = [j \in 0 .. 7 |-> IF j = 0 THEN 192 ELSE g[j - 1] \div 256]
      BY <2>2
    <2> QED
      BY <2>3 DEF IsShifted
  <1> HIDE DEF g
  <1>2. IsShifted(e)
    BY <1>1
  <1>3. v = [b \in 1 .. 8 |-> Byte(e[8 - b] % 256)]
    BY DEF BE64, IsShifted
  <1> HIDE DEF e
  <1>4. e[0] = 192 /\ \A j \in 1 .. 7 : e[j] = 0
    BY <1>2, ShiftedFacts
  <1>5. 0 % 256 = 0 /\ 192 % 256 = 192 /\ 8 - 8 = 0 /\ \A i \in 1 .. 7 : 8 - i \in 1 .. 7
    OBVIOUS
  <1>6. ASSUME NEW i \in 1 .. 7 PROVE v[i] = Byte(0)
    BY <1>3, <1>4, <1>5
  <1>7. v[8] = Byte(192)
    BY <1>3, <1>4, <1>5
  <1>8. IsSeq(v, 8)
    BY BE64Seq
  <1> QED
    BY <1>6, <1>7, <1>8

\* The block of an iteration number x and a digest d.
IsIterated(p, x, d) ==
    /\ IsSeq(p, 64)
    /\ \A i \in 1 .. 4 : p[i] = x[i]
    /\ \A i \in 1 .. 20 : p[4 + i] = d[i]
    /\ p[25] = Byte(128)
    /\ \A i \in 26 .. 63 : p[i] = Byte(0)
    /\ p[64] = Byte(192)

LEMMA IteratedBytes ==
    ASSUME NEW x, NEW d, IsSeq(x, 4), IsSeq(d, 20)
    PROVE  IsIterated(FipsBlocks("SHA1", x \o d)[1], x, d)
  <1> DEFINE m == x \o d
             o == <<Byte(128)>>
             z == Zeros(31)
             v == BE64(192)
             e == m \o o
             f3 == e \o z
             p == f3 \o v
  <1>1. IsConcat(m, x, 4, d, 20)
    BY ConcatFacts
  <1>2. IsSeq(o, 1) /\ o[1] = Byte(128)
    BY OneSeq
  <1>3. IsSeq(z, 31) /\ \A i \in 1 .. 31 : z[i] = Byte(0)
    BY DEF Zeros, IsSeq
  <1>4. IsSeq(v, 8) /\ (\A i \in 1 .. 7 : v[i] = Byte(0)) /\ v[8] = Byte(192)
    BY SizeBytes
  <1>5. FipsBlocks("SHA1", m)[1] = SubSeq(p, 1, 64)
    <2>1. Len(m) = 24 /\ IsSeq(m, 24)
      <3> HIDE DEF m
      <3>1. IsSeq(m, 24)
        BY <1>1 DEF IsConcat
      <3> QED
        BY <3>1, SeqFacts
    <2> HIDE DEF m
    <2>2. IsConcat(e, m, 24, o, 1)
      BY <1>2, <2>1, ConcatFacts
    <2> HIDE DEF e, o
    <2>3. IsSeq(e, 25)
      BY <2>2 DEF IsConcat
    <2>4. IsConcat(f3, e, 25, z, 31)
      BY <1>3, <2>3, ConcatFacts
    <2> HIDE DEF f3, z
    <2>5. IsSeq(f3, 56)
      BY <2>4 DEF IsConcat
    <2>6. IsConcat(p, f3, 56, v, 8)
      BY <1>4, <2>5, ConcatFacts
    <2> HIDE DEF p, v
    <2>7. IsSeq(p, 64)
      BY <2>6 DEF IsConcat
    <2>8. Len(p) = 64
      BY <2>7, SeqFacts
    <2>9. BlockSize("SHA1") = 64 /\ MsgLenByte("SHA1") = 8
      BY DEF BlockSize, MsgLenByte
    <2>10. (-(Len(m) + 1 + 8)) % 64 = 31 /\ 31 + 8 - 8 = 31 /\ 8 * Len(m) = 192
      <3>1. \A y \in 0 .. 63 : \A u \in Int : u = y - 64 => u % 64 = y
        OBVIOUS
      <3>2. -(Len(m) + 1 + 8) = 31 - 64 /\ -(Len(m) + 1 + 8) \in Int
        BY <2>1
      <3>3. (-(Len(m) + 1 + 8)) % 64 = 31
        BY <3>1, <3>2
      <3> QED
        BY <2>1, <3>3
    <2>11. p = m \o <<Byte(128)>> \o Zeros(((-(Len(m) + 1 + 8)) % 64) + 8 - 8) \o BE64(8 * Len(m))
      BY <2>10 DEF p, f3, e, o, z, v
    <2>12. FipsBlocks("SHA1", m) = Blocks(p, Len(p) \div 64, 64)
      BY <2>9, <2>11 DEF FipsBlocks
    <2>13. Len(p) \div 64 = 1
      BY <2>8
    <2>14. Blocks(p, 1, 64)[1] = SubSeq(p, ((1 - 1) * 64) + 1, 1 * 64)
      BY DEF Blocks
    <2>15. ((1 - 1) * 64) + 1 = 1 /\ 1 * 64 = 64
      OBVIOUS
    <2> QED
      BY <2>12, <2>13, <2>14, <2>15
  <1> HIDE DEF m, o, z, v
  <1>6. IsSeq(m, 24)
    BY <1>1 DEF IsConcat
  <1>7. IsConcat(e, m, 24, o, 1)
    BY <1>2, <1>6, ConcatFacts
  <1> HIDE DEF e
  <1>8. IsSeq(e, 25)
    BY <1>7 DEF IsConcat
  <1>9. IsConcat(f3, e, 25, z, 31)
    BY <1>3, <1>8, ConcatFacts
  <1> HIDE DEF f3
  <1>10. IsSeq(f3, 56)
    BY <1>9 DEF IsConcat
  <1>11. IsConcat(p, f3, 56, v, 8)
    BY <1>4, <1>10, ConcatFacts
  <1> HIDE DEF p
  <1>12. IsSeq(p, 64)
    BY <1>11 DEF IsConcat
  <1>13. SubSeq(p, 1, 64) = p
    BY <1>12, HeadIsAll
  <1>14. \A i \in 1 .. 24 : p[i] = m[i]
    BY <1>7, <1>9, <1>11 DEF IsConcat
  <1>15. \A i \in 1 .. 4 : p[i] = x[i]
    BY <1>1, <1>14 DEF IsConcat
  <1>16. ASSUME NEW i \in 1 .. 20 PROVE p[4 + i] = d[i]
    <2>1. 4 + i \in 1 .. 24 /\ ~(4 + i <= 4) /\ (4 + i) - 4 = i
      OBVIOUS
    <2> QED
      BY <1>1, <1>14, <2>1 DEF IsConcat
  <1>17. p[25] = Byte(128)
    BY <1>2, <1>7, <1>9, <1>11 DEF IsConcat
  <1>18. ASSUME NEW i \in 26 .. 63 PROVE p[i] = Byte(0)
    <2>1. CASE i <= 56
      <3>1. i \in 1 .. 56 /\ ~(i <= 25) /\ i - 25 \in 1 .. 31
        BY <2>1
      <3> QED
        BY <1>3, <1>9, <1>11, <2>1, <3>1 DEF IsConcat
    <2>2. CASE ~(i <= 56)
      <3>1. i \in 1 .. 64 /\ i - 56 \in 1 .. 7
        BY <2>2
      <3> QED
        BY <1>4, <1>11, <2>2, <3>1 DEF IsConcat
    <2> QED
      BY <2>1, <2>2
  <1>19. p[64] = Byte(192)
    BY <1>4, <1>11 DEF IsConcat
  <1> QED
    BY <1>5, <1>12, <1>13, <1>15, <1>16, <1>17, <1>18, <1>19 DEF IsIterated, m

LEMMA QuadIs ==
    ASSUME NEW n \in Nat, NEW p, IsSeq(p, n), NEW a \in Nat, (4 * a) + 4 <= n,
           NEW q, IsSeq(q, 4), \A i \in 1 .. 4 : p[(4 * a) + i] = q[i]
    PROVE  SubSeq(p, (4 * a) + 1, (4 * a) + 4) = q
  <1> DEFINE s == SubSeq(p, (4 * a) + 1, (4 * a) + 4)
  <1>1. 4 * a \in Nat
    OBVIOUS
  <1>2. IsSeq(s, 4) /\ \A i \in 1 .. 4 : s[i] = p[(4 * a) + i]
    BY <1>1, SubSeqFacts
  <1> HIDE DEF s
  <1>3. s = q
    BY <1>2, SameSeq
  <1> QED
    BY <1>3 DEF s

LEMMA WordsFacts ==
    ASSUME NEW c \in Nat, NEW p, IsSeq(p, 4 * c)
    PROVE  /\ IsSeq(WordsOf(p), c)
           /\ \A a \in Nat : a < c => WordsOf(p)[a + 1] = WordOf(SubSeq(p, (4 * a) + 1, (4 * a) + 4))
  <1>1. 4 * c \in Nat /\ (4 * c) \div 4 = c
    OBVIOUS
  <1>2. Len(p) = 4 * c
    BY <1>1, SeqFacts
  <1>3. WordsOf(p) = [a \in 1 .. c |-> WordOf(SubSeq(p, (4 * a) - 3, 4 * a))]
    BY <1>1, <1>2 DEF WordsOf
  <1>4. IsSeq(WordsOf(p), c)
    BY <1>3 DEF IsSeq
  <1>5. ASSUME NEW a \in Nat, a < c PROVE WordsOf(p)[a + 1] = WordOf(SubSeq(p, (4 * a) + 1, (4 * a) + 4))
    <2>1. a + 1 \in 1 .. c /\ (4 * (a + 1)) - 3 = (4 * a) + 1 /\ 4 * (a + 1) = (4 * a) + 4
      BY <1>5
    <2> QED
      BY <1>3, <2>1
  <1> QED
    BY <1>4, <1>5

\* What the words of an iteration's block are: the slots that digestOnce sets,
\* and zeros in the places of its locals.
IterationWords(v, x, d) ==
    /\ IsSeq(v, 16)
    /\ v[1] = WordOf(x)
    /\ \A s \in 1 .. 5 : v[s + 1] = WordsOf(d)[s]
    /\ v[7] = WordOf(<<Byte(128), Byte(0), Byte(0), Byte(0)>>)
    /\ \A i \in 8 .. 15 : v[i] = {}
    /\ v[16] = WordOf(<<Byte(0), Byte(0), Byte(0), Byte(192)>>)

LEMMA FourSeq == \A x, y, z, w : IsSeq(<<x, y, z, w>>, 4)
  BY DEF IsSeq

LEMMA IterationWordsFacts ==
    ASSUME NEW p, NEW x, NEW d, IsSeq(x, 4), IsSeq(d, 20), IsIterated(p, x, d)
    PROVE  IterationWords(WordsOf(p), x, d)
  <1>1. IsSeq(p, 64)
    BY DEF IsIterated
  <1>2. IsSeq(WordsOf(p), 16) /\ \A a \in Nat : a < 16 => WordsOf(p)[a + 1] = WordOf(SubSeq(p, (4 * a) + 1, (4 * a) + 4))
    <2>1. 16 \in Nat /\ 4 * 16 = 64
      OBVIOUS
    <2> QED
      BY <1>1, <2>1, WordsFacts
  <1>3. IsSeq(WordsOf(d), 5) /\ \A a \in Nat : a < 5 => WordsOf(d)[a + 1] = WordOf(SubSeq(d, (4 * a) + 1, (4 * a) + 4))
    <2>1. 5 \in Nat /\ 4 * 5 = 20
      OBVIOUS
    <2> QED
      BY <2>1, WordsFacts
  <1>4. ASSUME NEW a \in Nat, a < 16, NEW q, IsSeq(q, 4), \A i \in 1 .. 4 : p[(4 * a) + i] = q[i]
        PROVE  WordsOf(p)[a + 1] = WordOf(q)
    <2>1. (4 * a) + 4 <= 64 /\ 64 \in Nat
      BY <1>4
    <2>2. SubSeq(p, (4 * a) + 1, (4 * a) + 4) = q
      BY <1>1, <1>4, <2>1, QuadIs
    <2> QED
      BY <1>2, <1>4, <2>2
  <1>5. WordsOf(p)[1] = WordOf(x)
    <2>1. 0 \in Nat /\ 0 < 16 /\ 0 + 1 = 1 /\ \A i \in 1 .. 4 : (4 * 0) + i = i
      OBVIOUS
    <2>2. \A i \in 1 .. 4 : p[(4 * 0) + i] = x[i]
      BY <2>1 DEF IsIterated
    <2> QED
      BY <1>4, <2>1, <2>2
  <1>6. ASSUME NEW s \in 1 .. 5 PROVE WordsOf(p)[s + 1] = WordsOf(d)[s]
    <2> DEFINE a == s - 1
               q == SubSeq(d, (4 * a) + 1, (4 * a) + 4)
    <2>1. a \in Nat /\ a < 5 /\ a + 1 = s /\ (4 * a) + 4 <= 20 /\ 4 * a \in Nat /\ 20 \in Nat
      OBVIOUS
    <2>2. WordsOf(d)[s] = WordOf(q)
      <3> HIDE DEF a
      <3> QED
        BY <1>3, <2>1
    <2> HIDE DEF a
    <2>3. IsSeq(q, 4) /\ \A i \in 1 .. 4 : q[i] = d[(4 * a) + i]
      BY <2>1, SubSeqFacts
    <2> HIDE DEF q
    <2>4. s \in Nat /\ s < 16 /\ \A i \in 1 .. 4 : (4 * s) + i = 4 + ((4 * a) + i) /\ (4 * a) + i \in 1 .. 20
      BY <2>1
    <2>5. \A i \in 1 .. 4 : p[(4 * s) + i] = q[i]
      BY <2>3, <2>4 DEF IsIterated
    <2> QED
      BY <1>4, <2>2, <2>3, <2>4, <2>5
  <1>7. WordsOf(p)[7] = WordOf(<<Byte(128), Byte(0), Byte(0), Byte(0)>>)
    <2> DEFINE q == <<Byte(128), Byte(0), Byte(0), Byte(0)>>
    <2>1. IsSeq(q, 4) /\ q[1] = Byte(128) /\ q[2] = Byte(0) /\ q[3] = Byte(0) /\ q[4] = Byte(0)
      BY FourSeq
    <2>2. p[25] = Byte(128) /\ p[26] = Byte(0) /\ p[27] = Byte(0) /\ p[28] = Byte(0)
      BY DEF IsIterated
    <2> HIDE DEF q
    <2>3. \A i \in 1 .. 4 : i = 1 \/ i = 2 \/ i = 3 \/ i = 4
      OBVIOUS
    <2>4. (4 * 6) + 1 = 25 /\ (4 * 6) + 2 = 26 /\ (4 * 6) + 3 = 27 /\ (4 * 6) + 4 = 28
      OBVIOUS
    <2>5. \A i \in 1 .. 4 : p[(4 * 6) + i] = q[i]
      BY <2>1, <2>2, <2>3, <2>4
    <2>6. 6 \in Nat /\ 6 < 16 /\ 6 + 1 = 7
      OBVIOUS
    <2> QED
      BY <1>4, <2>1, <2>5, <2>6 DEF q
  <1>8. ASSUME NEW i \in 8 .. 15 PROVE WordsOf(p)[i] = {}
    <2> DEFINE a == i - 1
               q == Zeros(4)
    <2>1. a \in Nat /\ a < 16 /\ a + 1 = i /\ \A c \in 1 .. 4 : (4 * a) + c \in 26 .. 63
      OBVIOUS
    <2>2. IsSeq(q, 4) /\ \A c \in 1 .. 4 : q[c] = Byte(0)
      BY DEF Zeros, IsSeq
    <2> HIDE DEF a, q
    <2>3. \A c \in 1 .. 4 : p[(4 * a) + c] = q[c]
      BY <2>1, <2>2 DEF IsIterated
    <2>4. WordsOf(p)[i] = WordOf(q)
      BY <1>4, <2>1, <2>2, <2>3
    <2> QED
      BY <2>4 DEF WordOf, q
  <1>9. WordsOf(p)[16] = WordOf(<<Byte(0), Byte(0), Byte(0), Byte(192)>>)
    <2> DEFINE q == <<Byte(0), Byte(0), Byte(0), Byte(192)>>
    <2>1. IsSeq(q, 4) /\ q[1] = Byte(0) /\ q[2] = Byte(0) /\ q[3] = Byte(0) /\ q[4] = Byte(192)
      BY FourSeq
    <2>2. p[61] = Byte(0) /\ p[62] = Byte(0) /\ p[63] = Byte(0) /\ p[64] = Byte(192)
      BY DEF IsIterated
    <2> HIDE DEF q
    <2>3. \A i \in 1 .. 4 : i = 1 \/ i = 2 \/ i = 3 \/ i = 4
      OBVIOUS
    <2>4. (4 * 15) + 1 = 61 /\ (4 * 15) + 2 = 62 /\ (4 * 15) + 3 = 63 /\ (4 * 15) + 4 = 64
      OBVIOUS
    <2>5. \A i \in 1 .. 4 : p[(4 * 15) + i] = q[i]
      BY <2>1, <2>2, <2>3, <2>4
    <2>6. 15 \in Nat /\ 15 < 16 /\ 15 + 1 = 16
      OBVIOUS
    <2> QED
      BY <1>4, <2>1, <2>5, <2>6 DEF q
  <1> QED
    BY <1>2, <1>5, <1>6, <1>7, <1>8, <1>9 DEF IterationWords
-----------------------------------------------------------------------------
(* The 16 slots *)

\* Words r - 16 to r - 1 of the schedule v are in the slots, but for the
\* zeros that are not read: word j is v[j + 1].
Slotted(w, v, r) ==
    \A j \in Nat : (j < r \/ j < 16) /\ r <= j + 16 =>
        IF j \in Locals THEN v[j + 1] = {} ELSE w[j % 16] = v[j + 1]

\* The words a round xors that are in slots.
Stored(r) == {j \in {r - 3, r - 8, r - 14, r - 16} : j \notin Locals}

LEMMA TermsFacts ==
    ASSUME NEW r \in 16 .. 79
    PROVE  Terms(r) = {j % 16 : j \in Stored(r)}
  <1>1. CASE r > 30
    <2>1. Terms(r) = {(r - a) % 16 : a \in {3, 8, 14, 16}}
      BY <1>1 DEF Terms
    <2>2. {(r - a) % 16 : a \in {3, 8, 14, 16}} = {j % 16 : j \in {r - 3, r - 8, r - 14, r - 16}}
      OBVIOUS
    <2>3. Stored(r) = {r - 3, r - 8, r - 14, r - 16}
      BY <1>1 DEF Stored, Locals
    <2> QED
      BY <2>1, <2>2, <2>3
  <1>2. CASE r <= 30
    <2> DEFINE e == EarlyTerms[r - 15]
    <2>1. Terms(r) = e
      BY <1>2 DEF Terms
    <2>2. r \in 16 .. 30
      BY <1>2
    <2>3. e = {j % 16 : j \in Stored(r)}
      <3>16. CASE r = 16
        <4>1. e = {2, 0} /\ Stored(r) = {2, 0}
          BY <3>16 DEF EarlyTerms, Stored, Locals
        <4> QED
          BY <4>1
      <3>17. CASE r = 17
        <4>1. e = {3, 1} /\ Stored(r) = {3, 1}
          BY <3>17 DEF EarlyTerms, Stored, Locals
        <4> QED
          BY <4>1
      <3>18. CASE r = 18
        <4>1. e = {15, 4, 2} /\ Stored(r) = {15, 4, 2}
          BY <3>18 DEF EarlyTerms, Stored, Locals
        <4> QED
          BY <4>1
      <3>19. CASE r = 19
        <4>1. e = {0, 5, 3} /\ Stored(r) = {16, 5, 3}
          BY <3>19 DEF EarlyTerms, Stored, Locals
        <4> QED
          BY <4>1
      <3>20. CASE r = 20
        <4>1. e = {1, 6, 4} /\ Stored(r) = {17, 6, 4}
          BY <3>20 DEF EarlyTerms, Stored, Locals
        <4> QED
          BY <4>1
      <3>21. CASE r = 21
        <4>1. e = {2, 5} /\ Stored(r) = {18, 5}
          BY <3>21 DEF EarlyTerms, Stored, Locals
        <4> QED
          BY <4>1
      <3>22. CASE r = 22
        <4>1. e = {3, 6} /\ Stored(r) = {19, 6}
          BY <3>22 DEF EarlyTerms, Stored, Locals
        <4> QED
          BY <4>1
      <3>23. CASE r = 23
        <4>1. e = {4, 15} /\ Stored(r) = {20, 15}
          BY <3>23 DEF EarlyTerms, Stored, Locals
        <4> QED
          BY <4>1
      <3>24. CASE r = 24
        <4>1. e = {5, 0} /\ Stored(r) = {21, 16}
          BY <3>24 DEF EarlyTerms, Stored, Locals
        <4> QED
          BY <4>1
      <3>25. CASE r = 25
        <4>1. e = {6, 1} /\ Stored(r) = {22, 17}
          BY <3>25 DEF EarlyTerms, Stored, Locals
        <4> QED
          BY <4>1
      <3>26. CASE r = 26
        <4>1. e = {7, 2} /\ Stored(r) = {23, 18}
          BY <3>26 DEF EarlyTerms, Stored, Locals
        <4> QED
          BY <4>1
      <3>27. CASE r = 27
        <4>1. e = {8, 3} /\ Stored(r) = {24, 19}
          BY <3>27 DEF EarlyTerms, Stored, Locals
        <4> QED
          BY <4>1
      <3>28. CASE r = 28
        <4>1. e = {9, 4} /\ Stored(r) = {25, 20}
          BY <3>28 DEF EarlyTerms, Stored, Locals
        <4> QED
          BY <4>1
      <3>29. CASE r = 29
        <4>1. e = {10, 5, 15} /\ Stored(r) = {26, 21, 15}
          BY <3>29 DEF EarlyTerms, Stored, Locals
        <4> QED
          BY <4>1
      <3>30. CASE r = 30
        <4>1. e = {11, 6, 0} /\ Stored(r) = {27, 22, 16}
          BY <3>30 DEF EarlyTerms, Stored, Locals
        <4> QED
          BY <4>1
      <3> QED
        BY <2>2, <3>16, <3>17, <3>18, <3>19, <3>20, <3>21, <3>22, <3>23, <3>24, <3>25, <3>26, <3>27, <3>28, <3>29, <3>30
    <2> QED
      BY <2>1, <2>3
  <1> QED
    BY <1>1, <1>2

\* A round xors what the schedule xors: its slots hold the words it wants, and
\* the words it leaves out are zero.
LEMMA RoundTakes ==
    ASSUME NEW r \in 16 .. 79, NEW w, NEW v, NEW b, IsSchedule(v, b, 80), Slotted(w, v, r)
    PROVE  RotlOne(XorOf(w, Terms(r))) = v[r + 1]
  <1> DEFINE I == Terms4(r + 1)
             A == {i \in I : i - 1 \notin Locals}
             T == Terms(r)
             g == [i \in I |-> (i - 1) % 16]
  <1>1. I = {r - 2, r - 7, r - 13, r - 15}
    BY DEF Terms4
  <1>2. T = {j % 16 : j \in Stored(r)}
    BY TermsFacts
  <1>3. IsFiniteSet(I)
    <2>1. IsFiniteSet({r - 2}) /\ IsFiniteSet({r - 7}) /\ IsFiniteSet({r - 13}) /\ IsFiniteSet({r - 15})
      BY FS_Singleton
    <2>2. IsFiniteSet(({r - 2} \cup {r - 7}) \cup ({r - 13} \cup {r - 15}))
      BY <2>1, FS_Union
    <2>3. I = ({r - 2} \cup {r - 7}) \cup ({r - 13} \cup {r - 15})
      BY <1>1
    <2> QED
      BY <2>2, <2>3
  <1> HIDE DEF T
  <1>4. \A i \in A : i - 1 \in Stored(r)
    BY <1>1 DEF Stored
  <1>5. \A j \in Stored(r) : j + 1 \in A /\ j \in Nat
    BY <1>1 DEF Stored
  <1> HIDE DEF I
  <1>6. \A i \in A : g[i] \in T
    BY <1>2, <1>4
  <1>7. ASSUME NEW i \in I PROVE IF i - 1 \in Locals THEN v[i] = {} ELSE w[(i - 1) % 16] = v[i]
    <2> DEFINE j == i - 1
    <2>1. j \in Nat /\ r <= j + 16 /\ j < r /\ j + 1 = i
      BY <1>1, <1>7
    <2> HIDE DEF j
    <2>2. IF j \in Locals THEN v[j + 1] = {} ELSE w[j % 16] = v[j + 1]
      BY <2>1 DEF Slotted
    <2> QED
      BY <2>1, <2>2 DEF j
  <1>8. \A i \in A : g[i] \in T /\ w[g[i]] = v[i]
    BY <1>6, <1>7
  <1>9. \A i \in I \ A : v[i] = {}
    BY <1>7
  <1>10. \A i \in A, j \in A : g[i] = g[j] => i = j
    <2>1. \A i \in I, j \in I : (i - 1) % 16 = (j - 1) % 16 => i = j
      BY <1>1
    <2> QED
      BY <2>1
  <1>11. \A s \in T : \E i \in A : g[i] = s
    <2> SUFFICES ASSUME NEW s \in T PROVE \E i \in A : g[i] = s
      OBVIOUS
    <2>1. PICK j \in Stored(r) : j % 16 = s
      BY <1>2
    <2>2. j + 1 \in A /\ (j + 1) - 1 = j /\ j + 1 \in I
      BY <1>5
    <2>3. g[j + 1] = s
      BY <2>1, <2>2
    <2> QED
      BY <2>2, <2>3
  <1>12. A \subseteq I
    OBVIOUS
  <1> HIDE DEF A, g
  <1>13. XorOf(w, T) = XorOf(v, I)
    BY <1>3, <1>8, <1>9, <1>10, <1>11, <1>12, XorSame
  <1>14. r + 1 \in 17 .. 80
    OBVIOUS
  <1>15. v[r + 1] = RotlOne(XorOf(v, Terms4(r + 1)))
    BY <1>14 DEF IsSchedule
  <1> QED
    BY <1>13, <1>15 DEF T, I

\* The word written over the one 16 rounds older leaves the others in place.
LEMMA SlotsMove ==
    ASSUME NEW r \in 16 .. 79, NEW w, w = [s \in Slots |-> w[s]], NEW v, Slotted(w, v, r)
    PROVE  Slotted([w EXCEPT ![r % 16] = v[r + 1]], v, r + 1)
  <1> DEFINE x == [w EXCEPT ![r % 16] = v[r + 1]]
  <1>1. r % 16 \in Slots
    BY DEF Slots
  <1>2. \A s \in Slots : x[s] = IF s = r % 16 THEN v[r + 1] ELSE w[s]
    BY <1>1
  <1> HIDE DEF x
  <1>3. ASSUME NEW j \in Nat, j < r + 1 \/ j < 16, r + 1 <= j + 16
        PROVE  IF j \in Locals THEN v[j + 1] = {} ELSE x[j % 16] = v[j + 1]
    <2>1. j % 16 \in Slots
      BY DEF Slots
    <2>2. CASE j = r
      BY <1>1, <1>2, <2>2 DEF Locals
    <2>3. CASE j # r
      <3>1. j < r /\ r <= j + 16
        BY <1>3, <2>3
      <3>2. IF j \in Locals THEN v[j + 1] = {} ELSE w[j % 16] = v[j + 1]
        BY <3>1 DEF Slotted
      <3>3. j % 16 # r % 16
        BY <1>3, <3>1
      <3> QED
        BY <1>2, <2>1, <3>2, <3>3
    <2> QED
      BY <2>2, <2>3
  <1>4. Slotted(x, v, r + 1)
    BY <1>3 DEF Slotted
  <1> QED
    BY <1>4 DEF x
-----------------------------------------------------------------------------
(* The thread that uses CustomSha1 *)

\* The schedule of the block that the other build digests.
Sched(t) == Schedule(IteratedBlock(t)[1])

PathOK(t) ==
    /\ pc[t] \in {"custom", "read", "spin", "done", "threw"}
    /\ pc[t] \in {"custom", "read"} => round = Idle
    /\ pc[t] = "spin" =>
        /\ round \in 0 .. RoundCount \cup {Idle}
        /\ round = Idle => \A s \in 1 .. 5 : W[s] = WordsOf(DigestBytes(t, out[t]))[s]
        /\ round \in 0 .. RoundCount => Slotted(W, Sched(t), round)
        /\ round \in 1 .. RoundCount => fed = Sched(t)[round]

PathInv ==
    /\ W = [s \in Slots |-> W[s]]
    /\ \A t \in Threads : job[t].kind = "custom" => PathOK(t)

LEMMA SchedFacts ==
    ASSUME job \in Jobs, NEW t \in Threads, job[t].kind = "custom"
    PROVE  \E b : /\ IsSchedule(Sched(t), b, 80)
                  /\ IterationWords(WordsOf(b), LE32(iteration), DigestBytes(t, out[t]))
  <1> DEFINE x == LE32(iteration)
             d == DigestBytes(t, out[t])
             b == IteratedBlock(t)[1]
  <1>1. Alg(t) = "SHA1"
    BY JobsAssumption DEF Alg
  <1>2. IsSeq(x, 4) /\ IsSeq(d, 20)
    BY <1>1, BytesFacts DEF OutByteSize
  <1>3. b = FipsBlocks("SHA1", x \o d)[1]
    BY <1>1, IteratedBlockFacts DEF Iterated
  <1> DEFINE p == FipsBlocks("SHA1", x \o d)[1]
  <1>4. IsIterated(p, x, d)
    BY <1>2, IteratedBytes
  <1>5. b = p
    BY <1>3
  <1> HIDE DEF b, p, x, d
  <1>6. IterationWords(WordsOf(b), x, d)
    BY <1>2, <1>4, <1>5, IterationWordsFacts
  <1>7. IsSchedule(Schedule(b), b, 80)
    BY <1>6, ScheduleFacts DEF IterationWords
  <1> QED
    BY <1>6, <1>7 DEF Sched, x, d, b

LEMMA SchedStays ==
    ASSUME NEW t \in Threads, job' = job, iteration' = iteration, out'[t] = out[t]
    PROVE  Sched(t)' = Sched(t) /\ DigestBytes(t, out[t])' = DigestBytes(t, out[t])
  <1>1. DigestBytes(t, out[t])' = DigestBytes(t, out[t])
    BY DEF DigestBytes, Alg
  <1> QED
    BY <1>1 DEF Sched, IteratedBlock

\* setBE and digestOnce make the slots those of the block.
LEMMA BlockIsSlotted ==
    ASSUME CryptoInv, PathInv, NEW t \in Threads, job[t].kind = "custom", pc[t] = "spin", NextBlock,
           job' = job, out' = out, pc' = pc
    PROVE  PathOK(t)'
  <1>1. job \in Jobs /\ PathOK(t)
    BY DEF CryptoInv, PathInv
  <1>2. round = Idle /\ round' = 0 /\ iteration' = iteration
    BY DEF NextBlock
  <1>3. \A s \in 1 .. 5 : W[s] = WordsOf(DigestBytes(t, out[t]))[s]
    BY <1>1, <1>2 DEF PathOK
  <1> DEFINE v == Sched(t)
             x == LE32(iteration)
             d == DigestBytes(t, out[t])
  <1>4. PICK b : IsSchedule(v, b, 80) /\ IterationWords(WordsOf(b), x, d)
    BY <1>1, SchedFacts
  <1>5. /\ W'[0] = WordOf(x)
        /\ \A s \in 1 .. 5 : W'[s] = W[s]
        /\ W'[6] = WordOf(<<Byte(128), Byte(0), Byte(0), Byte(0)>>)
        /\ W'[15] = WordOf(<<Byte(0), Byte(0), Byte(0), Byte(192)>>)
    <2> DEFINE Six == WordOf(<<Byte(128), Byte(0), Byte(0), Byte(0)>>)
               Fifteen == WordOf(<<Byte(0), Byte(0), Byte(0), Byte(192)>>)
    <2>1. W' = [s \in Slots |-> CASE s = 0  -> WordOf(x)
                                  [] s = 6  -> Six
                                  [] s = 15 -> Fifteen
                                  [] s \in Locals -> Uninitialised(s)
                                  [] OTHER -> W[s]]
      BY DEF NextBlock
    <2> HIDE DEF Six, Fifteen, x
    <2>2. W'[0] = WordOf(x) /\ W'[6] = Six /\ W'[15] = Fifteen /\ \A s \in 1 .. 5 : W'[s] = W[s]
      BY <2>1 DEF Slots, Locals
    <2> QED
      BY <2>2 DEF Six, Fifteen
  <1> HIDE DEF v, x, d
  <1>6. \A i \in 1 .. 16 : v[i] = WordsOf(b)[i]
    BY <1>4 DEF IsSchedule
  <1>7. ASSUME NEW j \in Nat, j < 16
        PROVE  IF j \in Locals THEN v[j + 1] = {} ELSE W'[j % 16] = v[j + 1]
    <2>1. j % 16 = j /\ j + 1 \in 1 .. 16
      BY <1>7
    <2>2. CASE j = 0
      BY <1>4, <1>5, <1>6, <2>1, <2>2 DEF IterationWords, Locals
    <2>3. CASE j \in 1 .. 5
      <3>1. WordsOf(b)[j + 1] = WordsOf(d)[j]
        BY <1>4, <2>3 DEF IterationWords
      <3> QED
        BY <1>3, <1>5, <1>6, <2>1, <2>3, <3>1 DEF Locals, d
    <2>4. CASE j = 6
      BY <1>4, <1>5, <1>6, <2>1, <2>4 DEF IterationWords, Locals
    <2>5. CASE j \in Locals
      <3>1. j + 1 \in 8 .. 15
        BY <2>5 DEF Locals
      <3> QED
        BY <1>4, <1>6, <2>1, <2>5, <3>1 DEF IterationWords
    <2>6. CASE j = 15
      BY <1>4, <1>5, <1>6, <2>1, <2>6 DEF IterationWords, Locals
    <2> QED
      BY <1>7, <2>2, <2>3, <2>4, <2>5, <2>6 DEF Locals
  <1>8. Slotted(W', v, 0)
    BY <1>7 DEF Slotted
  <1>9. Sched(t)' = v
    BY <1>2, SchedStays DEF v
  <1> QED
    BY <1>2, <1>8, <1>9 DEF PathOK, Idle, RoundCount

LEMMA TakeWordKeeps ==
    ASSUME CryptoInv, PathInv, NEW t \in Threads, job[t].kind = "custom", pc[t] = "spin", TakeWord,
           job' = job, out' = out, pc' = pc
    PROVE  PathOK(t)'
  <1> DEFINE v == Sched(t)
  <1>1. /\ round < 16 /\ round' = round + 1 /\ iteration' = iteration /\ W' = W
        /\ fed' = IF round \in Locals THEN {} ELSE W[round]
    BY DEF TakeWord
  <1>2. round \in 0 .. 15 /\ Slotted(W, v, round)
    BY <1>1 DEF PathInv, PathOK, RoundCount, Idle
  <1>3. Sched(t)' = v
    BY <1>1, SchedStays
  <1> HIDE DEF v
  <1>4. round \in Nat /\ round % 16 = round
    BY <1>2
  <1>5. IF round \in Locals THEN v[round + 1] = {} ELSE W[round % 16] = v[round + 1]
    BY <1>2 DEF Slotted
  <1>6. fed' = v[round + 1]
    BY <1>1, <1>4, <1>5
  <1>7. Slotted(W', v, round + 1)
    BY <1>1, <1>2 DEF Slotted
  <1> QED
    BY <1>1, <1>2, <1>3, <1>6, <1>7 DEF PathOK, RoundCount, Idle

LEMMA ExpandKeeps ==
    ASSUME CryptoInv, PathInv, NEW t \in Threads, job[t].kind = "custom", pc[t] = "spin", Expand,
           job' = job, out' = out, pc' = pc
    PROVE  PathOK(t)'
  <1> DEFINE v == Sched(t)
             r == round
  <1>1. /\ r \in 16 .. 79 /\ round' = r + 1 /\ iteration' = iteration
        /\ fed' = RotlOne(XorOf(W, Terms(r))) /\ W' = [W EXCEPT ![r % 16] = fed']
    BY DEF Expand, RoundCount
  <1>2. Slotted(W, v, r) /\ W = [s \in Slots |-> W[s]] /\ job \in Jobs
    BY <1>1 DEF PathInv, PathOK, RoundCount, CryptoInv
  <1>3. Sched(t)' = v
    BY <1>1, SchedStays
  <1>4. PICK b : IsSchedule(v, b, 80)
    BY <1>2, SchedFacts
  <1> HIDE DEF v
  <1>5. fed' = v[r + 1]
    BY <1>1, <1>2, <1>4, RoundTakes
  <1>6. Slotted(W', v, r + 1)
    BY <1>1, <1>2, <1>5, SlotsMove
  <1> QED
    BY <1>1, <1>3, <1>5, <1>6 DEF PathOK, RoundCount, Idle

LEMMA ChainKeeps ==
    ASSUME CryptoInv, PathInv, NEW t \in Threads, job[t].kind = "custom", CustomChain(t)
    PROVE  PathOK(t)'
  <1> DEFINE h == DigestBytes(t, out'[t])
  <1>1. /\ round' = Idle /\ pc' = pc /\ job' = job /\ pc[t] = "spin"
        /\ W' = [s \in Slots |-> IF s \in 1 .. 5 THEN WordsOf(h)[s] ELSE W[s]]
    BY DEF CustomChain, Chain
  <1>2. DigestBytes(t, out[t])' = h
    BY <1>1 DEF DigestBytes, Alg
  <1> HIDE DEF h
  <1>3. \A s \in 1 .. 5 : W'[s] = WordsOf(h)[s]
    BY <1>1 DEF Slots
  <1> QED
    BY <1>1, <1>2, <1>3 DEF PathOK, Idle, RoundCount

LEMMA ReadKeeps ==
    ASSUME CryptoInv, PathInv, NEW t \in Threads, job[t].kind = "custom", CustomRead(t)
    PROVE  PathOK(t)'
  <1> DEFINE h == DigestBytes(t, out[t])
  <1>1. /\ round' = round /\ job' = job /\ out' = out /\ pc[t] = "read" /\ GoesTo(t, "spin")
        /\ W' = [s \in Slots |-> IF s \in 1 .. 5 THEN WordsOf(h)[s] ELSE W[s]]
    BY DEF CustomRead, ReadHash
  <1>2. DigestBytes(t, out[t])' = h
    BY <1>1 DEF DigestBytes, Alg
  <1>3. round = Idle
    BY <1>1 DEF PathInv, PathOK
  <1> HIDE DEF h
  <1>4. \A s \in 1 .. 5 : W'[s] = WordsOf(h)[s]
    BY <1>1 DEF Slots
  <1>5. pc'[t] = "spin"
    BY <1>1, PhaseIs
  <1> QED
    BY <1>1, <1>2, <1>3, <1>4, <1>5 DEF PathOK, Idle, RoundCount

\* Where CustomSha1 rests and its thread stays or leaves.
LEMMA RestKeeps ==
    ASSUME CryptoInv, PathInv, NEW t \in Threads, PathOK(t), customVars' = customVars, job' = job,
           \/ pc'[t] = pc[t] /\ out'[t] = out[t]
           \/ pc[t] = "custom" /\ pc'[t] = "read"
           \/ pc'[t] \in {"done", "threw"}
    PROVE  PathOK(t)'
  <1>1. iteration' = iteration /\ round' = round /\ W' = W /\ fed' = fed
    BY DEF customVars
  <1>2. CASE pc'[t] = pc[t] /\ out'[t] = out[t]
    <2>1. Sched(t)' = Sched(t) /\ DigestBytes(t, out[t])' = DigestBytes(t, out[t])
      BY <1>1, <1>2, SchedStays
    <2> QED
      BY <1>1, <1>2, <2>1 DEF PathOK
  <1>3. CASE pc[t] = "custom" /\ pc'[t] = "read"
    BY <1>1, <1>3 DEF PathOK
  <1>4. CASE pc'[t] \in {"done", "threw"}
    BY <1>4 DEF PathOK
  <1> QED
    BY <1>2, <1>3, <1>4

\* What a step of u may change of the others, and of the slots.
LEMMA StepLeaves ==
    ASSUME CryptoInv, NEW u \in Threads, Step(u)
    PROVE  /\ job' = job
           /\ \A t \in Threads : t # u => pc'[t] = pc[t] /\ out'[t] = out[t]
           /\ customVars' = customVars \/ (pc[u] \in {"read", "spin"} /\ job[u].kind = "custom")
  <1>1. States /\ PlaceOK(u)
    BY DEF CryptoInv, ThreadOK
  <1> DEFINE Others == \A t \in Threads : t # u => pc'[t] = pc[t] /\ out'[t] = out[t]
  <1>2. ASSUME \/ \E p : GoesTo(u, p)
               \/ pc' = pc,
               \/ \E d : out' = [out EXCEPT ![u] = d]
               \/ out' = out
        PROVE  Others
    <2>1. \A t \in Threads : t # u => pc'[t] = pc[t]
      BY <1>1, <1>2 DEF States, Functional, GoesTo
    <2>2. \A t \in Threads : t # u => out'[t] = out[t]
      BY <1>1, <1>2 DEF States, Functional
    <2> QED
      BY <2>1, <2>2
  <1>3. ASSUME NEW o, NEW b, TakeDigest(u, o, b)
        PROVE  job' = job /\ customVars' = customVars /\ \E d : out' = [out EXCEPT ![u] = d]
    BY <1>3 DEF TakeDigest
  <1> HIDE DEF Others
  <1>4. CASE \/ SetUpKey(u) \/ SetUpEnciphering(u) \/ SetUpFails(u) \/ UpdateEnciphering(u) \/ UpdateFails(u)
             \/ SetUpDeciphering(u) \/ UpdateDeciphering(u) \/ FinalizeCipher(u) \/ CallCipher(u)
    <2>1. CipherStep
      BY <1>4
         DEF SetUpKey, SetUpEnciphering, SetUpFails, UpdateEnciphering, UpdateFails, CipherThrows,
             SetUpDeciphering, UpdateDeciphering, FinalizeCipher, CallCipher
    <2>2. pc' = pc \/ \E p : GoesTo(u, p)
      BY <1>4
         DEF SetUpKey, SetUpEnciphering, SetUpFails, UpdateEnciphering, UpdateFails, CipherThrows,
             SetUpDeciphering, UpdateDeciphering, FinalizeCipher, CallCipher
    <2> QED
      BY <1>2, <2>1, <2>2 DEF CipherStep, Others
  <1>5. CASE UpdateStream(u)
    BY <1>2, <1>5 DEF UpdateStream, Feed, Others
  <1>6. CASE TakeKey(u) \/ ReturnHash(u)
    BY <1>2, <1>6 DEF TakeKey, ReturnHash, Others
  <1>7. CASE Create(u)
    <2>1. \E p : GoesTo(u, p)
      BY <1>7 DEF Create, GoesTo
    <2> QED
      BY <1>2, <1>7, <2>1 DEF Create, Others
  <1>8. CASE \/ DigestStream(u) \/ DigestAgain(u) \/ DigestVector(u) \/ HashKey(u)
             \/ Inner(u) \/ Outer(u) \/ FirstHash(u) \/ Iterate(u)
    <2>1. \E o, b : TakeDigest(u, o, b)
      BY <1>8 DEF DigestStream, DigestAgain, DigestVector, HashKey, Inner, Outer, FirstHash, Iterate
    <2>2. pc' = pc \/ \E p : GoesTo(u, p)
      BY <1>8 DEF DigestStream, DigestAgain, DigestVector, HashKey, Inner, Outer, FirstHash, Iterate
    <2> QED
      BY <1>2, <1>3, <2>1, <2>2 DEF Others
  <1>9. CASE CustomRead(u)
    BY <1>1, <1>2, <1>9 DEF CustomRead, PlaceOK, Others
  <1>10. CASE CustomRounds(u)
    BY <1>1, <1>2, <1>10 DEF CustomRounds, PlaceOK, threadVars, Others
  <1>11. CASE CustomChain(u)
    BY <1>1, <1>2, <1>11 DEF CustomChain, PlaceOK, Others
  <1> QED
    BY <1>4, <1>5, <1>6, <1>7, <1>8, <1>9, <1>10, <1>11 DEF Step, Others

\* The steps of the thread itself.
LEMMA OwnStep ==
    ASSUME CryptoInv, PathInv, NEW t \in Threads, job[t].kind = "custom", Step(t)
    PROVE  PathOK(t)'
  <1>1. States /\ PathOK(t) /\ job' = job
    BY StepLeaves DEF CryptoInv, PathInv
  <1>2. pc[t] \in {"custom", "read", "spin", "done", "threw"}
    BY <1>1 DEF PathOK
  <1>3. \/ FirstHash(t) \/ CustomRead(t) \/ CustomRounds(t) \/ CustomChain(t) \/ ReturnHash(t) \/ Create(t)
    BY <1>2
       DEF Step, SetUpKey, SetUpEnciphering, SetUpFails, UpdateEnciphering, UpdateFails,
           SetUpDeciphering, UpdateDeciphering, FinalizeCipher, CallCipher,
           UpdateStream, DigestStream, DigestAgain, DigestVector, HashKey, TakeKey, Inner, Outer, Iterate
  <1>4. CASE FirstHash(t)
    <2>1. pc[t] = "custom"
      BY <1>2, <1>4 DEF FirstHash
    <2>2. GoesTo(t, "read") /\ customVars' = customVars
      BY <1>4, <2>1 DEF FirstHash, TakeDigest
    <2>3. pc'[t] = "read"
      BY <2>2, PhaseIs
    <2> QED
      BY <1>1, <2>1, <2>2, <2>3, RestKeeps
  <1>5. CASE CustomRead(t)
    BY <1>5, ReadKeeps
  <1>6. CASE CustomRounds(t)
    <2>1. pc[t] = "spin" /\ job' = job /\ out' = out /\ pc' = pc
      BY <1>6 DEF CustomRounds, threadVars
    <2>2. NextBlock \/ TakeWord \/ Expand
      BY <1>6 DEF CustomRounds
    <2> QED
      BY <2>1, <2>2, BlockIsSlotted, TakeWordKeeps, ExpandKeeps
  <1>7. CASE CustomChain(t)
    BY <1>7, ChainKeeps
  <1>8. CASE ReturnHash(t)
    <2>1. GoesTo(t, "done") /\ customVars' = customVars
      BY <1>8 DEF ReturnHash
    <2>2. pc'[t] = "done"
      BY <2>1, PhaseIs
    <2> QED
      BY <1>1, <2>1, <2>2, RestKeeps
  <1>9. CASE Create(t)
    <2>1. customVars' = customVars /\ out' = out /\ pc' = [pc EXCEPT ![t] = IF apc'[t] = "idle" THEN "threw" ELSE @]
      BY <1>9 DEF Create
    <2>2. pc'[t] = "threw" \/ pc'[t] = pc[t]
      BY <1>1, <2>1 DEF States, Functional
    <2> QED
      BY <1>1, <2>1, <2>2, RestKeeps
  <1> QED
    BY <1>3, <1>4, <1>5, <1>6, <1>7, <1>8, <1>9

LEMMA SlotsStay ==
    ASSUME PathInv, NEW u \in Threads, Step(u)
    PROVE  W' = [s \in Slots |-> W'[s]]
  <1>1. W = [s \in Slots |-> W[s]]
    BY DEF PathInv
  <1>2. CASE CustomRead(u)
    BY <1>2 DEF CustomRead, ReadHash
  <1>3. CASE CustomChain(u)
    BY <1>3 DEF CustomChain, Chain
  <1>4. CASE CustomRounds(u)
    <2>1. CASE NextBlock
      BY <2>1 DEF NextBlock
    <2>2. CASE TakeWord
      BY <1>1, <2>2 DEF TakeWord
    <2>3. CASE Expand
      BY <1>1, <2>3 DEF Expand
    <2> QED
      BY <1>4, <2>1, <2>2, <2>3 DEF CustomRounds
  <1>5. CASE customVars' = customVars
    BY <1>1, <1>5 DEF customVars
  <1>6. CASE \/ SetUpKey(u) \/ SetUpEnciphering(u) \/ SetUpFails(u) \/ UpdateEnciphering(u) \/ UpdateFails(u)
             \/ SetUpDeciphering(u) \/ UpdateDeciphering(u) \/ FinalizeCipher(u) \/ CallCipher(u)
    <2>1. CipherStep
      BY <1>6
         DEF SetUpKey, SetUpEnciphering, SetUpFails, UpdateEnciphering, UpdateFails, CipherThrows,
             SetUpDeciphering, UpdateDeciphering, FinalizeCipher, CallCipher
    <2> QED
      BY <1>5, <2>1 DEF CipherStep
  <1>7. CASE UpdateStream(u) \/ TakeKey(u) \/ ReturnHash(u) \/ Create(u)
    BY <1>5, <1>7 DEF UpdateStream, Feed, TakeKey, ReturnHash, Create
  <1>8. CASE \/ DigestStream(u) \/ DigestAgain(u) \/ DigestVector(u) \/ HashKey(u)
             \/ Inner(u) \/ Outer(u) \/ FirstHash(u) \/ Iterate(u)
    <2>1. PICK o, b : TakeDigest(u, o, b)
      BY <1>8 DEF DigestStream, DigestAgain, DigestVector, HashKey, Inner, Outer, FirstHash, Iterate
    <2> QED
      BY <1>5, <2>1 DEF TakeDigest
  <1> QED
    BY <1>2, <1>3, <1>4, <1>6, <1>7, <1>8 DEF Step

LEMMA PathInvInit == Init => PathInv
  <1> SUFFICES ASSUME Init PROVE PathInv
    OBVIOUS
  <1>1. round = Idle /\ W = [s \in Slots |-> W[s]] /\ pc = [t \in Threads |-> job[t].kind]
    BY DEF Init, CustomInit
  <1>2. ASSUME NEW t \in Threads, job[t].kind = "custom" PROVE PathOK(t)
    BY <1>1, <1>2 DEF PathOK
  <1> QED
    BY <1>1, <1>2 DEF PathInv

LEMMA PathInvNext == CryptoInv /\ PathInv /\ [Next]_vars => PathInv'
  <1> SUFFICES ASSUME CryptoInv, PathInv, [Next]_vars PROVE PathInv'
    OBVIOUS
  <1>1. CASE UNCHANGED vars
    <2>1. job' = job /\ pc' = pc /\ out' = out /\ customVars' = customVars
      BY <1>1 DEF vars, threadVars
    <2>2. ASSUME NEW t \in Threads, job'[t].kind = "custom" PROVE PathOK(t)'
      <3>1. PathOK(t)
        BY <2>1, <2>2 DEF PathInv
      <3> QED
        BY <2>1, <3>1, RestKeeps
    <2>3. W' = W
      BY <2>1 DEF customVars
    <2> QED
      BY <2>2, <2>3 DEF PathInv
  <1>2. ASSUME NEW u \in Threads, Step(u) PROVE PathInv'
    <2>1. /\ job' = job
          /\ \A t \in Threads : t # u => pc'[t] = pc[t] /\ out'[t] = out[t]
          /\ customVars' = customVars \/ job[u].kind = "custom"
      BY <1>2, StepLeaves
    <2>2. ASSUME NEW t \in Threads, job'[t].kind = "custom" PROVE PathOK(t)'
      <3>1. PathOK(t) /\ job[t].kind = "custom" /\ job \in Jobs
        BY <2>1, <2>2 DEF PathInv, CryptoInv
      <3>2. CASE t = u
        BY <1>2, <3>1, <3>2, OwnStep
      <3>3. CASE t # u
        <4>1. customVars' = customVars
          BY <2>1, <3>1, <3>3, OneCustomAssumption
        <4> QED
          BY <2>1, <3>1, <3>3, <4>1, RestKeeps
      <3> QED
        BY <3>2, <3>3
    <2>3. W' = [s \in Slots |-> W'[s]]
      BY <1>2, SlotsStay
    <2> QED
      BY <2>2, <2>3 DEF PathInv
  <1> QED
    BY <1>1, <1>2 DEF Next, AllDone

\* The builds of hashPassword with CustomSha1 and with Hash agree: whatever the
\* password, the salt and the number of iterations, every one of the 80 rounds
\* takes the word of SHA-1's schedule of the block the other build hashes,
\* although CustomSha1 keeps 16 slots, and eight of them only as zeros that it
\* leaves out (digestOnce of custom_sha1.hpp).
THEOREM SchedulesAgree == Spec => []PathsAgree
  <1>1. Init => CryptoInv /\ PathInv
    BY CryptoInvInit, PathInvInit
  <1>2. CryptoInv /\ PathInv /\ [Next]_vars => CryptoInv' /\ PathInv'
    BY CryptoInvNext, PathInvNext
  <1>3. CryptoInv /\ PathInv => PathsAgree
    <2> SUFFICES ASSUME CryptoInv, PathInv, NEW t \in Threads, pc[t] = "spin", round \in 1 .. RoundCount
                 PROVE  fed = Schedule(IteratedBlock(t)[1])[round]
      BY DEF PathsAgree
    <2>1. job[t].kind = "custom"
      BY DEF CryptoInv, ThreadOK, PlaceOK
    <2>2. PathOK(t)
      BY <2>1 DEF PathInv
    <2>3. fed = Sched(t)[round]
      BY <2>2 DEF PathOK
    <2> QED
      BY <2>3 DEF Sched
  <1> QED
    BY <1>1, <1>2, <1>3, PTL DEF Spec
-----------------------------------------------------------------------------
(* Cells, and the bytes of them one after the other *)

\* n cells, and the bytes of them one after the other.
IsCells(s, n) == IsSeq(s, n) /\ \A c \in 1 .. n : IsSeq(s[c], CellSize)
IsFlat(g, s, n) ==
    /\ IsSeq(g, n * CellSize)
    /\ \A a \in Nat : a < n => Block(g, a, CellSize) = s[a + 1]

LEMMA FlattenIs ==
    ASSUME NEW n \in Nat, NEW s, IsSeq(s, n), NEW g, IsFlat(g, s, n)
    PROVE  FlattenSeq(s) = g
  <1> DEFINE l == CellSize
             x == [i \in 1 .. n |-> SubSeq(g, 1, i * l)]
  <1>1. l \in Nat /\ IsSeq(g, n * l) /\ n * l \in Nat
    BY CellAssumption, Times DEF IsFlat
  <1>2. CASE n = 0
    <2>1. IsSeq(s, 0) /\ IsSeq(g, 0)
      <3>1. n * l = 0
        BY <1>1, <1>2
      <3> QED
        BY <1>1, <1>2, <3>1
    <2>2. s = << >> /\ g = << >>
      BY <2>1, EmptyIs
    <2> QED
      BY <2>2 DEF FlattenSeq
  <1>3. CASE n # 0
    <2>1. ASSUME NEW i \in 1 .. n PROVE x[i] = IF i = 1 THEN s[i] ELSE x[i - 1] \o s[i]
      <3> DEFINE a == i - 1
      <3>1. a \in Nat /\ a < n /\ a + 1 = i /\ a * l \in Nat /\ i * l = (a * l) + l /\ (a * l) + l <= n * l
        <4>1. a \in Nat /\ a < n /\ a + 1 = i
          OBVIOUS
        <4> HIDE DEF a
        <4> QED
          BY <1>1, <4>1, Times
      <3>2. x[i] = SubSeq(g, 1, i * l)
        OBVIOUS
      <3>3. s[i] = SubSeq(g, (a * l) + 1, (a * l) + l)
        BY <3>1 DEF IsFlat, Block
      <3>4. SubSeq(g, 1, a * l) \o SubSeq(g, (a * l) + 1, (a * l) + l) = SubSeq(g, 1, (a * l) + l)
        <4> HIDE DEF a, x
        <4> QED
          BY <1>1, <3>1, HeadAndNext
      <3>5. CASE i = 1
        <4>1. a * l = 0
          BY <1>1, <3>5
        <4>2. (a * l) + 1 = 1
          BY <4>1
        <4> HIDE DEF a, x
        <4> QED
          BY <3>1, <3>2, <3>3, <3>5, <4>2, Zenon
      <3>6. CASE i # 1
        <4>1. x[a] = SubSeq(g, 1, a * l)
          BY <3>1, <3>6
        <4>2. x[i] = x[a] \o s[i]
          <5> HIDE DEF a, x
          <5> QED
            BY <3>1, <3>2, <3>3, <3>4, <4>1, Zenon
        <4> QED
          BY <3>6, <4>2, Zenon
      <3> QED
        BY <3>5, <3>6
    <2>2. IsFlattening(x, s, n)
      <3>1. x = [i \in 1 .. n |-> x[i]]
        OBVIOUS
      <3> HIDE DEF x
      <3> QED
        BY <2>1, <3>1, Zenon DEF IsFlattening
    <2>3. FlattenSeq(s) = x[n]
      <3> HIDE DEF x
      <3> QED
        BY <1>3, <2>2, FlattenFacts
    <2>4. x[n] = SubSeq(g, 1, n * l)
      <3>1. n \in 1 .. n
        BY <1>3
      <3> QED
        BY <3>1
    <2>5. SubSeq(g, 1, n * l) = g
      BY <1>1, HeadIsAll
    <2> QED
      BY <2>3, <2>4, <2>5
  <1> QED
    BY <1>2, <1>3

\* Byte i of cell a is byte a * l + i.
LEMMA PlaceOfByte ==
    ASSUME NEW l \in Nat \ {0}, NEW n \in Nat
    PROVE  /\ \A a \in Nat, i \in 1 .. l :
               /\ (((a * l) + i) - 1) \div l = a /\ ((((a * l) + i) - 1) % l) + 1 = i
               /\ (a * l) + i \in Nat \ {0}
               /\ a < n => (a * l) + i \in 1 .. n * l
           /\ \A b \in 1 .. n * l :
               /\ (b - 1) \div l \in 0 .. n - 1 /\ ((b - 1) % l) + 1 \in 1 .. l
               /\ b = (((b - 1) \div l) * l) + ((b - 1) % l) + 1
  <1>1. ASSUME NEW a \in Nat, NEW i \in 1 .. l
        PROVE  /\ (((a * l) + i) - 1) \div l = a /\ ((((a * l) + i) - 1) % l) + 1 = i
               /\ (a * l) + i \in Nat \ {0}
               /\ a < n => (a * l) + i \in 1 .. n * l
    <2> DEFINE r == i - 1
               p == a * l
    <2>1. r \in Nat /\ r < l /\ i = r + 1 /\ p \in Nat /\ n * l \in Nat /\ (a < n => p + l <= n * l)
      BY Times
    <2>2. (p + r) \div l = a /\ (p + r) % l = r
      BY <2>1, DivModIs
    <2> HIDE DEF r, p
    <2>3. (p + i) - 1 = p + r
      BY <2>1
    <2>4. p + i \in Nat \ {0} /\ (a < n => p + i \in 1 .. n * l)
      BY <2>1
    <2>5. /\ ((p + i) - 1) \div l = a /\ (((p + i) - 1) % l) + 1 = i
      BY <2>1, <2>2, <2>3
    <2> QED
      BY <2>4, <2>5 DEF p
  <1>2. ASSUME NEW b \in 1 .. n * l
        PROVE  /\ (b - 1) \div l \in 0 .. n - 1 /\ ((b - 1) % l) + 1 \in 1 .. l
               /\ b = (((b - 1) \div l) * l) + ((b - 1) % l) + 1
    <2> DEFINE d == b - 1
               q == d \div l
               r == d % l
    <2>1. d \in Nat /\ n * l \in Nat /\ d < n * l /\ b = d + 1
      BY Times
    <2>2. q \in Nat /\ r \in Nat /\ r < l /\ d = (q * l) + r
      <3> HIDE DEF d
      <3> QED
        BY <2>1, DivMod
    <2> HIDE DEF d, q, r
    <2>3. q * l \in Nat /\ (n < q => n * l + l <= q * l) /\ (n = q => n * l = q * l)
      BY <2>2, Times
    <2>4. q < n
      BY <2>1, <2>2, <2>3
    <2>5. q \in 0 .. n - 1 /\ r + 1 \in 1 .. l /\ b = (q * l) + r + 1
      BY <2>1, <2>2, <2>3, <2>4
    <2> QED
      BY <2>5 DEF d, q, r
  <1> QED
    BY <1>1, <1>2

LEMMA FlatFacts ==
    ASSUME NEW n \in Nat, NEW s, IsCells(s, n)
    PROVE  IsFlat(FlattenSeq(s), s, n)
  <1> DEFINE l == CellSize
             g == [b \in 1 .. n * l |-> s[((b - 1) \div l) + 1][((b - 1) % l) + 1]]
  <1>1. l \in Nat \ {0} /\ n * l \in Nat /\ IsSeq(s, n)
    BY CellAssumption, Times DEF IsCells
  <1>2. IsSeq(g, n * l)
    BY DEF IsSeq
  <1>3. ASSUME NEW a \in Nat, a < n PROVE Block(g, a, l) = s[a + 1]
    <2>1. a + 1 \in 1 .. n
      BY <1>3
    <2>2. IsSeq(s[a + 1], l)
      BY <2>1 DEF IsCells
    <2>3. (a * l) + l <= n * l
      BY <1>1, <1>3, Times
    <2>4. ASSUME NEW i \in 1 .. l PROVE s[a + 1][i] = g[(a * l) + i]
      <3>1. /\ (((a * l) + i) - 1) \div l = a /\ ((((a * l) + i) - 1) % l) + 1 = i
            /\ (a * l) + i \in 1 .. n * l
        <4> HIDE DEF g, l
        <4> QED
          BY <1>1, <1>3, PlaceOfByte
      <3> DEFINE z == (a * l) + i
      <3> HIDE DEF z
      <3>2. (z - 1) \div l = a /\ ((z - 1) % l) + 1 = i /\ z \in 1 .. n * l
        BY <3>1 DEF z
      <3>3. g[z] = s[((z - 1) \div l) + 1][((z - 1) % l) + 1]
        BY <3>2
      <3>4. g[z] = s[a + 1][i]
        <4> HIDE DEF g
        <4> QED
          BY <3>2, <3>3, Zenon
      <3> QED
        BY <3>4 DEF z
    <2> HIDE DEF g, l
    <2> QED
      BY <1>1, <1>2, <1>3, <2>2, <2>3, <2>4, BlockIs
  <1>4. IsFlat(g, s, n)
    <2> HIDE DEF g
    <2> QED
      BY <1>2, <1>3 DEF IsFlat
  <1> HIDE DEF g
  <1> QED
    BY <1>1, <1>4, FlattenIs

LEMMA FlatConcat ==
    ASSUME NEW m \in Nat, NEW n \in Nat, NEW s, IsCells(s, m), NEW t, IsCells(t, n), NEW st, Joins(st, s, t)
    PROVE  IsCells(st, m + n) /\ Joins(FlattenSeq(st), FlattenSeq(s), FlattenSeq(t))
  <1> DEFINE l == CellSize
             flat == FlattenSeq(s)
             g == FlattenSeq(t)
             h == flat \o g
             x == m * l
             y == n * l
  <1>1. l \in Nat \ {0} /\ x \in Nat /\ y \in Nat /\ (m + n) * l = x + y /\ m + n \in Nat
    BY CellAssumption, Times
  <1>2. IsSeq(s, m) /\ IsSeq(t, n)
    BY DEF IsCells
  <1>3. IsConcat(st, s, m, t, n)
    <2>1. IsConcat(s \o t, s, m, t, n)
      BY <1>2, ConcatFacts
    <2> QED
      BY <2>1 DEF Joins
  <1>4. IsFlat(flat, s, m) /\ IsFlat(g, t, n)
    BY FlatFacts
  <1>5. IsSeq(flat, x) /\ IsSeq(g, y)
    BY <1>4 DEF IsFlat
  <1>6. IsConcat(h, flat, x, g, y)
    <2> HIDE DEF flat, g, x, y
    <2> QED
      BY <1>1, <1>5, ConcatFacts
  <1> HIDE DEF flat, g, h
  <1>7. IsCells(st, m + n)
    <2>1. IsSeq(st, m + n)
      BY <1>3 DEF IsConcat
    <2>2. ASSUME NEW c \in 1 .. m + n PROVE IsSeq(st[c], CellSize)
      <3>1. CASE c <= m
        BY <1>3, <3>1 DEF IsConcat, IsCells
      <3>2. CASE ~(c <= m)
        <4>1. c - m \in 1 .. n
          BY <3>2
        <4> QED
          BY <1>3, <3>2, <4>1 DEF IsConcat, IsCells
      <3> QED
        BY <3>1, <3>2
    <2> QED
      BY <2>1, <2>2 DEF IsCells
  <1>8. ASSUME NEW a \in Nat, a < m + n PROVE Block(h, a, l) = st[a + 1]
    <2>1. a + 1 \in 1 .. m + n
      BY <1>8
    <2>2. CASE a < m
      <3>1. (a * l) + l <= x
        BY <1>1, <2>2, Times
      <3>2. Block(h, a, l) = Block(flat, a, l)
        <4> HIDE DEF l, x, y
        <4> QED
          BY <1>1, <1>5, <1>6, <3>1, BlockOfPrefix
      <3>3. Block(flat, a, l) = s[a + 1]
        BY <1>4, <2>2 DEF IsFlat
      <3>4. st[a + 1] = s[a + 1]
        BY <1>3, <2>1, <2>2 DEF IsConcat
      <3> QED
        BY <3>2, <3>3, <3>4
    <2>3. CASE ~(a < m)
      <3> DEFINE b == a - m
      <3>1. b \in Nat /\ b < n /\ m + b = a /\ (a + 1) - m = b + 1
        BY <1>8, <2>3
      <3> HIDE DEF b
      <3>2. (b * l) + l <= y
        BY <1>1, <3>1, Times
      <3>3. Stands(g, y, h, x + y, m, l)
        <4>1. x + y \in Nat /\ IsSeq(h, x + y)
          BY <1>1, <1>6 DEF IsConcat
        <4>2. \A i \in 1 .. y : g[i] = h[x + i]
          <5> HIDE DEF x, y
          <5> SUFFICES ASSUME NEW i \in 1 .. y PROVE g[i] = h[x + i]
            OBVIOUS
          <5>1. x + i \in 1 .. x + y /\ ~(x + i <= x) /\ (x + i) - x = i
            BY <1>1
          <5> QED
            BY <1>6, <5>1 DEF IsConcat
        <4>3. x = m * l
          OBVIOUS
        <4> HIDE DEF x, y, l
        <4> QED
          BY <1>1, <1>5, <4>1, <4>2, <4>3 DEF Stands
      <3>4. Block(g, b, l) = Block(h, m + b, l)
        <4> HIDE DEF x, y, l
        <4> QED
          BY <3>1, <3>2, <3>3, BlockShifts
      <3>5. Block(g, b, l) = t[b + 1]
        BY <1>4, <3>1 DEF IsFlat
      <3>6. st[a + 1] = t[b + 1]
        BY <1>3, <2>1, <2>3, <3>1 DEF IsConcat
      <3> QED
        BY <3>1, <3>4, <3>5, <3>6
    <2> QED
      BY <2>2, <2>3
  <1>9. IsFlat(h, st, m + n)
    <2>1. IsSeq(h, (m + n) * l)
      BY <1>1, <1>6 DEF IsConcat
    <2> QED
      BY <1>8, <2>1 DEF IsFlat
  <1>10. FlattenSeq(st) = h
    <2>1. IsSeq(st, m + n)
      BY <1>7 DEF IsCells
    <2> HIDE DEF l, x, y
    <2> QED
      BY <1>1, <1>9, <2>1, FlattenIs
  <1> QED
    BY <1>7, <1>10 DEF h, flat, g, Joins

\* A text of m bytes is its cells and what is left.
LEMMA CellsFacts ==
    ASSUME NEW m \in Nat, NEW b, IsSeq(b, m)
    PROVE  /\ IsCells(Cells(b), m \div CellSize)
           /\ IsSeq(AfterCells(b), m % CellSize)
           /\ \A a \in Nat : a < m \div CellSize => Cells(b)[a + 1] = Block(b, a, CellSize)
           /\ b = FlattenSeq(Cells(b)) \o AfterCells(b)
  <1> DEFINE l == CellSize
             q == m \div l
             r == m % l
             p == q * l
             s == Cells(b)
             h == SubSeq(b, 1, p)
  <1>1. l \in Nat /\ q \in Nat /\ r \in Nat /\ r < l /\ m = p + r /\ p \in Nat
    BY CellAssumption, DivMod, Times
  <1>2. Len(b) = m
    BY SeqFacts
  <1>3. s = [c \in 1 .. q |-> SubSeq(b, ((c - 1) * l) + 1, c * l)]
    BY <1>2 DEF Cells
  <1>4. AfterCells(b) = SubSeq(b, p + 1, p + r)
    BY <1>1, <1>2 DEF AfterCells
  <1>5. IsSeq(s, q)
    BY <1>3 DEF IsSeq
  <1>6. ASSUME NEW a \in Nat, a < q
        PROVE  s[a + 1] = Block(b, a, l) /\ IsSeq(s[a + 1], l) /\ (a * l) + l <= p
    <2>1. a + 1 \in 1 .. q /\ (a + 1) - 1 = a /\ (a + 1) * l = (a * l) + l
      BY <1>1, <1>6, Times
    <2>2. s[a + 1] = SubSeq(b, (a * l) + 1, (a * l) + l)
      <3> DEFINE j == a + 1
      <3> HIDE DEF j, s, l, q
      <3>1. j \in 1 .. q /\ j - 1 = a /\ j * l = (a * l) + l
        BY <2>1 DEF j
      <3>2. s[j] = SubSeq(b, ((j - 1) * l) + 1, j * l)
        BY <1>3, <3>1
      <3>3. s[j] = SubSeq(b, (a * l) + 1, (a * l) + l)
        BY <3>1, <3>2, Zenon
      <3> QED
        BY <3>3 DEF j
    <2>3. (a * l) + l <= p /\ p <= m
      BY <1>1, <1>6, Times
    <2> HIDE DEF s, l, q, p, r
    <2>4. s[a + 1] = Block(b, a, l)
      BY <2>2, Zenon DEF Block
    <2>5. (a * l) + l <= m
      <3>1. a * l \in Nat
        BY <1>1, Times
      <3> QED
        BY <1>1, <2>3, <3>1
    <2>6. IsSeq(Block(b, a, l), l)
      BY <1>1, <2>5, BlockFacts
    <2> QED
      BY <2>3, <2>4, <2>6
  <1>7. IsCells(s, q)
    <2>1. ASSUME NEW c \in 1 .. q PROVE IsSeq(s[c], CellSize)
      <3>1. c - 1 \in Nat /\ c - 1 < q /\ (c - 1) + 1 = c
        BY <1>1
      <3> HIDE DEF s, q
      <3>2. IsSeq(s[(c - 1) + 1], CellSize)
        BY <1>6, <3>1
      <3> QED
        BY <3>1, <3>2
    <2> HIDE DEF s, q
    <2> QED
      BY <1>5, <2>1 DEF IsCells
  <1>8. IsSeq(AfterCells(b), r)
    <2> HIDE DEF p, r
    <2> QED
      BY <1>1, <1>4, SubSeqFacts
  <1>9. IsHead(h, b, p)
    <2> HIDE DEF p, r
    <2> QED
      BY <1>1, HeadFacts
  <1> HIDE DEF s, h
  <1>10. ASSUME NEW a \in Nat, a < q PROVE Block(h, a, l) = s[a + 1]
    <2>1. Stands(h, p, b, m, 0, l)
      <3>1. 0 * l = 0 /\ p <= m
        BY <1>1
      <3> HIDE DEF p, q, r, l
      <3>2. \A i \in 1 .. p : h[i] = b[(0 * l) + i]
        <4>1. \A i \in 1 .. p : (0 * l) + i = i
          BY <1>1, <3>1
        <4> QED
          BY <1>9, <4>1 DEF IsHead
      <3>3. (0 * l) + p <= m
        BY <1>1, <3>1
      <3> QED
        BY <1>1, <1>9, <3>2, <3>3 DEF IsHead, Stands
    <2>2. Block(h, a, l) = Block(b, 0 + a, l)
      <3>1. (a * l) + l <= p
        BY <1>6, <1>10
      <3> HIDE DEF p, q, r, l
      <3> QED
        BY <2>1, <3>1, BlockShifts
    <2>3. 0 + a = a
      OBVIOUS
    <2> HIDE DEF p, q, r, l
    <2> QED
      BY <1>6, <1>10, <2>2, <2>3
  <1>11. FlattenSeq(s) = h
    <2>1. IsFlat(h, s, q)
      BY <1>9, <1>10 DEF IsFlat, IsHead
    <2> HIDE DEF p, q, r, l
    <2> QED
      BY <1>1, <1>5, <2>1, FlattenIs
  <1>12. h \o AfterCells(b) = b
    <2>1. SubSeq(b, 1, p) \o SubSeq(b, p + 1, p + r) = SubSeq(b, 1, p + r)
      <3> HIDE DEF p, r
      <3> QED
        BY <1>1, HeadAndNext
    <2>2. SubSeq(b, 1, m) = b
      BY HeadIsAll
    <2> HIDE DEF p, q, r, l
    <2> QED
      BY <1>1, <1>4, <2>1, <2>2, Zenon DEF h
  <1> QED
    BY <1>6, <1>7, <1>8, <1>11, <1>12 DEF s

\* And the cells of cells and less than one more are those.
LEMMA CellsOfFlat ==
    ASSUME NEW n \in Nat, NEW w, IsCells(w, n), NEW m \in Nat, m < CellSize, NEW r, IsSeq(r, m)
    PROVE  /\ IsSeq(FlattenSeq(w) \o r, (n * CellSize) + m)
           /\ Cells(FlattenSeq(w) \o r) = w
  <1> DEFINE l == CellSize
             flat == FlattenSeq(w)
             g == flat \o r
             p == n * l
             d == p + m
  <1>1. l \in Nat /\ p \in Nat /\ d \in Nat
    BY CellAssumption, Times
  <1>2. IsFlat(flat, w, n) /\ IsSeq(flat, p)
    BY FlatFacts DEF IsFlat
  <1>3. IsConcat(g, flat, p, r, m)
    <2> HIDE DEF flat, p
    <2> QED
      BY <1>1, <1>2, ConcatFacts
  <1>4. d \div l = n
    BY <1>1, DivModIs
  <1> HIDE DEF flat, g
  <1>5. IsSeq(g, d)
    BY <1>3 DEF IsConcat
  <1> DEFINE s == Cells(g)
  <1>6. IsSeq(s, n) /\ \A a \in Nat : a < n => s[a + 1] = Block(g, a, l)
    <2>1. IsCells(s, d \div l) /\ \A a \in Nat : a < d \div l => s[a + 1] = Block(g, a, l)
      <3> HIDE DEF d
      <3> QED
        BY <1>1, <1>5, CellsFacts
    <2> QED
      BY <1>4, <2>1 DEF IsCells
  <1> HIDE DEF s
  <1>7. ASSUME NEW c \in 1 .. n PROVE s[c] = w[c]
    <2> DEFINE a == c - 1
    <2>1. a \in Nat /\ a < n /\ a + 1 = c
      OBVIOUS
    <2> HIDE DEF a
    <2>2. (a * l) + l <= p
      BY <1>1, <2>1, Times
    <2>3. Block(g, a, l) = Block(flat, a, l)
      <3> HIDE DEF p, l, d
      <3> QED
        BY <1>1, <1>2, <1>3, <2>1, <2>2, BlockOfPrefix
    <2>4. Block(flat, a, l) = w[a + 1]
      BY <1>2, <2>1 DEF IsFlat
    <2>5. s[a + 1] = w[a + 1]
      BY <1>6, <2>1, <2>3, <2>4
    <2> QED
      BY <2>1, <2>5
  <1>8. s = w
    BY <1>6, <1>7, SameSeq DEF IsCells
  <1> QED
    BY <1>5, <1>8 DEF s, g, flat

(* A cell *)

LEMMA EncSeq == \A x : IsSeq(Enc(x), CellSize)
  BY DEF Enc, IsSeq

LEMMA DecSeq == \A x : IsSeq(Dec(x), CellSize)
  BY DEF Dec, IsSeq

LEMMA DecEnc ==
    ASSUME NEW x, IsSeq(x, CellSize)
    PROVE  Dec(Enc(x)) = x
  <1> DEFINE e == Enc(x)
             term == CHOOSE y \in e[1] : TRUE
  <1>1. e[1] = {<<"enc", x, 1>>}
    BY CellAssumption DEF Enc
  <1> HIDE DEF e
  <1>2. term \in e[1] /\ e[1] # {}
    BY <1>1
  <1>3. term = <<"enc", x, 1>>
    BY <1>1, <1>2
  <1>4. Dec(e) = [j \in 1 .. CellSize |->
                    IF e[1] # {} /\ term[1] = "enc" /\ e = Enc(term[2]) THEN term[2][j] ELSE {<<"dec", e, j>>}]
    BY DEF Dec
  <1> HIDE DEF term
  <1>5. term[1] = "enc" /\ term[2] = x
    BY <1>3
  <1>6. e = Enc(term[2])
    BY <1>5 DEF e
  <1>7. Dec(e) = [j \in 1 .. CellSize |-> x[j]]
    BY <1>2, <1>4, <1>5, <1>6
  <1> QED
    BY <1>7 DEF IsSeq, e

LEMMA XorSeq ==
    ASSUME NEW n \in Nat, NEW x, IsSeq(x, n), NEW y
    PROVE  IsSeq(XorCell(x, y), n) /\ \A j \in 1 .. n : XorCell(x, y)[j] = SymDiff(x[j], y[j])
  <1>1. DOMAIN x = 1 .. n
    BY SeqFacts
  <1> QED
    BY <1>1 DEF XorCell, IsSeq

LEMMA XorTwice ==
    ASSUME NEW n \in Nat, NEW x, IsSeq(x, n), NEW y
    PROVE  XorCell(XorCell(x, y), y) = x
  <1> DEFINE z == XorCell(x, y)
             w == XorCell(z, y)
  <1>1. IsSeq(z, n) /\ \A j \in 1 .. n : z[j] = SymDiff(x[j], y[j])
    BY XorSeq
  <1> HIDE DEF z
  <1>2. IsSeq(w, n) /\ \A j \in 1 .. n : w[j] = SymDiff(z[j], y[j])
    BY <1>1, XorSeq
  <1> HIDE DEF w
  <1>3. \A r, s : SymDiff(SymDiff(r, s), s) = r
    BY DEF SymDiff
  <1>4. \A j \in 1 .. n : w[j] = x[j]
    BY <1>1, <1>2, <1>3, Zenon
  <1>5. w = x
    BY <1>2, <1>4, SameSeq
  <1> QED
    BY <1>5 DEF w, z

LEMMA XorAgrees ==
    ASSUME NEW n \in Nat, NEW x, IsSeq(x, n), NEW y, NEW z, \A j \in 1 .. n : y[j] = z[j]
    PROVE  XorCell(x, y) = XorCell(x, z)
  <1>1. DOMAIN x = 1 .. n
    BY SeqFacts
  <1> QED
    BY <1>1 DEF XorCell
-----------------------------------------------------------------------------
(* Cells of CBC and ECB *)

\* What a cell becomes after the one before, of what was or of what came out.
MadeOf(mode, enc, cell, before) ==
    IF mode = "ECB" THEN IF enc THEN Enc(cell) ELSE Dec(cell)
    ELSE IF enc THEN Enc(XorCell(cell, before)) ELSE XorCell(Dec(cell), before)

Passed(mode, enc, iv, v, q, n) ==
    /\ IsCells(v, n) /\ IsCells(q, n)
    /\ \A c \in 1 .. n :
        q[c] = MadeOf(mode, enc, v[c], IF c = 1 THEN iv ELSE IF enc THEN q[c - 1] ELSE v[c - 1])

NextIv(enc, iv, v, q, n) == IF n = 0 THEN iv ELSE IF enc THEN q[n] ELSE v[n]
IsNext(mode, enc, iv, v, q, n, i) == mode # "ECB" => i = NextIv(enc, iv, v, q, n)

LEMMA PassedBoth ==
    ASSUME NEW mode, NEW enc, NEW iv, NEW v, NEW q, NEW m \in Nat, Passed(mode, enc, iv, v, q, m),
           NEW i, IsNext(mode, enc, iv, v, q, m, i),
           NEW w, NEW r, NEW n \in Nat, Passed(mode, enc, i, w, r, n),
           NEW vw, Joins(vw, v, w), NEW qr, Joins(qr, q, r)
    PROVE  /\ Passed(mode, enc, iv, vw, qr, m + n)
           /\ \A x : IsNext(mode, enc, i, w, r, n, x) => IsNext(mode, enc, iv, vw, qr, m + n, x)
  <1>1. IsCells(vw, m + n) /\ IsCells(qr, m + n)
    BY FlatConcat DEF Passed
  <1>2. IsConcat(vw, v, m, w, n) /\ IsConcat(qr, q, m, r, n)
    <2>1. IsConcat(v \o w, v, m, w, n) /\ IsConcat(q \o r, q, m, r, n)
      BY ConcatFacts DEF Passed, IsCells
    <2> QED
      BY <2>1 DEF Joins
  <1>3. ASSUME NEW c \in 1 .. m + n
        PROVE  /\ c <= m => vw[c] = v[c] /\ qr[c] = q[c]
               /\ ~(c <= m) => vw[c] = w[c - m] /\ qr[c] = r[c - m]
    BY <1>2 DEF IsConcat
  <1>4. ASSUME NEW c \in 1 .. m + n
        PROVE  qr[c] = MadeOf(mode, enc, vw[c], IF c = 1 THEN iv ELSE IF enc THEN qr[c - 1] ELSE vw[c - 1])
    <2>1. CASE c <= m
      <3>1. c \in 1 .. m /\ vw[c] = v[c] /\ qr[c] = q[c]
        BY <1>3, <2>1
      <3>2. c # 1 => vw[c - 1] = v[c - 1] /\ qr[c - 1] = q[c - 1]
        <4>1. c # 1 => c - 1 \in 1 .. m + n /\ c - 1 <= m
          BY <2>1
        <4> QED
          BY <1>3, <4>1
      <3>3. q[c] = MadeOf(mode, enc, v[c], IF c = 1 THEN iv ELSE IF enc THEN q[c - 1] ELSE v[c - 1])
        BY <3>1 DEF Passed
      <3> QED
        BY <3>1, <3>2, <3>3
    <2>2. CASE c = m + 1
      <3>1. c - m = 1 /\ 1 \in 1 .. n /\ ~(c <= m) /\ c - 1 = m
        BY <2>2
      <3>2. vw[c] = w[1] /\ qr[c] = r[1]
        BY <1>3, <3>1
      <3>3. r[1] = MadeOf(mode, enc, w[1], i)
        BY <3>1 DEF Passed
      <3>4. m # 0 => vw[m] = v[m] /\ qr[m] = q[m]
        <4>1. m # 0 => m \in 1 .. m + n /\ m <= m
          OBVIOUS
        <4> QED
          BY <1>3, <4>1
      <3>5. mode # "ECB" => i = IF c = 1 THEN iv ELSE IF enc THEN qr[c - 1] ELSE vw[c - 1]
        <4>1. c = 1 <=> m = 0
          BY <2>2
        <4> QED
          BY <3>1, <3>4, <4>1 DEF NextIv, IsNext
      <3> DEFINE j == IF c = 1 THEN iv ELSE IF enc THEN qr[c - 1] ELSE vw[c - 1]
      <3>6. mode # "ECB" => i = j
        BY <3>5
      <3> HIDE DEF j
      <3>7. qr[c] = MadeOf(mode, enc, vw[c], j)
        BY <3>2, <3>3, <3>6 DEF MadeOf
      <3> QED
        BY <3>7 DEF j
    <2>3. CASE c > m + 1
      <3> DEFINE d == c - m
      <3>1. d \in 1 .. n /\ d # 1 /\ ~(c <= m) /\ c # 1 /\ c - 1 \in 1 .. m + n /\ ~(c - 1 <= m) /\ (c - 1) - m = d - 1
        BY <2>3
      <3>2. vw[c] = w[d] /\ qr[c] = r[d]
        BY <1>3, <3>1
      <3> HIDE DEF d
      <3>3. vw[c - 1] = w[d - 1] /\ qr[c - 1] = r[d - 1]
        <4> DEFINE e == c - 1
        <4>1. e \in 1 .. m + n /\ ~(e <= m) /\ e - m = d - 1
          BY <3>1
        <4> HIDE DEF e
        <4>2. vw[e] = w[d - 1] /\ qr[e] = r[d - 1]
          BY <1>3, <4>1
        <4> QED
          BY <4>2 DEF e
      <3>4. r[d] = MadeOf(mode, enc, w[d], IF enc THEN r[d - 1] ELSE w[d - 1])
        BY <3>1 DEF Passed
      <3> QED
        BY <3>1, <3>2, <3>3, <3>4
    <2> QED
      BY <2>1, <2>2, <2>3
  <1>5. Passed(mode, enc, iv, vw, qr, m + n)
    BY <1>1, <1>4 DEF Passed
  <1>6. mode # "ECB" => NextIv(enc, iv, vw, qr, m + n) = NextIv(enc, i, w, r, n)
    <2>1. CASE n = 0 /\ m = 0
      BY <2>1 DEF NextIv, IsNext
    <2>2. CASE n = 0 /\ m # 0
      <3>1. m \in 1 .. m + n /\ m <= m /\ m + n = m
        BY <2>2
      <3>2. vw[m] = v[m] /\ qr[m] = q[m]
        BY <1>3, <3>1
      <3> QED
        BY <2>2, <3>1, <3>2 DEF NextIv, IsNext
    <2>3. CASE n # 0
      <3>1. m + n \in 1 .. m + n /\ ~(m + n <= m) /\ (m + n) - m = n /\ m + n # 0
        BY <2>3
      <3>2. vw[m + n] = w[n] /\ qr[m + n] = r[n]
        <4> DEFINE e == m + n
        <4> HIDE DEF e
        <4>1. e \in 1 .. m + n /\ ~(e <= m) /\ e - m = n
          BY <3>1 DEF e
        <4>2. vw[e] = w[n] /\ qr[e] = r[n]
          BY <1>3, <4>1
        <4> QED
          BY <4>2 DEF e
      <3> QED
        BY <2>3, <3>1, <3>2 DEF NextIv
    <2> QED
      BY <2>1, <2>2, <2>3
  <1> QED
    BY <1>5, <1>6 DEF IsNext

LEMMA NonePassed ==
    ASSUME NEW mode, NEW enc, NEW iv
    PROVE  /\ Passed(mode, enc, iv, << >>, << >>, 0) /\ NextIv(enc, iv, << >>, << >>, 0) = iv
           /\ FlattenSeq(<< >>) = << >>
  <1>1. IsCells(<< >>, 0)
    BY EmptyIs DEF IsCells
  <1>2. FlattenSeq(<< >>) = << >>
    BY DEF FlattenSeq
  <1> QED
    BY <1>1, <1>2 DEF Passed, NextIv

\* The chain of the enciphered cells, as processBlocks and the mode make it.
IsChained(e, iv, v, n) == e = [c \in 0 .. n |-> IF c = 0 THEN iv ELSE Enc(XorCell(v[c], e[c - 1]))]

LEMMA ChainExists ==
    ASSUME NEW iv, NEW v, NEW m \in Nat
    PROVE  \E e : IsChained(e, iv, v, m)
  <1> DEFINE S == {i \in Nat : \E e : IsChained(e, iv, v, i)}
  <1>1. 0 \in S
    <2> DEFINE e == [c \in 0 .. 0 |-> iv]
    <2>1. IsChained(e, iv, v, 0)
      BY DEF IsChained
    <2> QED
      BY <2>1
  <1>2. ASSUME NEW i \in Nat, i \in S PROVE i + 1 \in S
    <2>1. PICK e : IsChained(e, iv, v, i)
      BY <1>2
    <2> DEFINE y == [c \in 0 .. i + 1 |-> IF c = i + 1 THEN Enc(XorCell(v[c], e[c - 1])) ELSE e[c]]
               z == [c \in 0 .. i + 1 |-> IF c = 0 THEN iv ELSE Enc(XorCell(v[c], y[c - 1]))]
    <2>2. ASSUME NEW c \in 0 .. i + 1 PROVE y[c] = IF c = 0 THEN iv ELSE Enc(XorCell(v[c], y[c - 1]))
      <3>1. CASE c = 0
        BY <2>1, <3>1 DEF IsChained
      <3>2. CASE c # 0
        <4>1. c - 1 \in 0 .. i /\ c - 1 \in 0 .. i + 1 /\ c - 1 # i + 1
          BY <3>2
        <4>2. y[c - 1] = e[c - 1]
          BY <4>1
        <4>3. CASE c = i + 1
          BY <3>2, <4>2, <4>3
        <4>4. CASE c # i + 1
          <5>1. c \in 0 .. i /\ y[c] = e[c]
            BY <4>4
          <5>2. e[c] = Enc(XorCell(v[c], e[c - 1]))
            BY <2>1, <3>2, <5>1 DEF IsChained
          <5> QED
            BY <3>2, <4>2, <5>1, <5>2
        <4> QED
          BY <4>3, <4>4
      <3> QED
        BY <3>1, <3>2
    <2>3. y = z
      BY <2>2
    <2>4. IsChained(y, iv, v, i + 1)
      <3> HIDE DEF y
      <3> QED
        BY <2>3 DEF IsChained
    <2> HIDE DEF y, z
    <2> QED
      BY <2>4
  <1> HIDE DEF S
  <1>3. Nat \subseteq S
    BY <1>1, <1>2, NatSetInduction
  <1> QED
    BY <1>3 DEF S

\* It is the only one, and its first vector counts as far as a cell goes.
LEMMA ChainIs ==
    ASSUME NEW n \in Nat, NEW iv, NEW jv, \A j \in 1 .. CellSize : iv[j] = jv[j],
           NEW v, IsCells(v, n), NEW e, IsChained(e, iv, v, n), NEW x, IsChained(x, jv, v, n)
    PROVE  \A c \in 1 .. n : e[c] = x[c]
  <1> DEFINE S == {i \in Nat : i < n => e[i + 1] = x[i + 1]}
  <1>1. ASSUME NEW i \in Nat, i < n
        PROVE  /\ IsSeq(v[i + 1], CellSize)
               /\ e[i + 1] = Enc(XorCell(v[i + 1], e[i])) /\ x[i + 1] = Enc(XorCell(v[i + 1], x[i]))
    <2> DEFINE c == i + 1
    <2>1. c \in 0 .. n /\ c # 0 /\ c \in 1 .. n /\ c - 1 = i
      BY <1>1
    <2> HIDE DEF c
    <2>2. IsSeq(v[c], CellSize)
      BY <2>1 DEF IsCells
    <2>3. e[c] = Enc(XorCell(v[c], e[c - 1])) /\ x[c] = Enc(XorCell(v[c], x[c - 1]))
      BY <2>1, Zenon DEF IsChained
    <2>4. e[c] = Enc(XorCell(v[c], e[i])) /\ x[c] = Enc(XorCell(v[c], x[i]))
      BY <2>1, <2>3, Zenon
    <2> QED
      BY <2>2, <2>4 DEF c
  <1>2. e[0] = iv /\ x[0] = jv
    <2>1. 0 \in 0 .. n
      OBVIOUS
    <2> QED
      BY <2>1 DEF IsChained
  <1>3. 0 \in S
    <2> SUFFICES ASSUME 0 < n PROVE e[0 + 1] = x[0 + 1]
      OBVIOUS
    <2> DEFINE u == v[0 + 1]
    <2>1. IsSeq(u, CellSize) /\ e[0 + 1] = Enc(XorCell(u, iv)) /\ x[0 + 1] = Enc(XorCell(u, jv))
      BY <1>1, <1>2, Zenon
    <2> HIDE DEF u
    <2>2. XorCell(u, iv) = XorCell(u, jv)
      BY <2>1, CellAssumption, XorAgrees
    <2> QED
      BY <2>1, <2>2
  <1>4. ASSUME NEW i \in Nat, i \in S PROVE i + 1 \in S
    <2> SUFFICES ASSUME i + 1 < n PROVE e[(i + 1) + 1] = x[(i + 1) + 1]
      OBVIOUS
    <2>1. e[i + 1] = x[i + 1] /\ i + 1 \in Nat
      BY <1>4
    <2> QED
      BY <1>1, <2>1
  <1> HIDE DEF S
  <1>5. Nat \subseteq S
    BY <1>3, <1>4, NatSetInduction
  <1>6. ASSUME NEW c \in 1 .. n PROVE e[c] = x[c]
    <2>1. c - 1 \in S /\ c - 1 < n /\ (c - 1) + 1 = c
      BY <1>5
    <2> QED
      BY <2>1 DEF S
  <1> QED
    BY <1>6

\* Cells that go through one by one make a sequence of cells.
LEMMA MadeCells ==
    ASSUME NEW mode, NEW enc, NEW iv, NEW v, NEW n \in Nat, IsCells(v, n), NEW q, IsSeq(q, n),
           \A c \in 1 .. n :
               q[c] = MadeOf(mode, enc, v[c], IF c = 1 THEN iv ELSE IF enc THEN q[c - 1] ELSE v[c - 1])
    PROVE  Passed(mode, enc, iv, v, q, n)
  <1>1. ASSUME NEW x, NEW y PROVE IsSeq(MadeOf(mode, enc, x, y), CellSize)
    <2>1. IsSeq(XorCell(Dec(x), y), CellSize)
      BY CellAssumption, DecSeq, XorSeq
    <2>2. IsSeq(Enc(x), CellSize) /\ IsSeq(Dec(x), CellSize) /\ IsSeq(Enc(XorCell(x, y)), CellSize)
      BY EncSeq, DecSeq
    <2> QED
      BY <2>1, <2>2, Zenon DEF MadeOf
  <1>2. ASSUME NEW c \in 1 .. n PROVE IsSeq(q[c], CellSize)
    <2> DEFINE b == IF c = 1 THEN iv ELSE IF enc THEN q[c - 1] ELSE v[c - 1]
    <2>1. q[c] = MadeOf(mode, enc, v[c], b)
      OBVIOUS
    <2> HIDE DEF b
    <2> QED
      BY <1>1, <2>1
  <1> QED
    BY <1>2 DEF Passed, IsCells

\* An object with all its fields.
IsCipher(o) ==
    /\ o = [mode |-> o.mode, build |-> o.build, enc |-> o.enc, buf |-> o.buf, iv |-> o.iv, ctr |-> o.ctr,
            ks |-> o.ks, ksPos |-> o.ksPos]
    /\ o.enc \in BOOLEAN

\* The same object but for its vector, which is where the next cells begin.
Chains(u, o, i) ==
    /\ IsCipher(u) /\ u.mode = o.mode /\ u.enc = o.enc /\ u.buf = o.buf /\ u.ksPos = o.ksPos
    /\ u.mode # "ECB" => u.iv = i

LEMMA ProcessedFacts ==
    ASSUME NEW o, IsCipher(o), o.mode \in {"CBC", "ECB"}, NEW v, NEW n \in Nat, IsCells(v, n)
    PROVE  \E q : /\ Passed(o.mode, o.enc, o.iv, v, q, n)
                  /\ Processed(o, v).out = FlattenSeq(q)
                  /\ Chains(Processed(o, v).object, o, NextIv(o.enc, o.iv, v, q, n))
  <1>1. Len(v) = n /\ IsSeq(v, n)
    BY SeqFacts DEF IsCells
  <1> DEFINE e == CHOOSE x : IsChained(x, o.iv, v, n)
             Before(c) == IF c = 1 THEN o.iv ELSE v[c - 1]
             q == [c \in 1 .. n |-> CASE o.mode = "ECB" /\ o.enc  -> Enc(v[c])
                                      [] o.mode = "ECB" /\ ~o.enc -> Dec(v[c])
                                      [] o.mode # "ECB" /\ o.enc  -> e[c]
                                      [] OTHER -> XorCell(Dec(v[c]), Before(c))]
             u == IF o.mode = "ECB" \/ n = 0 THEN o
                  ELSE [o EXCEPT !.iv = IF o.enc THEN q[n] ELSE v[n]]
  <1>2. IsChained(e, o.iv, v, n)
    BY ChainExists
  <1>3. Processed(o, v) = [object |-> u, out |-> FlattenSeq(q)]
    BY <1>1 DEF Processed, IsChained
  <1>4. ASSUME NEW c \in 1 .. n
        PROVE  q[c] = CASE o.mode = "ECB" /\ o.enc  -> Enc(v[c])
                        [] o.mode = "ECB" /\ ~o.enc -> Dec(v[c])
                        [] o.mode # "ECB" /\ o.enc  -> e[c]
                        [] OTHER -> XorCell(Dec(v[c]), Before(c))
    OBVIOUS
  <1>5. IsSeq(q, n)
    BY DEF IsSeq
  <1>6. /\ Processed(o, v).out = FlattenSeq(q) /\ Processed(o, v).object = u
    BY <1>3
  <1>7. Chains(u, o, NextIv(o.enc, o.iv, v, q, n))
    <2> DEFINE i == NextIv(o.enc, o.iv, v, q, n)
    <2>1. CASE o.mode = "ECB"
      BY <2>1 DEF Chains
    <2>2. CASE o.mode # "ECB" /\ n = 0
      BY <2>2 DEF Chains, NextIv
    <2>3. CASE o.mode # "ECB" /\ n # 0
      <3>1. u = [o EXCEPT !.iv = i]
        BY <2>3 DEF NextIv
      <3> HIDE DEF i, u, q, e
      <3>2. u = [mode |-> o.mode, build |-> o.build, enc |-> o.enc, buf |-> o.buf, iv |-> i, ctr |-> o.ctr,
                 ks |-> o.ks, ksPos |-> o.ksPos]
        BY <3>1 DEF IsCipher
      <3>3. IsCipher(u) /\ u.mode = o.mode /\ u.enc = o.enc /\ u.buf = o.buf /\ u.ksPos = o.ksPos /\ u.iv = i
        BY <3>2 DEF IsCipher
      <3> QED
        BY <3>3 DEF Chains, i
    <2> QED
      BY <2>1, <2>2, <2>3
  <1> HIDE DEF q, e, u
  <1>8. ASSUME NEW c \in 1 .. n
        PROVE  q[c] = MadeOf(o.mode, o.enc, v[c], IF c = 1 THEN o.iv ELSE IF o.enc THEN q[c - 1] ELSE v[c - 1])
    <2>1. CASE o.mode = "ECB"
      <3> DEFINE b == IF c = 1 THEN o.iv ELSE IF o.enc THEN q[c - 1] ELSE v[c - 1]
      <3>1. q[c] = IF o.enc THEN Enc(v[c]) ELSE Dec(v[c])
        BY <1>4, <2>1
      <3> HIDE DEF Before, b
      <3>2. q[c] = MadeOf(o.mode, o.enc, v[c], b)
        BY <2>1, <3>1, Zenon DEF MadeOf
      <3> QED
        BY <3>2 DEF b
    <2>2. CASE o.mode # "ECB" /\ ~o.enc
      <3> DEFINE b == IF c = 1 THEN o.iv ELSE IF o.enc THEN q[c - 1] ELSE v[c - 1]
      <3>1. q[c] = XorCell(Dec(v[c]), Before(c))
        BY <1>4, <2>2
      <3>2. Before(c) = b
        BY <2>2
      <3> HIDE DEF Before, b
      <3>3. q[c] = MadeOf(o.mode, o.enc, v[c], b)
        BY <2>2, <3>1, <3>2, Zenon DEF MadeOf
      <3> QED
        BY <3>3 DEF b
    <2>3. CASE o.mode # "ECB" /\ o.enc
      <3>1. q[c] = e[c]
        BY <1>4, <2>3
      <3>2. c \in 0 .. n /\ c # 0
        OBVIOUS
      <3>3. e[c] = Enc(XorCell(v[c], e[c - 1]))
        BY <1>2, <3>2, Zenon DEF IsChained
      <3>4. e[c - 1] = IF c = 1 THEN o.iv ELSE q[c - 1]
        <4>1. CASE c = 1
          <5>1. c - 1 = 0 /\ 0 \in 0 .. n
            BY <4>1
          <5>2. e[0] = o.iv
            BY <1>2, <5>1 DEF IsChained
          <5> QED
            BY <4>1, <5>1, <5>2
        <4>2. CASE c # 1
          <5>1. c - 1 \in 1 .. n
            BY <4>2
          <5> QED
            BY <1>4, <2>3, <4>2, <5>1
        <4> QED
          BY <4>1, <4>2
      <3> QED
        BY <2>3, <3>1, <3>3, <3>4 DEF MadeOf
    <2> QED
      BY <2>1, <2>2, <2>3
  <1>9. Passed(o.mode, o.enc, o.iv, v, q, n)
    BY <1>5, <1>8, MadeCells
  <1> QED
    BY <1>6, <1>7, <1>9

\* Cells that went through are the mode's, of all the bytes at once.
LEMMA PassedIsTheModes ==
    ASSUME NEW mode \in {"CBC", "ECB"}, NEW enc \in BOOLEAN, NEW jv, NEW v, NEW q, NEW n \in Nat, Passed(mode, enc, jv, v, q, n),
           NEW iv, mode = "CBC" => \A j \in 1 .. CellSize : iv[j] = jv[j],
           NEW g, Cells(g) = v
    PROVE  ByTheMode(mode, enc, iv, g) = FlattenSeq(q)
  <1> DEFINE e == CHOOSE x : IsChained(x, iv, v, Len(v))
  <1>1. IsCells(v, n) /\ IsSeq(v, n) /\ Len(v) = n /\ DOMAIN v = 1 .. n /\ IsCells(q, n) /\ IsSeq(q, n)
    BY SeqFacts DEF Passed, IsCells
  <1>2. IsChained(e, iv, v, n)
    <2>1. \E x : IsChained(x, iv, v, Len(v))
      BY <1>1, ChainExists
    <2>2. IsChained(e, iv, v, Len(v))
      BY <2>1, Zenon
    <2> HIDE DEF e
    <2> QED
      BY <1>1, <2>2
  <1> DEFINE Ecb == [c \in 1 .. n |-> IF enc THEN Enc(v[c]) ELSE Dec(v[c])]
             Cbc == [c \in 1 .. n |-> e[c]]
             Back == [c \in 1 .. n |-> XorCell(Dec(v[c]), IF c = 1 THEN iv ELSE v[c - 1])]
  <1>3. ByTheMode(mode, enc, iv, g) =
            IF mode = "ECB" THEN FlattenSeq(Ecb) ELSE IF enc THEN FlattenSeq(Cbc) ELSE FlattenSeq(Back)
    <2> HIDE DEF e
    <2> DEFINE y == [c \in DOMAIN v |-> e[c]]
    <2>1. y = Cbc
      BY <1>1
    <2>2. CASE mode = "ECB"
      <3> DEFINE All(s) == FlattenSeq([c \in DOMAIN s |-> IF enc THEN Enc(s[c]) ELSE Dec(s[c])])
      <3>1. ByTheMode(mode, enc, iv, g) = All(Cells(g))
        <4>1. mode # "CTR"
          BY <2>2
        <4> QED
          BY <2>2, <4>1, ZenonT(60) DEF ByTheMode
      <3>2. All(Cells(g)) = All(v)
        <4> HIDE DEF All
        <4> QED
          OBVIOUS
      <3>3. All(v) = FlattenSeq(Ecb)
        BY <1>1
      <3> HIDE DEF All, Ecb, Cbc, Back, y
      <3> QED
        BY <2>2, <3>1, <3>2, <3>3
    <2>3. CASE mode = "CBC" /\ enc
      <3> DEFINE All(s) == FlattenSeq([c \in DOMAIN s |-> (CHOOSE x : IsChained(x, iv, s, Len(s)))[c]])
      <3>1. ByTheMode(mode, enc, iv, g) = All(Cells(g))
        BY <2>3, Zenon DEF ByTheMode, IsChained
      <3>2. All(Cells(g)) = All(v)
        <4> HIDE DEF All
        <4> QED
          OBVIOUS
      <3>3. All(v) = FlattenSeq(y)
        BY DEF e
      <3> HIDE DEF All
      <3> QED
        BY <2>1, <2>3, <3>1, <3>2, <3>3
    <2>4. CASE mode = "CBC" /\ ~enc
      BY <1>1, <2>4, Zenon DEF ByTheMode
    <2>5. mode = "CBC" \/ mode = "ECB"
      OBVIOUS
    <2> QED
      BY <2>2, <2>3, <2>4, <2>5, Zenon
  <1>4. IsSeq(Ecb, n) /\ IsSeq(Cbc, n) /\ IsSeq(Back, n)
    BY DEF IsSeq
  <1>5. \A c \in 1 .. n :
            /\ Ecb[c] = IF enc THEN Enc(v[c]) ELSE Dec(v[c])
            /\ Cbc[c] = e[c]
            /\ Back[c] = XorCell(Dec(v[c]), IF c = 1 THEN iv ELSE v[c - 1])
    OBVIOUS
  <1> HIDE DEF Ecb, Cbc, Back, e
  <1>6. \A c \in 1 .. n :
            q[c] = MadeOf(mode, enc, v[c], IF c = 1 THEN jv ELSE IF enc THEN q[c - 1] ELSE v[c - 1])
    BY DEF Passed
  <1>7. CASE mode = "ECB"
    <2>1. \A c \in 1 .. n : Ecb[c] = q[c]
      BY <1>5, <1>6, <1>7 DEF MadeOf
    <2>2. Ecb = q
      BY <1>1, <1>4, <2>1, SameSeq
    <2> QED
      BY <1>3, <1>7, <2>2
  <1>8. CASE mode = "CBC" /\ enc
    <2> DEFINE x == [c \in 0 .. n |-> IF c = 0 THEN jv ELSE q[c]]
               y == [c \in 0 .. n |-> IF c = 0 THEN jv ELSE Enc(XorCell(v[c], x[c - 1]))]
    <2>1. ASSUME NEW c \in 0 .. n PROVE x[c] = IF c = 0 THEN jv ELSE Enc(XorCell(v[c], x[c - 1]))
      <3>1. CASE c = 0
        BY <3>1
      <3>2. CASE c # 0
        <4>1. c \in 1 .. n /\ c - 1 \in 0 .. n /\ (c - 1 = 0 <=> c = 1)
          BY <3>2
        <4>2. x[c] = q[c] /\ x[c - 1] = IF c = 1 THEN jv ELSE q[c - 1]
          BY <3>2, <4>1
        <4> HIDE DEF x
        <4>3. q[c] = Enc(XorCell(v[c], IF c = 1 THEN jv ELSE q[c - 1]))
          BY <1>6, <1>8, <4>1 DEF MadeOf
        <4> QED
          BY <3>2, <4>2, <4>3
      <3> QED
        BY <3>1, <3>2
    <2>2. x = y
      BY <2>1
    <2>3. \A c \in 1 .. n : x[c] = q[c]
      OBVIOUS
    <2>4. IsChained(x, jv, v, n)
      <3> HIDE DEF x
      <3> QED
        BY <2>2 DEF IsChained
    <2> HIDE DEF x, y
    <2>5. \A c \in 1 .. n : e[c] = x[c]
      <3>1. \A j \in 1 .. CellSize : iv[j] = jv[j]
        BY <1>8
      <3> QED
        BY <1>1, <1>2, <2>4, <3>1, ChainIs
    <2>6. Cbc = q
      <3>1. \A c \in 1 .. n : Cbc[c] = q[c]
        BY <1>5, <2>3, <2>5
      <3> QED
        BY <1>1, <1>4, <3>1, SameSeq
    <2> QED
      BY <1>3, <1>8, <2>6
  <1>9. CASE mode = "CBC" /\ ~enc
    <2>1. ASSUME NEW c \in 1 .. n PROVE Back[c] = q[c]
      <3>1. q[c] = XorCell(Dec(v[c]), IF c = 1 THEN jv ELSE v[c - 1])
        BY <1>6, <1>9 DEF MadeOf
      <3>2. XorCell(Dec(v[c]), iv) = XorCell(Dec(v[c]), jv)
        <4>1. \A j \in 1 .. CellSize : iv[j] = jv[j]
          BY <1>9
        <4> QED
          BY <4>1, CellAssumption, DecSeq, XorAgrees
      <3> QED
        BY <1>5, <3>1, <3>2
    <2>2. Back = q
      BY <1>1, <1>4, <2>1, SameSeq
    <2> QED
      BY <1>3, <1>9, <2>2
  <1> QED
    BY <1>7, <1>8, <1>9

\* Whole cells went through since setup, with the vector jv, and the rest of
\* what was given is in the open cell.
InCells(o, jv, g, y, w, q, n, r) ==
    /\ IsCipher(o) /\ o.mode \in {"CBC", "ECB"}
    /\ Passed(o.mode, o.enc, jv, w, q, n)
    /\ n \in Nat /\ r \in Nat /\ r < CellSize /\ IsSeq(o.buf, r)
    /\ g = FlattenSeq(w) \o o.buf /\ y = FlattenSeq(q)
    /\ IsNext(o.mode, o.enc, jv, w, q, n, o.iv)
HasCells(o, jv, g, y) == \E w, q, n, r : InCells(o, jv, g, y, w, q, n, r)

HasLength(s) == \E n \in Nat : IsSeq(s, n)

LEMMA FlatIsSeq ==
    ASSUME NEW n \in Nat, NEW s, IsCells(s, n)
    PROVE  n * CellSize \in Nat /\ IsSeq(FlattenSeq(s), n * CellSize)
  BY FlatFacts, CellAssumption, Times DEF IsFlat

LEMMA CellSteps ==
    ASSUME NEW o, NEW jv, NEW g, NEW y, NEW w, NEW q, NEW n, NEW r, InCells(o, jv, g, y, w, q, n, r),
           NEW m \in Nat, NEW b, IsSeq(b, m)
    PROVE  /\ HasCells(UpdatedCells(o, b).object, jv, g \o b, y \o UpdatedCells(o, b).out)
           /\ UpdatedCells(o, b).object.mode = o.mode /\ UpdatedCells(o, b).object.enc = o.enc
           /\ HasLength(UpdatedCells(o, b).out)
  <1> DEFINE l == CellSize
             taken == IF o.buf = << >> THEN 0 ELSE Min({CellSize - Len(o.buf), Len(b)})
             head == SubSeq(b, 1, taken)
             open == o.buf \o head
             rest == SubSeq(b, taken + 1, Len(b))
             first == Processed(o, Cells(open))
             others == Processed(first.object, Cells(rest))
             U == UpdatedCells(o, b)
  <1>1. /\ IsCipher(o) /\ o.mode \in {"CBC", "ECB"} /\ o.enc \in BOOLEAN
        /\ Passed(o.mode, o.enc, jv, w, q, n) /\ IsCells(w, n) /\ IsCells(q, n)
        /\ n \in Nat /\ r \in Nat /\ r < l /\ IsSeq(o.buf, r) /\ l \in Nat
    BY CellAssumption DEF InCells, IsCipher, Passed
  <1>2. Len(o.buf) = r /\ Len(b) = m /\ (o.buf = << >> <=> r = 0)
    <2>1. Len(o.buf) = r /\ Len(b) = m
      BY <1>1, SeqFacts
    <2>2. r = 0 => o.buf = << >>
      BY <1>1, EmptyIs
    <2>3. o.buf = << >> => r = 0
      <3>1. Len(<< >>) = 0
        OBVIOUS
      <3> QED
        BY <2>1, <3>1
    <2> QED
      BY <2>1, <2>2, <2>3
  <1>3. /\ taken \in Nat /\ taken <= m /\ r + taken <= l
        /\ (r = 0 => taken = 0) /\ (r # 0 => taken = m \/ r + taken = l)
    <2>1. l - r \in Nat
      BY <1>1
    <2>2. r # 0 => taken = Min({l - r, m})
      BY <1>2
    <2>3. r = 0 => taken = 0
      BY <1>2
    <2>4. Min({l - r, m}) = IF l - r <= m THEN l - r ELSE m
      BY <2>1, MinFacts
    <2> HIDE DEF taken, l
    <2> QED
      BY <1>1, <2>1, <2>2, <2>3, <2>4
  <1>4. /\ U = IF open # << >> /\ Len(open) < CellSize
               THEN [object |-> [o EXCEPT !.buf = open], out |-> << >>]
               ELSE [object |-> [others.object EXCEPT !.buf = AfterCells(rest)], out |-> first.out \o others.out]
    BY Zenon DEF UpdatedCells
  <1>5. rest = SubSeq(b, taken + 1, m)
    BY <1>2
  <1> HIDE DEF U, taken
  <1>6. IsSeq(head, taken)
    <2>1. IsHead(SubSeq(b, 1, taken), b, taken)
      BY <1>3, HeadFacts
    <2> QED
      BY <2>1 DEF IsHead
  <1> DEFINE e == m - taken
  <1>7. /\ e \in Nat /\ taken + e = m /\ IsSeq(rest, e)
    <2>1. e \in Nat /\ taken + e = m
      BY <1>3
    <2> HIDE DEF rest, e
    <2>2. IsSeq(SubSeq(b, taken + 1, taken + e), e)
      BY <1>3, <2>1, SubSeqFacts
    <2> QED
      BY <1>5, <2>1, <2>2
  <1> HIDE DEF e
  <1>8. head \o rest = b
    <2>1. SubSeq(b, 1, taken) \o SubSeq(b, taken + 1, taken + e) = SubSeq(b, 1, taken + e)
      BY <1>3, <1>7, HeadAndNext
    <2>2. SubSeq(b, 1, m) = b
      BY HeadIsAll
    <2> HIDE DEF rest
    <2> QED
      BY <1>5, <1>7, <2>1, <2>2 DEF head
  <1> HIDE DEF head, rest, first, others
  <1>9. IsSeq(open, r + taken) /\ r + taken \in Nat
    <2>1. IsConcat(open, o.buf, r, head, taken)
      BY <1>1, <1>3, <1>6, ConcatFacts
    <2> HIDE DEF open
    <2> QED
      BY <1>1, <1>3, <2>1 DEF IsConcat
  <1> DEFINE fw == FlattenSeq(w)
  <1>10. IsSeq(fw, n * l) /\ n * l \in Nat
    BY <1>1, FlatIsSeq
  <1>11. g \o b = fw \o (open \o rest)
    <2>1. g = fw \o o.buf
      BY DEF InCells
    <2> DEFINE nl == n * l
    <2> HIDE DEF fw, nl, l
    <2>2. nl \in Nat /\ IsSeq(fw, nl)
      BY <1>10 DEF nl
    <2>3. Associates(fw, o.buf, b)
      BY <1>1, <2>2, ConcatAssoc
    <2>4. Associates(o.buf, head, rest)
      BY <1>1, <1>3, <1>6, <1>7, ConcatAssoc
    <2> QED
      BY <1>8, <2>1, <2>3, <2>4, Zenon DEF Associates
  <1>12. Len(open) = r + taken /\ (open = << >> <=> r + taken = 0)
    <2> HIDE DEF open
    <2>1. Len(open) = r + taken
      BY <1>9, SeqFacts
    <2>2. r + taken = 0 => open = << >>
      BY <1>9, EmptyIs
    <2>3. Len(<< >>) = 0
      OBVIOUS
    <2> QED
      BY <2>1, <2>2, <2>3
  <1> HIDE DEF open
  <1>13. CASE open # << >> /\ Len(open) < CellSize
    <2>1. taken = m /\ e = 0 /\ r + taken < l
      BY <1>1, <1>3, <1>7, <1>12, <1>13
    <2>2. rest = << >> /\ open \o rest = open
      BY <1>7, <1>9, <2>1, EmptyIs, ConcatEmpty
    <2> DEFINE u == [o EXCEPT !.buf = open]
    <2>3. U.object = u /\ U.out = << >>
      BY <1>4, <1>13
    <2>4. /\ u = [mode |-> o.mode, build |-> o.build, enc |-> o.enc, buf |-> open, iv |-> o.iv, ctr |-> o.ctr,
                  ks |-> o.ks, ksPos |-> o.ksPos]
      BY <1>1 DEF IsCipher
    <2> HIDE DEF u
    <2>5. IsCipher(u) /\ u.mode = o.mode /\ u.enc = o.enc /\ u.buf = open /\ u.iv = o.iv
      BY <1>1, <2>4 DEF IsCipher
    <2>6. y \o << >> = y
      <3>1. IsSeq(FlattenSeq(q), n * l) /\ n * l \in Nat
        BY <1>1, FlatIsSeq
      <3>2. y = FlattenSeq(q)
        BY DEF InCells
      <3> DEFINE nl == n * l
      <3> HIDE DEF nl
      <3>3. nl \in Nat /\ IsSeq(y, nl)
        BY <3>1, <3>2 DEF nl
      <3> QED
        BY <3>3, ConcatEmpty
    <2>7. g \o b = FlattenSeq(w) \o u.buf
      BY <1>11, <2>2, <2>5
    <2> DEFINE gb == g \o b
    <2> HIDE DEF gb
    <2>8. InCells(u, jv, gb, y, w, q, n, r + taken)
      <3>1. gb = FlattenSeq(w) \o u.buf
        BY <2>7 DEF gb
      <3>2. y = FlattenSeq(q) /\ IsNext(o.mode, o.enc, jv, w, q, n, o.iv)
        BY DEF InCells
      <3>3. IsSeq(u.buf, r + taken)
        BY <1>9, <2>5
      <3>4. Passed(u.mode, u.enc, jv, w, q, n)
        BY <1>1, <2>5
      <3>5. IsNext(u.mode, u.enc, jv, w, q, n, u.iv)
        BY <2>5, <3>2
      <3> QED
        BY <1>1, <1>9, <2>1, <2>5, <3>1, <3>2, <3>3, <3>4, <3>5 DEF InCells
    <2>9. HasCells(u, jv, gb, y)
      BY <2>8 DEF HasCells
    <2>10. HasLength(<< >>)
      BY EmptyIs DEF HasLength
    <2> QED
      BY <2>3, <2>5, <2>6, <2>9, <2>10 DEF gb, U
  <1>14. CASE ~(open # << >> /\ Len(open) < CellSize)
    <2>1. r + taken = 0 \/ r + taken = l
      BY <1>1, <1>3, <1>12, <1>14
    <2> DEFINE v1 == Cells(open)
               n1 == (r + taken) \div l
               v2 == Cells(rest)
               n2 == e \div l
               a2 == AfterCells(rest)
               r2 == e % l
    <2>2. IsCells(v1, n1) /\ n1 \in Nat /\ open = FlattenSeq(v1)
      <3>1. n1 \in Nat /\ (r + taken) % l = 0
        <4> DEFINE z == r + taken
        <4>1. z = 0 \/ z = l
          BY <2>1
        <4> HIDE DEF z
        <4>2. z \div l \in Nat /\ z % l = 0
          <5>1. 0 * l + 0 = 0 /\ 1 * l + 0 = l /\ 0 < l
            BY CellAssumption
          <5>2. (0 * l + 0) % l = 0 /\ (1 * l + 0) % l = 0 /\ (0 * l + 0) \div l = 0 /\ (1 * l + 0) \div l = 1
            BY <1>1, <5>1, DivModIs
          <5> QED
            BY <4>1, <5>1, <5>2
        <4> QED
          BY <4>2 DEF z
      <3>2. /\ IsCells(v1, n1) /\ IsSeq(AfterCells(open), (r + taken) % l)
            /\ open = FlattenSeq(v1) \o AfterCells(open)
        BY <1>9, CellsFacts
      <3>3. AfterCells(open) = << >>
        BY <3>1, <3>2, EmptyIs
      <3>4. FlattenSeq(v1) \o << >> = FlattenSeq(v1)
        <4> DEFINE nl == n1 * l
        <4> HIDE DEF v1, n1
        <4>1. nl \in Nat /\ IsSeq(FlattenSeq(v1), nl)
          BY <3>1, <3>2, FlatIsSeq
        <4> HIDE DEF nl
        <4> QED
          BY <4>1, ConcatEmpty
      <3> HIDE DEF v1, n1
      <3> QED
        BY <3>1, <3>2, <3>3, <3>4
    <2>3. /\ IsCells(v2, n2) /\ n2 \in Nat /\ IsSeq(a2, r2) /\ r2 \in Nat /\ r2 < l
          /\ rest = FlattenSeq(v2) \o a2
      <3>1. n2 \in Nat /\ r2 \in Nat /\ r2 < l
        BY <1>7, CellAssumption, DivMod
      <3> QED
        BY <1>7, <3>1, CellsFacts
    <2>4. U = [object |-> [others.object EXCEPT !.buf = a2], out |-> first.out \o others.out]
      BY <1>4, <1>14
    <2>5. first = Processed(o, v1) /\ others = Processed(first.object, v2)
      BY DEF first, others
    <2> HIDE DEF v1, n1, v2, n2, a2, r2
    <2>6. PICK q1 : /\ Passed(o.mode, o.enc, o.iv, v1, q1, n1) /\ first.out = FlattenSeq(q1)
                    /\ Chains(first.object, o, NextIv(o.enc, o.iv, v1, q1, n1))
      BY <1>1, <2>2, <2>5, ProcessedFacts
    <2> DEFINE o1 == first.object
    <2>7. IsCipher(o1) /\ o1.mode = o.mode /\ o1.enc = o.enc
      BY <2>6 DEF Chains
    <2>8. PICK q2 : /\ Passed(o1.mode, o1.enc, o1.iv, v2, q2, n2) /\ others.out = FlattenSeq(q2)
                    /\ Chains(others.object, o1, NextIv(o1.enc, o1.iv, v2, q2, n2))
      <3>1. o1.mode \in {"CBC", "ECB"}
        BY <1>1, <2>7
      <3> HIDE DEF o1
      <3>2. others = Processed(o1, v2)
        BY <2>5 DEF o1
      <3> QED
        BY <2>3, <2>7, <3>1, <3>2, ProcessedFacts
    <2> DEFINE o2 == others.object
    <2>9. IsCipher(o2) /\ o2.mode = o.mode /\ o2.enc = o.enc
      BY <2>7, <2>8 DEF Chains
    <2>10. /\ IsNext(o.mode, o.enc, jv, w, q, n, o.iv)
           /\ IsNext(o.mode, o.enc, o.iv, v1, q1, n1, o1.iv)
           /\ IsNext(o.mode, o.enc, o1.iv, v2, q2, n2, o2.iv)
      BY <2>6, <2>7, <2>8, <2>9 DEF Chains, InCells, IsNext
    <2> HIDE DEF o1, o2
    <2> DEFINE w1 == w \o v1
               p1 == q \o q1
               w2 == w1 \o v2
               p2 == p1 \o q2
    <2>11. Joins(w1, w, v1) /\ Joins(p1, q, q1) /\ Joins(w2, w1, v2) /\ Joins(p2, p1, q2)
      BY DEF Joins
    <2> HIDE DEF w1, p1, w2, p2
    <2> DEFINE nn == n + n1
    <2>12. /\ Passed(o.mode, o.enc, jv, w1, p1, nn) /\ nn \in Nat
           /\ IsNext(o.mode, o.enc, jv, w1, p1, nn, o1.iv)
      <3>1. nn \in Nat
        BY <1>1, <2>2
      <3> QED
        BY <1>1, <2>2, <2>6, <2>10, <2>11, <3>1, PassedBoth
    <2> HIDE DEF nn
    <2>13. /\ Passed(o.mode, o.enc, jv, w2, p2, nn + n2) /\ nn + n2 \in Nat
           /\ IsNext(o.mode, o.enc, jv, w2, p2, nn + n2, o2.iv)
      <3>1. Passed(o.mode, o.enc, o1.iv, v2, q2, n2)
        BY <2>7, <2>8
      <3>2. nn + n2 \in Nat
        BY <2>3, <2>12
      <3> QED
        BY <2>3, <2>10, <2>11, <2>12, <3>1, <3>2, PassedBoth
    <2>14. /\ FlattenSeq(w2) = (FlattenSeq(w) \o FlattenSeq(v1)) \o FlattenSeq(v2)
           /\ FlattenSeq(p2) = (FlattenSeq(q) \o FlattenSeq(q1)) \o FlattenSeq(q2)
      <3>1. IsCells(v1, n1) /\ IsCells(q1, n1) /\ IsCells(v2, n2) /\ IsCells(q2, n2)
        BY <2>6, <2>8 DEF Passed
      <3>2. IsCells(w1, nn) /\ IsCells(p1, nn)
        BY <2>12 DEF Passed
      <3>3. /\ Joins(FlattenSeq(w1), FlattenSeq(w), FlattenSeq(v1))
            /\ Joins(FlattenSeq(p1), FlattenSeq(q), FlattenSeq(q1))
        BY <1>1, <2>2, <2>11, <3>1, FlatConcat
      <3>4. /\ Joins(FlattenSeq(w2), FlattenSeq(w1), FlattenSeq(v2))
            /\ Joins(FlattenSeq(p2), FlattenSeq(p1), FlattenSeq(q2))
        BY <2>3, <2>11, <2>12, <3>1, <3>2, FlatConcat
      <3> QED
        BY <3>3, <3>4, Zenon DEF Joins
    <2>15. g \o b = FlattenSeq(w2) \o a2
      <3> DEFINE f1 == FlattenSeq(v1)
                 f2 == FlattenSeq(v2)
                 k0 == n * l
                 k1 == n1 * l
                 k2 == n2 * l
      <3>1. IsSeq(fw, k0) /\ k0 \in Nat /\ IsSeq(f1, k1) /\ k1 \in Nat /\ IsSeq(f2, k2) /\ k2 \in Nat
        BY <1>10, <2>2, <2>3, FlatIsSeq
      <3>2. g \o b = fw \o (f1 \o (f2 \o a2))
        BY <1>11, <2>2, <2>3
      <3>3. FlattenSeq(w2) = (fw \o f1) \o f2
        BY <2>14
      <3> HIDE DEF fw, f1, f2, k0, k1, k2, l
      <3> DEFINE x == fw \o f1
      <3>4. IsSeq(x, k0 + k1) /\ k0 + k1 \in Nat
        <4>1. IsConcat(x, fw, k0, f1, k1)
          BY <3>1, ConcatFacts
        <4> HIDE DEF x
        <4> QED
          BY <3>1, <4>1 DEF IsConcat
      <3>5. IsSeq(f2 \o a2, k2 + r2) /\ k2 + r2 \in Nat
        <4> DEFINE z == f2 \o a2
        <4>1. IsConcat(z, f2, k2, a2, r2)
          BY <2>3, <3>1, ConcatFacts
        <4> HIDE DEF z
        <4>2. IsSeq(z, k2 + r2) /\ k2 + r2 \in Nat
          BY <2>3, <3>1, <4>1 DEF IsConcat
        <4> QED
          BY <4>2 DEF z
      <3> DEFINE z == f2 \o a2
      <3>6. Associates(fw, f1, z)
        <4> HIDE DEF z, x
        <4>1. IsSeq(z, k2 + r2)
          BY <3>5 DEF z
        <4> QED
          BY <3>1, <3>5, <4>1, ConcatAssoc
      <3>7. Associates(x, f2, a2)
        <4> HIDE DEF x
        <4> QED
          BY <2>3, <3>1, <3>4, ConcatAssoc
      <3> QED
        BY <3>2, <3>3, <3>6, <3>7, Zenon DEF Associates
    <2>16. y \o (first.out \o others.out) = FlattenSeq(p2)
      <3> DEFINE f0 == FlattenSeq(q)
                 f1 == FlattenSeq(q1)
                 f2 == FlattenSeq(q2)
                 k0 == n * l
                 k1 == n1 * l
                 k2 == n2 * l
      <3>1. IsSeq(f0, k0) /\ k0 \in Nat /\ IsSeq(f1, k1) /\ k1 \in Nat /\ IsSeq(f2, k2) /\ k2 \in Nat
        BY <1>1, <2>2, <2>3, <2>6, <2>8, FlatIsSeq DEF Passed
      <3>2. y = f0 /\ first.out = f1 /\ others.out = f2
        BY <2>6, <2>8 DEF InCells
      <3>3. FlattenSeq(p2) = (f0 \o f1) \o f2
        BY <2>14
      <3> HIDE DEF f0, f1, f2, k0, k1, k2, l
      <3>4. Associates(f0, f1, f2)
        BY <3>1, ConcatAssoc
      <3> QED
        BY <3>2, <3>3, <3>4, Zenon DEF Associates
    <2>17. HasLength(first.out \o others.out)
      <3> DEFINE f1 == FlattenSeq(q1)
                 f2 == FlattenSeq(q2)
                 k1 == n1 * l
                 k2 == n2 * l
                 z == f1 \o f2
      <3>1. IsSeq(f1, k1) /\ k1 \in Nat /\ IsSeq(f2, k2) /\ k2 \in Nat
        BY <2>2, <2>3, <2>6, <2>8, FlatIsSeq DEF Passed
      <3>2. first.out = f1 /\ others.out = f2
        BY <2>6, <2>8
      <3> HIDE DEF f1, f2, k1, k2, l
      <3>3. IsConcat(z, f1, k1, f2, k2)
        BY <3>1, ConcatFacts
      <3> HIDE DEF z
      <3>4. IsSeq(z, k1 + k2) /\ k1 + k2 \in Nat
        BY <3>1, <3>3 DEF IsConcat
      <3>5. HasLength(z)
        BY <3>4 DEF HasLength
      <3> QED
        BY <3>2, <3>5, Zenon DEF z
    <2> DEFINE u == [o2 EXCEPT !.buf = a2]
    <2>18. u = [mode |-> o2.mode, build |-> o2.build, enc |-> o2.enc, buf |-> a2, iv |-> o2.iv, ctr |-> o2.ctr,
                ks |-> o2.ks, ksPos |-> o2.ksPos]
      BY <2>9 DEF IsCipher
    <2>19. U.object = u /\ U.out = first.out \o others.out
      BY <2>4 DEF o2
    <2> HIDE DEF u
    <2>20. IsCipher(u) /\ u.mode = o.mode /\ u.enc = o.enc /\ u.buf = a2 /\ u.iv = o2.iv
      BY <1>1, <2>9, <2>18 DEF IsCipher
    <2> DEFINE gb == g \o b
               yo == y \o (first.out \o others.out)
               N == nn + n2
    <2>21. gb = FlattenSeq(w2) \o u.buf /\ yo = FlattenSeq(p2)
      BY <2>15, <2>16, <2>20
    <2> HIDE DEF gb, yo
    <2>22. InCells(u, jv, gb, yo, w2, p2, N, r2)
      <3>1. /\ Passed(u.mode, u.enc, jv, w2, p2, N) /\ N \in Nat
            /\ IsNext(u.mode, u.enc, jv, w2, p2, N, u.iv)
        BY <2>10, <2>13, <2>20
      <3> HIDE DEF N
      <3>2. IsSeq(u.buf, r2) /\ u.mode \in {"CBC", "ECB"}
        BY <1>1, <2>3, <2>20
      <3> QED
        BY <2>3, <2>20, <2>21, <3>1, <3>2 DEF InCells
    <2>23. HasCells(u, jv, gb, yo)
      BY <2>22 DEF HasCells
    <2> QED
      BY <2>19, <2>20, <2>23, <2>17 DEF gb, yo, U
  <1> QED
    BY <1>13, <1>14

(* Counters *)

\* The quotients of n by the powers of Radix, whose remainders are its digits.
IsQuotients(e, n) == e = [j \in 0 .. CellSize |-> IF j = 0 THEN n ELSE e[j - 1] \div Radix]
Quotients(n) == CHOOSE e : IsQuotients(e, n)

LEMMA QuotientsExist ==
    ASSUME NEW x
    PROVE  \A m \in Nat : \E e : e = [j \in 0 .. m |-> IF j = 0 THEN x ELSE e[j - 1] \div Radix]
  <1> DEFINE IsUp(e, m) == e = [j \in 0 .. m |-> IF j = 0 THEN x ELSE e[j - 1] \div Radix]
             S == {i \in Nat : \E e : IsUp(e, i)}
  <1>1. 0 \in S
    <2> DEFINE e == [j \in 0 .. 0 |-> x]
    <2>1. IsUp(e, 0)
      OBVIOUS
    <2> QED
      BY <2>1
  <1>2. ASSUME NEW i \in Nat, i \in S PROVE i + 1 \in S
    <2>1. PICK e : IsUp(e, i)
      BY <1>2
    <2> DEFINE y == [j \in 0 .. i + 1 |-> IF j = i + 1 THEN e[j - 1] \div Radix ELSE e[j]]
               z == [j \in 0 .. i + 1 |-> IF j = 0 THEN x ELSE y[j - 1] \div Radix]
    <2>2. ASSUME NEW j \in 0 .. i + 1 PROVE y[j] = IF j = 0 THEN x ELSE y[j - 1] \div Radix
      <3>1. CASE j = 0
        BY <2>1, <3>1
      <3>2. CASE j # 0
        <4>1. j - 1 \in 0 .. i /\ j - 1 \in 0 .. i + 1 /\ j - 1 # i + 1
          BY <3>2
        <4>2. y[j - 1] = e[j - 1]
          BY <4>1
        <4>3. CASE j = i + 1
          BY <3>2, <4>2, <4>3
        <4>4. CASE j # i + 1
          <5>1. j \in 0 .. i /\ y[j] = e[j]
            BY <4>4
          <5>2. e[j] = e[j - 1] \div Radix
            BY <2>1, <3>2, <5>1
          <5> HIDE DEF y
          <5> QED
            BY <3>2, <4>2, <5>1, <5>2
        <4> QED
          BY <4>3, <4>4
      <3> QED
        BY <3>1, <3>2
    <2>3. y = z
      BY <2>2
    <2>4. IsUp(y, i + 1)
      <3> HIDE DEF y
      <3> QED
        BY <2>3
    <2> HIDE DEF y, z, IsUp
    <2> QED
      BY <2>4
  <1> HIDE DEF S
  <1>3. Nat \subseteq S
    BY <1>1, <1>2, NatSetInduction
  <1> QED
    BY <1>3 DEF S

LEMMA QuotientsFacts ==
    ASSUME NEW n \in Nat
    PROVE  /\ Quotients(n)[0] = n
           /\ \A j \in 0 .. CellSize - 1 : Quotients(n)[j + 1] = Quotients(n)[j] \div Radix
           /\ \A j \in 0 .. CellSize : Quotients(n)[j] \in Nat
           /\ IsSeq(Digits(n), CellSize)
           /\ \A j \in 1 .. CellSize : Digits(n)[j] = Quotients(n)[CellSize - j] % Radix
  <1> DEFINE e == Quotients(n)
  <1>1. IsQuotients(e, n)
    <2>1. \E y : IsQuotients(y, n)
      BY QuotientsExist, CellAssumption DEF IsQuotients
    <2> QED
      BY <2>1 DEF Quotients
  <1>2. Digits(n) = [j \in 1 .. CellSize |-> e[CellSize - j] % Radix]
    BY DEF Digits, Quotients, IsQuotients
  <1> HIDE DEF e
  <1>3. e[0] = n /\ \A j \in 0 .. CellSize - 1 : e[j + 1] = e[j] \div Radix
    <2>1. e[0] = n
      <3>1. 0 \in 0 .. CellSize
        BY CellAssumption
      <3> QED
        BY <1>1, <3>1 DEF IsQuotients
    <2>2. ASSUME NEW j \in 0 .. CellSize - 1 PROVE e[j + 1] = e[j] \div Radix
      <3> DEFINE i == j + 1
      <3>1. i \in 0 .. CellSize /\ i # 0 /\ i - 1 = j
        BY CellAssumption
      <3> HIDE DEF i
      <3>2. e[i] = e[i - 1] \div Radix
        BY <1>1, <3>1 DEF IsQuotients
      <3>3. e[i] = e[j] \div Radix
        BY <3>1, <3>2
      <3> QED
        BY <3>3 DEF i
    <2> QED
      BY <2>1, <2>2
  <1>4. \A j \in 0 .. CellSize : e[j] \in Nat
    <2> DEFINE S == {i \in Nat : i <= CellSize => e[i] \in Nat}
    <2>1. 0 \in S
      BY <1>3
    <2>2. ASSUME NEW i \in Nat, i \in S PROVE i + 1 \in S
      <3> SUFFICES ASSUME i + 1 <= CellSize PROVE e[i + 1] \in Nat
        OBVIOUS
      <3>1. i \in 0 .. CellSize - 1 /\ e[i] \in Nat
        BY <2>2, CellAssumption
      <3>2. e[i + 1] = e[i] \div Radix
        BY <1>3, <3>1
      <3>3. e[i] \div Radix \in Nat
        BY <3>1, RadixAssumption, DivMod
      <3> QED
        BY <3>2, <3>3
    <2> HIDE DEF S
    <2>3. Nat \subseteq S
      BY <2>1, <2>2, NatSetInduction
    <2> QED
      BY <2>3, CellAssumption DEF S
  <1> QED
    BY <1>2, <1>3, <1>4 DEF e, IsSeq

LEMMA NextQuotient ==
    ASSUME NEW n \in Nat, NEW b \in Nat \ {0, 1}
    PROVE  /\ n % b = b - 1 => (n + 1) \div b = (n \div b) + 1 /\ (n + 1) % b = 0
           /\ n % b # b - 1 => (n + 1) \div b = n \div b /\ (n + 1) % b = (n % b) + 1
  <1> DEFINE q == n \div b
             r == n % b
  <1>1. q \in Nat /\ r \in Nat /\ r < b /\ n = (q * b) + r /\ q * b \in Nat /\ (q + 1) * b = (q * b) + b
    BY DivMod, Times
  <1> HIDE DEF q, r
  <1>2. CASE r = b - 1
    <2>1. n + 1 = ((q + 1) * b) + 0
      BY <1>1, <1>2
    <2>2. (((q + 1) * b) + 0) \div b = q + 1 /\ (((q + 1) * b) + 0) % b = 0
      <3>1. q + 1 \in Nat /\ 0 < b
        BY <1>1
      <3> QED
        BY <3>1, DivModIs
    <2>3. (n + 1) \div b = q + 1 /\ (n + 1) % b = 0
      BY <2>1, <2>2
    <2> QED
      BY <1>2, <2>3 DEF q, r
  <1>3. CASE r # b - 1
    <2>1. n + 1 = (q * b) + (r + 1) /\ r + 1 \in Nat /\ r + 1 < b
      BY <1>1, <1>3
    <2>2. ((q * b) + (r + 1)) \div b = q /\ ((q * b) + (r + 1)) % b = r + 1
      BY <1>1, <2>1, DivModIs
    <2>3. (n + 1) \div b = q /\ (n + 1) % b = r + 1
      BY <2>1, <2>2
    <2> QED
      BY <1>3, <2>3 DEF q, r
  <1> QED
    BY <1>2, <1>3 DEF r

\* From j on all digits wrap.
WrapsFrom(c, j) == \A i \in j .. CellSize : c[i] = Radix - 1

LEMMA IncIsNext ==
    ASSUME NEW n \in Nat
    PROVE  incCtr(Digits(n)) = Digits(n + 1)
  <1> DEFINE l == CellSize
             ctr == Digits(n)
             e == Quotients(n)
             x == Quotients(n + 1)
             more == Digits(n + 1)
  <1>1. /\ l \in Nat \ {0} /\ Radix \in Nat \ {0, 1} /\ n + 1 \in Nat
    BY CellAssumption, RadixAssumption
  <1>2. /\ e[0] = n /\ \A j \in 0 .. l - 1 : e[j + 1] = e[j] \div Radix
        /\ \A j \in 0 .. l : e[j] \in Nat
        /\ IsSeq(ctr, l) /\ \A j \in 1 .. l : ctr[j] = e[l - j] % Radix
    BY QuotientsFacts
  <1>3. /\ x[0] = n + 1 /\ \A j \in 0 .. l - 1 : x[j + 1] = x[j] \div Radix
        /\ IsSeq(more, l) /\ \A j \in 1 .. l : more[j] = x[l - j] % Radix
    BY <1>1, QuotientsFacts
  <1>4. incCtr(ctr) = [j \in 1 .. l |->
            IF WrapsFrom(ctr, j) THEN 0 ELSE IF j = l \/ WrapsFrom(ctr, j + 1) THEN ctr[j] + 1 ELSE ctr[j]]
    BY DEF incCtr, WrapsFrom
  <1> HIDE DEF ctr, e, x, more
  <1>5. WrapsFrom(ctr, l + 1)
    BY <1>1 DEF WrapsFrom
  <1>6. ASSUME NEW j \in 1 .. l PROVE WrapsFrom(ctr, j) <=> WrapsFrom(ctr, j + 1) /\ ctr[j] = Radix - 1
    <2>1. j .. l = {j} \cup (j + 1 .. l)
      BY <1>1
    <2> QED
      BY <2>1 DEF WrapsFrom
  <1> DEFINE S == {i \in Nat : i <= l => x[i] = IF WrapsFrom(ctr, (l - i) + 1) THEN e[i] + 1 ELSE e[i]}
  <1>7. 0 \in S
    <2>1. (l - 0) + 1 = l + 1
      BY <1>1
    <2> QED
      BY <1>2, <1>3, <1>5, <2>1
  <1>8. ASSUME NEW i \in Nat, i \in S PROVE i + 1 \in S
    <2> SUFFICES ASSUME i + 1 <= l PROVE x[i + 1] = IF WrapsFrom(ctr, (l - (i + 1)) + 1) THEN e[i + 1] + 1 ELSE e[i + 1]
      OBVIOUS
    <2> DEFINE j == l - i
    <2>1. j \in 1 .. l /\ (l - (i + 1)) + 1 = j /\ (l - i) + 1 = j + 1 /\ i \in 0 .. l - 1 /\ i \in 0 .. l /\ l - j = i
      BY <1>1
    <2>2. x[i] = IF WrapsFrom(ctr, j + 1) THEN e[i] + 1 ELSE e[i]
      BY <1>8, <2>1
    <2> HIDE DEF j, S
    <2>3. e[i] \in Nat /\ ctr[j] = e[i] % Radix
      BY <1>2, <2>1
    <2>4. e[i + 1] = e[i] \div Radix /\ x[i + 1] = x[i] \div Radix
      BY <1>2, <1>3, <2>1
    <2> DEFINE d == e[i]
    <2> HIDE DEF d
    <2>5. /\ d % Radix = Radix - 1 => (d + 1) \div Radix = (d \div Radix) + 1
          /\ d % Radix # Radix - 1 => (d + 1) \div Radix = d \div Radix
      BY <1>1, <2>3, NextQuotient DEF d
    <2>6. WrapsFrom(ctr, j) <=> WrapsFrom(ctr, j + 1) /\ d % Radix = Radix - 1
      BY <1>6, <2>1, <2>3 DEF d
    <2>7. x[i + 1] = IF WrapsFrom(ctr, j) THEN e[i + 1] + 1 ELSE e[i + 1]
      <3>1. x[i] = IF WrapsFrom(ctr, j + 1) THEN d + 1 ELSE d
        BY <2>2 DEF d
      <3>2. e[i + 1] = d \div Radix
        BY <2>4 DEF d
      <3>3. CASE WrapsFrom(ctr, j + 1)
        <4>1. x[i + 1] = (d + 1) \div Radix
          BY <2>4, <3>1, <3>3
        <4> QED
          BY <2>5, <2>6, <3>2, <3>3, <4>1
      <3>4. CASE ~WrapsFrom(ctr, j + 1)
        BY <2>4, <2>6, <3>1, <3>2, <3>4
      <3> QED
        BY <3>3, <3>4
    <2> QED
      BY <2>1, <2>7
  <1> HIDE DEF S
  <1>9. Nat \subseteq S
    BY <1>7, <1>8, NatSetInduction
  <1> DEFINE inc == incCtr(ctr)
  <1>10. IsSeq(inc, l)
    BY <1>4 DEF IsSeq
  <1>11. ASSUME NEW j \in 1 .. l PROVE inc[j] = more[j]
    <2> DEFINE i == l - j
    <2>1. i \in Nat /\ i <= l /\ (l - i) + 1 = j + 1 /\ i \in 0 .. l
      BY <1>1
    <2>2. x[i] = IF WrapsFrom(ctr, j + 1) THEN e[i] + 1 ELSE e[i]
      BY <1>9, <2>1 DEF S
    <2>3. ctr[j] = e[i] % Radix /\ more[j] = x[i] % Radix /\ e[i] \in Nat
      BY <1>2, <1>3, <2>1
    <2>4. inc[j] = IF WrapsFrom(ctr, j) THEN 0 ELSE IF WrapsFrom(ctr, j + 1) THEN ctr[j] + 1 ELSE ctr[j]
      BY <1>4, <1>5
    <2> HIDE DEF inc, i
    <2> DEFINE d == e[i]
    <2> HIDE DEF d
    <2>5. /\ d % Radix = Radix - 1 => (d + 1) % Radix = 0
          /\ d % Radix # Radix - 1 => (d + 1) % Radix = (d % Radix) + 1
      BY <1>1, <2>3, NextQuotient DEF d
    <2>6. x[i] = IF WrapsFrom(ctr, j + 1) THEN d + 1 ELSE d
      BY <2>2 DEF d
    <2>7. ctr[j] = d % Radix
      BY <2>3 DEF d
    <2>8. CASE WrapsFrom(ctr, j + 1)
      <3>1. more[j] = (d + 1) % Radix
        BY <2>3, <2>6, <2>8
      <3> QED
        BY <1>6, <2>4, <2>5, <2>7, <2>8, <3>1
    <2>9. CASE ~WrapsFrom(ctr, j + 1)
      <3>1. more[j] = d % Radix
        BY <2>3, <2>6, <2>9
      <3> QED
        BY <1>6, <2>4, <2>7, <2>9, <3>1
    <2> QED
      BY <2>8, <2>9
  <1>12. inc = more
    <2> HIDE DEF inc
    <2> QED
      BY <1>1, <1>3, <1>10, <1>11, SameSeq
  <1> QED
    BY <1>12 DEF inc, ctr, more

\* The counter is incremented cell by cell; it is the number's digits.
LEMMA CounterIs ==
    ASSUME NEW x \in Nat, NEW n \in Nat
    PROVE  Counter(Digits(x), n) = Digits(x + n)
  <1> DEFINE IsAfter(e) == e = [c \in 0 .. n |-> IF c = 0 THEN Digits(x) ELSE incCtr(e[c - 1])]
             y == [c \in 0 .. n |-> Digits(x + c)]
             e == CHOOSE z : IsAfter(z)
  <1>1. IsAfter(y)
    <2>1. ASSUME NEW c \in 0 .. n PROVE y[c] = IF c = 0 THEN Digits(x) ELSE incCtr(y[c - 1])
      <3>1. CASE c = 0
        <4>1. x + 0 = x
          OBVIOUS
        <4> QED
          BY <3>1, <4>1
      <3>2. CASE c # 0
        <4>1. c - 1 \in 0 .. n /\ x + (c - 1) \in Nat /\ (x + (c - 1)) + 1 = x + c
          BY <3>2
        <4>2. y[c - 1] = Digits(x + (c - 1))
          BY <4>1
        <4>3. incCtr(Digits(x + (c - 1))) = Digits((x + (c - 1)) + 1)
          BY <4>1, IncIsNext
        <4> QED
          BY <3>2, <4>1, <4>2, <4>3
      <3> QED
        BY <3>1, <3>2
    <2> DEFINE w == [c \in 0 .. n |-> IF c = 0 THEN Digits(x) ELSE incCtr(y[c - 1])]
    <2>2. y = w
      BY <2>1
    <2> HIDE DEF y
    <2> QED
      BY <2>2
  <1>2. IsAfter(e)
    <2> HIDE DEF y, IsAfter
    <2> QED
      BY <1>1, Zenon
  <1>3. Counter(Digits(x), n) = e[n]
    BY DEF Counter
  <1> HIDE DEF e, y
  <1> DEFINE S == {i \in Nat : i <= n => e[i] = Digits(x + i)}
  <1>4. 0 \in S
    <2>1. x + 0 = x /\ 0 \in 0 .. n
      OBVIOUS
    <2>2. e[0] = Digits(x)
      BY <1>2, <2>1
    <2> QED
      BY <2>1, <2>2
  <1>5. ASSUME NEW i \in Nat, i \in S PROVE i + 1 \in S
    <2> SUFFICES ASSUME i + 1 <= n PROVE e[i + 1] = Digits(x + (i + 1))
      OBVIOUS
    <2> DEFINE j == i + 1
    <2>1. j \in 0 .. n /\ j # 0 /\ j - 1 = i /\ x + i \in Nat /\ (x + i) + 1 = x + j
      OBVIOUS
    <2>2. e[i] = Digits(x + i)
      BY <1>5
    <2> HIDE DEF j, S
    <2>3. e[j] = incCtr(e[j - 1])
      BY <1>2, <2>1
    <2>4. incCtr(Digits(x + i)) = Digits((x + i) + 1)
      BY <2>1, IncIsNext
    <2>5. e[j] = Digits(x + j)
      BY <2>1, <2>2, <2>3, <2>4
    <2> QED
      BY <2>5 DEF j
  <1> HIDE DEF S
  <1>6. Nat \subseteq S
    BY <1>4, <1>5, NatSetInduction
  <1>7. e[n] = Digits(x + n)
    BY <1>6 DEF S
  <1> QED
    BY <1>3, <1>7

\* The number of a counter has the counter's bytes as its digits.
LEMMA NumberFacts ==
    ASSUME NEW n \in Nat, n >= CellSize, NEW iv, IsSeq(iv, n), \A j \in 1 .. n : iv[j] \in 0 .. Radix - 1
    PROVE  Number(iv) \in Nat /\ Digits(Number(iv)) = SubSeq(iv, 1, CellSize)
  <1> DEFINE l == CellSize
             IsValue(e, m) == e = [j \in 0 .. m |-> IF j = 0 THEN 0 ELSE (e[j - 1] * Radix) + iv[j]]
             T == {i \in Nat : \E e : IsValue(e, i)}
  <1>1. l \in Nat \ {0} /\ Radix \in Nat \ {0, 1}
    BY CellAssumption, RadixAssumption
  <1>2. 0 \in T
    <2> DEFINE e == [j \in 0 .. 0 |-> 0]
    <2>1. IsValue(e, 0)
      OBVIOUS
    <2> QED
      BY <2>1
  <1>3. ASSUME NEW i \in Nat, i \in T PROVE i + 1 \in T
    <2>1. PICK e : IsValue(e, i)
      BY <1>3
    <2> DEFINE y == [j \in 0 .. i + 1 |-> IF j = i + 1 THEN (e[j - 1] * Radix) + iv[j] ELSE e[j]]
               z == [j \in 0 .. i + 1 |-> IF j = 0 THEN 0 ELSE (y[j - 1] * Radix) + iv[j]]
    <2>2. ASSUME NEW j \in 0 .. i + 1 PROVE y[j] = IF j = 0 THEN 0 ELSE (y[j - 1] * Radix) + iv[j]
      <3>1. CASE j = 0
        BY <2>1, <3>1
      <3>2. CASE j # 0
        <4>1. j - 1 \in 0 .. i /\ j - 1 \in 0 .. i + 1 /\ j - 1 # i + 1
          BY <3>2
        <4>2. y[j - 1] = e[j - 1]
          BY <4>1
        <4>3. y[j] = (e[j - 1] * Radix) + iv[j]
          <5>1. CASE j = i + 1
            BY <5>1
          <5>2. CASE j # i + 1
            <6>1. j \in 0 .. i /\ y[j] = e[j]
              BY <5>2
            <6>2. e[j] = (e[j - 1] * Radix) + iv[j]
              BY <2>1, <3>2, <6>1
            <6> HIDE DEF y
            <6> QED
              BY <6>1, <6>2
          <5> QED
            BY <5>1, <5>2
        <4> HIDE DEF y
        <4> QED
          BY <3>2, <4>2, <4>3
      <3> QED
        BY <3>1, <3>2
    <2>3. y = z
      BY <2>2
    <2>4. IsValue(y, i + 1)
      <3> HIDE DEF y
      <3> QED
        BY <2>3
    <2> HIDE DEF y, z, IsValue
    <2> QED
      BY <2>4
  <1> HIDE DEF T
  <1>4. Nat \subseteq T
    BY <1>2, <1>3, NatSetInduction
  <1> DEFINE e == CHOOSE z : IsValue(z, l)
  <1>5. IsValue(e, l)
    <2>1. \E z : IsValue(z, l)
      BY <1>1, <1>4 DEF T
    <2> HIDE DEF IsValue
    <2> QED
      BY <2>1
  <1>6. Number(iv) = e[l]
    BY DEF Number
  <1> HIDE DEF e
  <1>7. e[0] = 0 /\ \A j \in 1 .. l : e[j] = (e[j - 1] * Radix) + iv[j]
    <2>1. 0 \in 0 .. l /\ \A j \in 1 .. l : j \in 0 .. l /\ j # 0
      BY <1>1
    <2> QED
      BY <1>5, <2>1
  <1> HIDE DEF IsValue
  <1>8. ASSUME NEW j \in 1 .. l PROVE iv[j] \in Nat /\ iv[j] < Radix
    <2>1. j \in 1 .. n
      BY <1>1
    <2>2. iv[j] \in 0 .. Radix - 1
      BY <2>1
    <2> QED
      BY <1>1, <2>2
  <1>9. \A j \in 0 .. l : e[j] \in Nat
    <2> DEFINE S == {i \in Nat : i <= l => e[i] \in Nat}
    <2>1. 0 \in S
      BY <1>7
    <2>2. ASSUME NEW i \in Nat, i \in S PROVE i + 1 \in S
      <3> SUFFICES ASSUME i + 1 <= l PROVE e[i + 1] \in Nat
        OBVIOUS
      <3>1. i + 1 \in 1 .. l /\ (i + 1) - 1 = i /\ e[i] \in Nat
        BY <1>1, <2>2
      <3>2. e[i + 1] = (e[i] * Radix) + iv[i + 1]
        <4> DEFINE j == i + 1
        <4> HIDE DEF j
        <4>1. j \in 1 .. l /\ j - 1 = i
          BY <3>1 DEF j
        <4>2. e[j] = (e[j - 1] * Radix) + iv[j]
          BY <1>7, <4>1
        <4>3. e[j] = (e[i] * Radix) + iv[j]
          BY <4>1, <4>2, Zenon
        <4> QED
          BY <4>3 DEF j
      <3>3. e[i] * Radix \in Nat
        BY <1>1, <3>1, Times
      <3>4. iv[i + 1] \in Nat
        BY <1>8, <3>1
      <3> QED
        BY <3>2, <3>3, <3>4
    <2> HIDE DEF S
    <2>3. Nat \subseteq S
      BY <2>1, <2>2, NatSetInduction
    <2> QED
      BY <1>1, <2>3 DEF S
  <1> DEFINE v == e[l]
             x == Quotients(v)
             d == Digits(v)
  <1>10. v \in Nat
    BY <1>1, <1>9
  <1>11. /\ x[0] = v /\ \A j \in 0 .. l - 1 : x[j + 1] = x[j] \div Radix
         /\ IsSeq(d, l) /\ \A j \in 1 .. l : d[j] = x[l - j] % Radix
    <2> HIDE DEF v
    <2> QED
      BY <1>10, QuotientsFacts
  <1>12. ASSUME NEW j \in 1 .. l PROVE e[j] \div Radix = e[j - 1] /\ e[j] % Radix = iv[j]
    <2>1. j - 1 \in 0 .. l /\ j \in 0 .. l
      BY <1>1
    <2> DEFINE p == e[j - 1]
               c == iv[j]
    <2>2. p \in Nat /\ c \in Nat /\ c < Radix /\ e[j] = (p * Radix) + c
      BY <1>7, <1>8, <1>9, <2>1
    <2> HIDE DEF p, c
    <2>3. ((p * Radix) + c) \div Radix = p /\ ((p * Radix) + c) % Radix = c
      BY <1>1, <2>2, DivModIs
    <2>4. e[j] \div Radix = p /\ e[j] % Radix = c
      BY <2>2, <2>3, Zenon
    <2> QED
      BY <2>4 DEF p, c
  <1> HIDE DEF v, x, d
  <1> DEFINE S == {i \in Nat : i <= l => x[i] = e[l - i]}
  <1>13. 0 \in S
    <2>1. l - 0 = l
      BY <1>1
    <2> QED
      BY <1>11, <2>1 DEF v
  <1>14. ASSUME NEW i \in Nat, i \in S PROVE i + 1 \in S
    <2> SUFFICES ASSUME i + 1 <= l PROVE x[i + 1] = e[l - (i + 1)]
      OBVIOUS
    <2>1. l - i \in 1 .. l /\ (l - i) - 1 = l - (i + 1) /\ i \in 0 .. l - 1
      BY <1>1
    <2>2. x[i] = e[l - i]
      <3>1. i <= l
        BY <1>1
      <3> QED
        BY <1>14, <3>1
    <2>3. x[i + 1] = x[i] \div Radix
      BY <1>11, <2>1
    <2> DEFINE j == l - i
    <2> HIDE DEF j, S
    <2>4. e[j] \div Radix = e[j - 1]
      BY <1>12, <2>1 DEF j
    <2> QED
      BY <2>1, <2>2, <2>3, <2>4 DEF j
  <1> HIDE DEF S
  <1>15. Nat \subseteq S
    BY <1>13, <1>14, NatSetInduction
  <1>16. ASSUME NEW j \in 1 .. l PROVE d[j] = iv[j]
    <2>1. l - j \in Nat /\ l - j <= l /\ l - (l - j) = j
      BY <1>1
    <2>2. x[l - j] = e[l - (l - j)]
      BY <1>15, <2>1 DEF S
    <2> QED
      BY <1>11, <1>12, <2>1, <2>2
  <1> DEFINE h == SubSeq(iv, 1, l)
  <1>17. IsHead(h, iv, l)
    BY <1>1, HeadFacts
  <1>18. d = h
    <2> HIDE DEF h
    <2> QED
      BY <1>1, <1>11, <1>16, <1>17, SameSeq DEF IsHead
  <1> QED
    BY <1>6, <1>10, <1>18 DEF d, v
-----------------------------------------------------------------------------
(* The key stream *)

StreamByte(x, b) == Enc(Digits(x + ((b - 1) \div CellSize)))[((b - 1) % CellSize) + 1]

LEMMA StreamShifts ==
    ASSUME NEW x \in Nat, NEW a \in Nat, NEW b \in Nat \ {0}
    PROVE  StreamByte(x, (a * CellSize) + b) = StreamByte(x + a, b)
  <1> DEFINE l == CellSize
             c == b - 1
             q == c \div l
             r == c % l
             p == a * l
             z == ((p + b) - 1)
  <1>1. l \in Nat \ {0} /\ c \in Nat /\ p \in Nat /\ z = p + c
    BY CellAssumption, Times
  <1>2. q \in Nat /\ r \in Nat /\ r < l /\ c = (q * l) + r
    <2> HIDE DEF c
    <2> QED
      BY <1>1, DivMod
  <1> HIDE DEF c, q, r, z
  <1>3. (a + q) * l = (a * l) + (q * l) /\ q * l \in Nat
    BY <1>1, <1>2, Times
  <1>4. z = ((a + q) * l) + r
    BY <1>1, <1>2, <1>3
  <1>5. (((a + q) * l) + r) \div l = a + q /\ (((a + q) * l) + r) % l = r
    <2>1. a + q \in Nat
      BY <1>2
    <2> QED
      BY <1>1, <1>2, <2>1, DivModIs
  <1>6. z \div l = a + q /\ z % l = r
    BY <1>4, <1>5, Zenon
  <1>7. x + (a + q) = (x + a) + q
    BY <1>2
  <1>8. StreamByte(x, p + b) = Enc(Digits(x + (a + q)))[r + 1]
    <2>1. StreamByte(x, p + b) = Enc(Digits(x + (z \div l)))[(z % l) + 1]
      BY Zenon DEF StreamByte, z
    <2> QED
      BY <1>6, <2>1, Zenon
  <1>9. StreamByte(x + a, b) = Enc(Digits((x + a) + q))[r + 1]
    BY Zenon DEF StreamByte, q, r, c
  <1> QED
    BY <1>7, <1>8, <1>9, Zenon

LEMMA StreamInCell ==
    ASSUME NEW x \in Nat, NEW i \in 1 .. CellSize
    PROVE  StreamByte(x, i) = Enc(Digits(x))[i]
  <1>1. 0 * CellSize + (i - 1) = i - 1 /\ i - 1 \in Nat /\ i - 1 < CellSize /\ x + 0 = x /\ (i - 1) + 1 = i
    BY CellAssumption
  <1>2. (0 * CellSize + (i - 1)) \div CellSize = 0 /\ (0 * CellSize + (i - 1)) % CellSize = i - 1
    BY <1>1, CellAssumption, DivModIs
  <1>3. (i - 1) \div CellSize = 0 /\ (i - 1) % CellSize = i - 1
    BY <1>1, <1>2
  <1> QED
    BY <1>1, <1>3, Zenon DEF StreamByte

\* CTR of n bytes: each with its byte of the stream.
ByStream(x, g, n) == [b \in 1 .. n |-> SymDiff(g[b], StreamByte(x, b))]

LEMMA CtrIsTheModes ==
    ASSUME NEW enc, NEW iv, NEW n \in Nat, NEW g, IsSeq(g, n)
    PROVE  ByTheMode("CTR", enc, iv, g) = ByStream(Number(iv), g, n)
  <1> DEFINE m == Len(Cells(g)) + 1
             stream == [c \in 1 .. m |-> Enc(Digits(Number(iv) + c - 1))]
  <1>1. Len(Cells(g)) = n \div CellSize /\ DOMAIN g = 1 .. n
    <2>1. IsSeq(Cells(g), n \div CellSize) /\ n \div CellSize \in Nat
      <3>1. n \div CellSize \in Nat
        BY CellAssumption, DivMod
      <3>2. IsCells(Cells(g), n \div CellSize)
        BY CellsFacts
      <3> QED
        BY <3>1, <3>2 DEF IsCells
    <2> QED
      BY <2>1, SeqFacts
  <1>2. ByTheMode("CTR", enc, iv, g) =
            [b \in DOMAIN g |-> SymDiff(g[b], stream[((b - 1) \div CellSize) + 1][((b - 1) % CellSize) + 1])]
    BY Zenon DEF ByTheMode
  <1>3. ASSUME NEW b \in 1 .. n
        PROVE  stream[((b - 1) \div CellSize) + 1][((b - 1) % CellSize) + 1] = StreamByte(Number(iv), b)
    <2> DEFINE q == (b - 1) \div CellSize
    <2>1. q \in Nat /\ q + 1 \in 1 .. m
      <3> DEFINE d == b - 1
                 r == d % CellSize
                 t == n \div CellSize
      <3>1. d \in Nat /\ d <= n
        OBVIOUS
      <3>2. CellSize \in Nat /\ CellSize > 0
        BY CellAssumption
      <3> HIDE DEF d
      <3>3. /\ d \div CellSize \in Nat /\ r \in Nat /\ d = ((d \div CellSize) * CellSize) + r
            /\ t \in Nat /\ n % CellSize \in Nat /\ n % CellSize < CellSize /\ n = (t * CellSize) + (n % CellSize)
        BY <3>1, <3>2, DivMod
      <3> DEFINE u == d \div CellSize
                 s == n % CellSize
      <3> HIDE DEF r, t, u, s
      <3>4. u \in Nat /\ t \in Nat /\ r \in Nat /\ s \in Nat /\ s < CellSize /\ d = (u * CellSize) + r
            /\ n = (t * CellSize) + s
        BY <3>3 DEF u, s
      <3>5. /\ t < u => (t * CellSize) + CellSize <= u * CellSize
            /\ t * CellSize \in Nat /\ u * CellSize \in Nat
        BY <3>2, <3>4, Times
      <3>6. u <= t
        BY <3>1, <3>2, <3>4, <3>5
      <3>7. m = t + 1
        BY <1>1 DEF t
      <3>8. u \in Nat /\ u + 1 \in 1 .. m
        BY <3>4, <3>6, <3>7
      <3> QED
        BY <3>8 DEF u, d
    <2> HIDE DEF q, m
    <2>2. stream[q + 1] = Enc(Digits(Number(iv) + (q + 1) - 1))
      BY <2>1
    <2>3. Number(iv) + (q + 1) - 1 = Number(iv) + q
      BY <2>1
    <2> HIDE DEF stream
    <2> QED
      BY <2>2, <2>3, Zenon DEF StreamByte, q
  <1> HIDE DEF stream, m
  <1>4. \A b \in 1 .. n : stream[((b - 1) \div CellSize) + 1][((b - 1) % CellSize) + 1] = StreamByte(Number(iv), b)
    BY <1>3
  <1> DEFINE F == [b \in 1 .. n |-> SymDiff(g[b], stream[((b - 1) \div CellSize) + 1][((b - 1) % CellSize) + 1])]
             G == [b \in 1 .. n |-> SymDiff(g[b], StreamByte(Number(iv), b))]
  <1>5. F = G
    <2>1. \A b \in 1 .. n : F[b] = G[b]
      BY <1>4
    <2> QED
      BY <2>1
  <1> QED
    BY <1>1, <1>2, <1>5 DEF ByStream

\* The key stream that processCtrBlocks makes for u bytes.
StreamMade(ctr, u) ==
    FlattenSeq([c \in 1 .. u \div CellSize |-> Enc(Counter(ctr, c - 1))])
        \o SubSeq(Enc(Counter(ctr, u \div CellSize)), 1, u % CellSize)

LEMMA StreamMadeFacts ==
    ASSUME NEW x \in Nat, NEW u \in Nat, NEW i \in 1 .. u
    PROVE  StreamMade(Digits(x), u)[i] = StreamByte(x, i)
  <1> DEFINE l == CellSize
             q == u \div l
             r == u % l
             ctr == Digits(x)
             s == [c \in 1 .. q |-> Enc(Counter(ctr, c - 1))]
             flat == FlattenSeq(s)
             last == Enc(Counter(ctr, q))
             h == SubSeq(last, 1, r)
             fh == flat \o h
  <1>1. l \in Nat \ {0} /\ q \in Nat /\ r \in Nat /\ r < l /\ u = (q * l) + r /\ q * l \in Nat
    BY CellAssumption, DivMod, Times
  <1>2. StreamMade(ctr, u) = fh
    BY Zenon DEF StreamMade
  <1>3. IsSeq(s, q)
    BY DEF IsSeq
  <1>4. \A c \in 1 .. q : s[c] = Enc(Counter(ctr, c - 1))
    OBVIOUS
  <1> HIDE DEF s
  <1>5. \A c \in 1 .. q : s[c] = Enc(Digits(x + (c - 1)))
    <2> SUFFICES ASSUME NEW c \in 1 .. q PROVE s[c] = Enc(Digits(x + (c - 1)))
      OBVIOUS
    <2>1. c - 1 \in Nat
      BY <1>1
    <2>2. Counter(ctr, c - 1) = Digits(x + (c - 1))
      BY <2>1, CounterIs
    <2> QED
      BY <1>4, <2>2
  <1>6. IsCells(s, q)
    <2>1. ASSUME NEW c \in 1 .. q PROVE IsSeq(s[c], CellSize)
      BY <1>5, EncSeq
    <2> QED
      BY <1>3, <2>1 DEF IsCells
  <1>7. IsFlat(flat, s, q) /\ IsSeq(flat, q * l)
    BY <1>1, <1>6, FlatFacts DEF IsFlat
  <1>8. last = Enc(Digits(x + q)) /\ IsSeq(last, l)
    BY <1>1, CounterIs, EncSeq
  <1>9. IsHead(h, last, r)
    <2> HIDE DEF last, r
    <2> QED
      BY <1>1, <1>8, HeadFacts
  <1> HIDE DEF flat, h, last, q, r
  <1> DEFINE p == q * l
  <1>10. IsConcat(fh, flat, p, h, r)
    <2> HIDE DEF p
    <2>1. p \in Nat /\ IsSeq(flat, p) /\ IsSeq(h, r)
      BY <1>1, <1>7, <1>9 DEF p, IsHead
    <2> QED
      BY <1>1, <2>1, ConcatFacts
  <1> HIDE DEF fh, p, ctr, l
  <1>11. p \in Nat /\ u = p + r /\ i \in 1 .. p + r
    BY <1>1 DEF p
  <1>12. CASE i <= p
    <2>1. fh[i] = flat[i] /\ i \in 1 .. p
      BY <1>10, <1>11, <1>12 DEF IsConcat
    <2> DEFINE a == (i - 1) \div l
               j == ((i - 1) % l) + 1
    <2>2. a \in 0 .. q - 1 /\ j \in 1 .. l /\ i = (a * l) + ((i - 1) % l) + 1
      <3>1. i \in 1 .. q * l
        BY <2>1 DEF p
      <3> QED
        BY <1>1, <3>1, PlaceOfByte
    <2>3. a \in Nat /\ a < q /\ a * l \in Nat /\ i = (a * l) + j /\ j \in Nat \ {0} /\ (a * l) + l <= q * l
      <3>1. a \in Nat /\ a < q /\ j \in Nat \ {0}
        BY <1>1, <2>2
      <3> DEFINE w == (i - 1) % l
      <3> HIDE DEF a
      <3>2. a * l \in Nat /\ (a * l) + l <= q * l
        BY <1>1, <3>1, Times
      <3>3. w \in Nat
        BY <1>1, <1>11, DivMod
      <3> HIDE DEF w
      <3>4. i = (a * l) + w + 1 /\ j = w + 1
        BY <2>2 DEF w, a
      <3> HIDE DEF j
      <3>5. i = (a * l) + j
        BY <3>2, <3>3, <3>4
      <3> QED
        BY <3>1, <3>2, <3>5
    <2> HIDE DEF a, j
    <2>4. Block(flat, a, l)[j] = flat[(a * l) + j] /\ Block(flat, a, l) = s[a + 1]
      <3>1. Block(flat, a, l) = s[a + 1]
        BY <1>7, <2>3 DEF IsFlat, l
      <3>2. Block(flat, a, l)[j] = flat[(a * l) + j]
        <4>1. IsSeq(flat, p) /\ (a * l) + l <= p
          BY <1>7, <2>3 DEF p
        <4> QED
          BY <1>1, <1>11, <2>2, <2>3, <4>1, BlockFacts
      <3> QED
        BY <3>1, <3>2
    <2>5. s[a + 1] = Enc(Digits(x + a))
      <3>1. a + 1 \in 1 .. q /\ (a + 1) - 1 = a
        BY <1>1, <2>3
      <3> QED
        BY <1>5, <3>1
    <2>6. StreamByte(x, (a * l) + j) = StreamByte(x + a, j)
      BY <2>3, StreamShifts DEF l
    <2>7. StreamByte(x + a, j) = Enc(Digits(x + a))[j]
      <3>1. x + a \in Nat /\ j \in 1 .. CellSize
        BY <2>2, <2>3 DEF l
      <3> QED
        BY <3>1, StreamInCell
    <2>8. flat[i] = StreamByte(x, i)
      <3>1. (a * l) + j = i
        BY <2>3
      <3> QED
        BY <2>4, <2>5, <2>6, <2>7, <3>1, Zenon
    <2> QED
      BY <1>2, <2>1, <2>8 DEF ctr
  <1>13. CASE ~(i <= p)
    <2> DEFINE j == i - p
    <2>1. j \in 1 .. r /\ j \in 1 .. l /\ j \in Nat \ {0} /\ i = p + j
      BY <1>1, <1>11, <1>13
    <2>2. fh[i] = h[j]
      BY <1>10, <1>11, <1>13 DEF IsConcat
    <2> HIDE DEF j
    <2>3. h[j] = Enc(Digits(x + q))[j]
      BY <1>8, <1>9, <2>1 DEF IsHead
    <2>4. StreamByte(x, (q * l) + j) = StreamByte(x + q, j)
      BY <1>1, <2>1, StreamShifts DEF l
    <2>5. StreamByte(x + q, j) = Enc(Digits(x + q))[j]
      <3>1. x + q \in Nat /\ j \in 1 .. CellSize
        BY <1>1, <2>1 DEF l
      <3> QED
        BY <3>1, StreamInCell
    <2>6. (q * l) + j = i
      BY <2>1 DEF p
    <2> QED
      BY <1>2, <2>2, <2>3, <2>4, <2>5, <2>6, Zenon DEF ctr
  <1> QED
    BY <1>12, <1>13, <1>11

\* n bytes went through with the stream of the number x, of which p cells were
\* begun; of the last one the bytes after ksPos_ are still to be used.
InStream(o, x, g, y, n, p) ==
    /\ IsCipher(o) /\ o.mode = "CTR" /\ o.buf = << >>
    /\ n \in Nat /\ p \in Nat /\ x \in Nat
    /\ IsSeq(g, n) /\ IsSeq(y, n)
    /\ \A b \in 1 .. n : y[b] = SymDiff(g[b], StreamByte(x, b))
    /\ o.ksPos \in 1 .. CellSize /\ n + (CellSize - o.ksPos) = p * CellSize
    /\ o.ctr = Digits(x + p)
    /\ o.ksPos < CellSize => o.ks = Enc(Digits((x + p) - 1))
HasStream(o, x, g, y) == \E n, p : InStream(o, x, g, y, n, p)

\* What update does with m bytes: left of them with the old key stream.
Taken(o, m) == Min({CellSize - o.ksPos, m})


\* The numbers of a step: left bytes with the old key stream, q cells and r
\* bytes of a new one.
TakenNumbers(l, n, p, pos, m, left, u, q, r) ==
    /\ left \in Nat /\ left <= m /\ pos + left <= l /\ u \in Nat /\ u = m - left /\ left + u = m
    /\ q \in Nat /\ r \in Nat /\ r < l
    /\ u # 0 => n + left = p * l
    /\ left # 0 => pos < l
    /\ pos < l => p # 0 /\ n = ((p - 1) * l) + pos
    /\ r # 0 => r \in 1 .. l /\ (n + m) + (l - r) = ((p + q) + 1) * l
    /\ r = 0 => /\ pos + left \in 1 .. l /\ (n + m) + (l - (pos + left)) = (p + q) * l
                /\ pos + left < l => q = 0 /\ pos < l

LEMMA PlainNumbers ==
    ASSUME NEW l \in Nat \ {0}, NEW n \in Nat, NEW p \in Nat, NEW pos \in 1 .. l, NEW m \in Nat, NEW left, NEW u,
           NEW q \in Nat, NEW r \in Nat, NEW pl \in Nat, NEW ql \in Nat, NEW pq, NEW pq1,
           left = IF l - pos <= m THEN l - pos ELSE m, u = m - left, r < l,
           n + (l - pos) = pl, u = ql + r, pq = pl + ql, pq1 = pq + l, q # 0 => ql >= l
    PROVE  /\ left \in Nat /\ left <= m /\ pos + left <= l /\ u \in Nat /\ left + u = m
           /\ u # 0 => n + left = pl
           /\ left # 0 => pos < l
           /\ r # 0 => r \in 1 .. l /\ (n + m) + (l - r) = pq1
           /\ r = 0 => /\ pos + left \in 1 .. l /\ (n + m) + (l - (pos + left)) = pq
                       /\ pos + left < l => q = 0 /\ pos < l
  <1>1. left \in Nat /\ left <= m /\ pos + left <= l /\ u \in Nat /\ left + u = m
    OBVIOUS
  <1>2. u # 0 => n + left = pl
    OBVIOUS
  <1>3. left # 0 => pos < l
    OBVIOUS
  <1>4. r # 0 => r \in 1 .. l /\ (n + m) + (l - r) = pq1
    BY <1>1, <1>2
  <1>5. r = 0 => /\ pos + left \in 1 .. l /\ (n + m) + (l - (pos + left)) = pq
                 /\ pos + left < l => q = 0 /\ pos < l
    <2>1. CASE u = 0
      BY <1>1, <2>1
    <2>2. CASE u # 0
      BY <1>1, <1>2, <2>2
    <2> QED
      BY <2>1, <2>2
  <1> QED
    BY <1>1, <1>2, <1>3, <1>4, <1>5

LEMMA TakenFacts ==
    ASSUME NEW l \in Nat \ {0}, NEW n \in Nat, NEW p \in Nat, NEW pos \in 1 .. l, NEW pl, pl = p * l,
           n + (l - pos) = pl, NEW m \in Nat, NEW u, u = m - Min({l - pos, m})
    PROVE  TakenNumbers(l, n, p, pos, m, Min({l - pos, m}), u, u \div l, u % l)
  <1> DEFINE left == Min({l - pos, m})
             q == u \div l
             r == u % l
             ql == q * l
             pq == (p + q) * l
             pq1 == ((p + q) + 1) * l
  <1>1. left = IF l - pos <= m THEN l - pos ELSE m
    <2>1. l - pos \in Nat
      OBVIOUS
    <2> QED
      BY <2>1, MinFacts
  <1>2. u = m - left
    OBVIOUS
  <1> HIDE DEF left
  <1>3. u \in Nat
    BY <1>1, <1>2
  <1>4. q \in Nat /\ r \in Nat /\ r < l /\ u = ql + r
    BY <1>3, DivMod
  <1> HIDE DEF q, r
  <1>5. p * l \in Nat /\ q * l \in Nat /\ (p + q) * l = (p * l) + (q * l) /\ ((p + q) + 1) * l = ((p + q) * l) + l
    <2>1. p + q \in Nat
      BY <1>4
    <2> QED
      BY <1>4, <2>1, Times
  <1>6. q # 0 => ql >= l
    <2> SUFFICES ASSUME q # 0 PROVE ql >= l
      OBVIOUS
    <2>1. 0 < q /\ 0 \in Nat /\ 0 * l = 0
      BY <1>4
    <2>2. (0 * l) + l <= q * l
      BY <1>4, <2>1, Times
    <2> QED
      BY <1>5, <2>1, <2>2
  <1>7. pl \in Nat /\ ql \in Nat /\ pq = pl + ql /\ pq1 = pq + l
    BY <1>5
  <1>8. pos < l => p # 0 /\ n = ((p - 1) * l) + pos
    <2> SUFFICES ASSUME pos < l PROVE p # 0 /\ n = ((p - 1) * l) + pos
      OBVIOUS
    <2>1. p # 0
      <3>1. p = 0 => pl = 0
        OBVIOUS
      <3> HIDE DEF ql, pq, pq1
      <3> QED
        BY <3>1, <1>7
    <2>2. p - 1 \in Nat /\ (p - 1) + 1 = p
      BY <2>1
    <2> DEFINE pp == (p - 1) * l
    <2>3. pp \in Nat /\ pl = pp + l
      <3>1. pp \in Nat /\ ((p - 1) + 1) * l = pp + l
        BY <2>2, Times
      <3> QED
        BY <2>2, <3>1
    <2> HIDE DEF pp, ql, pq, pq1
    <2>4. n = pp + pos
      BY <2>3
    <2> QED
      BY <2>1, <2>4 DEF pp
  <1> HIDE DEF ql, pq, pq1
  <1>9. /\ left \in Nat /\ left <= m /\ pos + left <= l /\ u \in Nat /\ left + u = m
        /\ u # 0 => n + left = pl
        /\ left # 0 => pos < l
        /\ r # 0 => r \in 1 .. l /\ (n + m) + (l - r) = pq1
        /\ r = 0 => /\ pos + left \in 1 .. l /\ (n + m) + (l - (pos + left)) = pq
                    /\ pos + left < l => q = 0 /\ pos < l
    BY <1>1, <1>2, <1>4, <1>6, <1>7, PlainNumbers
  <1>10. TakenNumbers(l, n, p, pos, m, left, u, q, r)
    BY <1>2, <1>4, <1>8, <1>9 DEF TakenNumbers, pq, pq1
  <1> QED
    BY <1>10 DEF left, q, r

\* The bytes of one call: left of them with the old key stream, the others with
\* a new one.
CounterMade(o, b, m, left, u) ==
    XorCell(SubSeq(b, 1, left), SubSeq(o.ks, o.ksPos + 1, o.ksPos + left))
        \o XorCell(SubSeq(b, left + 1, m), StreamMade(o.ctr, u))

CounterCall(o, x, g, y, n, p, m, b, left, u, q, r) ==
    /\ InStream(o, x, g, y, n, p) /\ m \in Nat /\ IsSeq(b, m)
    /\ TakenNumbers(CellSize, n, p, o.ksPos, m, left, u, q, r)
Streamed(z, b, m, x, n) ==
    IsSeq(z, m) /\ \A a \in 1 .. m : z[a] = SymDiff(b[a], StreamByte(x, n + a))

LEMMA CounterMakes ==
    ASSUME NEW o, NEW x, NEW g, NEW y, NEW n, NEW p, NEW m, NEW b, NEW left, NEW u, NEW q, NEW r,
           CounterCall(o, x, g, y, n, p, m, b, left, u, q, r)
    PROVE  Streamed(CounterMade(o, b, m, left, u), b, m, x, n)
  <1> DEFINE l == CellSize
             pos == o.ksPos
             head == SubSeq(b, 1, left)
             oldks == SubSeq(o.ks, pos + 1, pos + left)
             old == XorCell(head, oldks)
             rest == SubSeq(b, left + 1, m)
             newks == StreamMade(o.ctr, u)
             new == XorCell(rest, newks)
             z == old \o new
  <1>1. /\ l \in Nat \ {0} /\ n \in Nat /\ p \in Nat /\ x \in Nat /\ pos \in 1 .. l /\ left \in Nat /\ u \in Nat
        /\ left <= m /\ pos + left <= l /\ left + u = m /\ m \in Nat /\ IsSeq(b, m)
        /\ InStream(o, x, g, y, n, p) /\ TakenNumbers(l, n, p, pos, m, left, u, q, r)
    BY CellAssumption DEF CounterCall, InStream, TakenNumbers
  <1>2. IsSeq(head, left) /\ \A a \in 1 .. left : head[a] = b[a]
    BY <1>1, HeadFacts DEF IsHead
  <1>3. IsSeq(rest, u) /\ \A a \in 1 .. u : rest[a] = b[left + a]
    <2>1. /\ IsSeq(SubSeq(b, left + 1, left + u), u)
          /\ \A a \in 1 .. u : SubSeq(b, left + 1, left + u)[a] = b[left + a]
      BY <1>1, SubSeqFacts
    <2> QED
      BY <1>1, <2>1
  <1> HIDE DEF head, oldks, rest, newks
  <1>4. IsSeq(old, left) /\ \A a \in 1 .. left : old[a] = SymDiff(head[a], oldks[a])
    BY <1>1, <1>2, XorSeq
  <1>5. ASSUME NEW a \in 1 .. left PROVE old[a] = SymDiff(b[a], StreamByte(x, n + a))
    <2> DEFINE d == p - 1
    <2>1. left # 0 /\ a \in Nat \ {0} /\ pos + a \in 1 .. l /\ pos < l
      BY <1>1, <1>5 DEF TakenNumbers
    <2>2. /\ d \in Nat /\ n = (d * l) + pos /\ o.ks = Enc(Digits((x + p) - 1))
      <3>1. p # 0 /\ n = ((p - 1) * l) + pos
        BY <1>1, <2>1 DEF TakenNumbers
      <3> QED
        BY <1>1, <2>1, <3>1 DEF InStream
    <2>3. (x + p) - 1 = x + d
      BY <1>1
    <2>4. old[a] = SymDiff(b[a], oldks[a])
      BY <1>2, <1>4
    <2>5. oldks[a] = o.ks[pos + a]
      <3>1. IsSeq(o.ks, l)
        BY <2>2, EncSeq
      <3> QED
        BY <1>1, <3>1, SubSeqFacts DEF oldks
    <2> HIDE DEF d
    <2>6. StreamByte(x, (d * l) + (pos + a)) = StreamByte(x + d, pos + a)
      <3>1. pos + a \in Nat \ {0}
        BY <2>1
      <3> QED
        BY <1>1, <2>2, <3>1, StreamShifts
    <2>7. StreamByte(x + d, pos + a) = Enc(Digits(x + d))[pos + a]
      BY <1>1, <2>1, <2>2, StreamInCell
    <2>8. (d * l) + (pos + a) = n + a
      <3> DEFINE e == d * l
      <3>1. e \in Nat /\ n = e + pos
        BY <1>1, <2>2, Times
      <3> HIDE DEF e
      <3>2. e + (pos + a) = n + a
        BY <1>1, <2>1, <3>1
      <3> QED
        BY <3>2 DEF e
    <2> QED
      BY <2>2, <2>3, <2>4, <2>5, <2>6, <2>7, <2>8, Zenon
  <1>6. IsSeq(new, u) /\ \A a \in 1 .. u : new[a] = SymDiff(rest[a], newks[a])
    BY <1>1, <1>3, XorSeq
  <1>7. ASSUME NEW a \in 1 .. u PROVE new[a] = SymDiff(b[left + a], StreamByte(x, n + (left + a)))
    <2>1. new[a] = SymDiff(rest[a], newks[a])
      BY <1>6
    <2>2. rest[a] = b[left + a]
      BY <1>3
    <2> HIDE DEF new
    <2>3. newks[a] = StreamByte(x + p, a)
      <3>1. o.ctr = Digits(x + p) /\ x + p \in Nat
        BY <1>1 DEF InStream
      <3>2. StreamMade(Digits(x + p), u)[a] = StreamByte(x + p, a)
        BY <1>1, <3>1, StreamMadeFacts
      <3> QED
        BY <3>1, <3>2, Zenon DEF newks
    <2>4. StreamByte(x, (p * l) + a) = StreamByte(x + p, a)
      <3>1. a \in Nat \ {0}
        OBVIOUS
      <3> QED
        BY <1>1, <3>1, StreamShifts
    <2>5. (p * l) + a = n + (left + a)
      <3>1. u # 0
        BY <1>1
      <3>2. n + left = p * l
        BY <1>1, <3>1 DEF TakenNumbers
      <3> QED
        BY <1>1, <3>2
    <2> QED
      BY <2>1, <2>2, <2>3, <2>4, <2>5, Zenon
  <1> HIDE DEF old, new
  <1>8. IsConcat(z, old, left, new, u)
    BY <1>1, <1>4, <1>6, ConcatFacts
  <1> HIDE DEF z
  <1>9. ASSUME NEW a \in 1 .. m PROVE z[a] = SymDiff(b[a], StreamByte(x, n + a))
    <2>1. a \in 1 .. left + u
      BY <1>1
    <2>2. CASE a <= left
      <3>1. a \in 1 .. left /\ z[a] = old[a]
        BY <1>1, <1>8, <2>1, <2>2 DEF IsConcat
      <3> QED
        BY <1>5, <3>1
    <2>3. CASE ~(a <= left)
      <3> DEFINE i == a - left
      <3>1. i \in 1 .. u /\ z[a] = new[i] /\ left + i = a
        BY <1>1, <1>8, <2>1, <2>3 DEF IsConcat
      <3> HIDE DEF i
      <3>2. new[i] = SymDiff(b[left + i], StreamByte(x, n + (left + i)))
        BY <1>7, <3>1
      <3> QED
        BY <3>1, <3>2, Zenon
    <2> QED
      BY <2>2, <2>3
  <1>10. IsSeq(z, m)
    BY <1>1, <1>8 DEF IsConcat
  <1> QED
    BY <1>9, <1>10 DEF Streamed, CounterMade, z, old, new, head, oldks, rest, newks

\* update of CTR goes on with the stream.
LEMMA CounterSteps ==
    ASSUME NEW o, NEW x, NEW g, NEW y, NEW n, NEW p, InStream(o, x, g, y, n, p),
           NEW m \in Nat, NEW b, IsSeq(b, m)
    PROVE  /\ HasStream(UpdatedCounter(o, b).object, x, g \o b, y \o UpdatedCounter(o, b).out)
           /\ UpdatedCounter(o, b).object.mode = o.mode /\ UpdatedCounter(o, b).object.enc = o.enc
           /\ HasLength(UpdatedCounter(o, b).out)
  <1> DEFINE l == CellSize
             left == Min({CellSize - o.ksPos, Len(b)})
             rest == SubSeq(b, left + 1, Len(b))
             q == Len(rest) \div CellSize
             r == Len(rest) % CellSize
             z == XorCell(SubSeq(b, 1, left), SubSeq(o.ks, o.ksPos + 1, o.ksPos + left))
                      \o XorCell(rest, StreamMade(o.ctr, Len(rest)))
             v == IF r = 0 THEN [o EXCEPT !.ksPos = @ + left, !.ctr = Counter(@, q)]
                  ELSE [o EXCEPT !.ks = Enc(Counter(o.ctr, q)), !.ksPos = r, !.ctr = Counter(@, q + 1)]
  <1>1. UpdatedCounter(o, b) = [object |-> v, out |-> z]
    BY Zenon DEF UpdatedCounter, StreamMade
  <1>2. UpdatedCounter(o, b).object = v /\ UpdatedCounter(o, b).out = z
    <2> HIDE DEF v, z
    <2> QED
      BY <1>1
  <1>3. Len(b) = m
    BY SeqFacts
  <1>4. /\ l \in Nat \ {0} /\ n \in Nat /\ p \in Nat /\ x \in Nat /\ o.ksPos \in 1 .. l /\ x + p \in Nat
        /\ IsSeq(g, n) /\ IsSeq(y, n) /\ n + (l - o.ksPos) = p * l /\ o.ctr = Digits(x + p)
    BY CellAssumption DEF InStream
  <1> DEFINE u == m - left
  <1>5. TakenNumbers(l, n, p, o.ksPos, m, left, u, u \div l, u % l)
    <2> DEFINE pl == p * l
    <2>1. n + (l - o.ksPos) = pl
      BY <1>4
    <2> HIDE DEF pl
    <2>2. TakenNumbers(l, n, p, o.ksPos, m, Min({l - o.ksPos, m}), m - Min({l - o.ksPos, m}),
                       (m - Min({l - o.ksPos, m})) \div l, (m - Min({l - o.ksPos, m})) % l)
      BY <1>4, <2>1, TakenFacts DEF pl
    <2> QED
      BY <1>3, <2>2
  <1> HIDE DEF left
  <1>6. Len(rest) = u
    <2>1. left \in Nat /\ u \in Nat /\ left + u = m
      BY <1>5 DEF TakenNumbers
    <2>2. IsSeq(SubSeq(b, left + 1, left + u), u)
      BY <2>1, SubSeqFacts
    <2>3. IsSeq(rest, u)
      BY <1>3, <2>1, <2>2
    <2> HIDE DEF rest
    <2> QED
      BY <2>1, <2>3, SeqFacts
  <1>7. TakenNumbers(l, n, p, o.ksPos, m, left, u, q, r)
    BY <1>5, <1>6, Zenon
  <1>8. z = CounterMade(o, b, m, left, u)
    BY <1>3, <1>6, Zenon DEF CounterMade
  <1>9. IsSeq(z, m) /\ \A a \in 1 .. m : z[a] = SymDiff(b[a], StreamByte(x, n + a))
    <2> HIDE DEF z, u, q, r, v, rest
    <2>1. CounterCall(o, x, g, y, n, p, m, b, left, u, q, r)
      BY <1>7 DEF CounterCall
    <2>2. Streamed(CounterMade(o, b, m, left, u), b, m, x, n)
      BY <2>1, CounterMakes
    <2> QED
      BY <1>8, <2>2 DEF Streamed
  <1> HIDE DEF z, u, q, r
  <1>10. HasLength(z)
    BY <1>9 DEF HasLength
  <1> DEFINE gb == g \o b
             yz == y \o z
  <1>11. IsConcat(gb, g, n, b, m) /\ IsConcat(yz, y, n, z, m)
    BY <1>4, <1>9, ConcatFacts
  <1> HIDE DEF gb, yz
  <1>12. /\ IsSeq(gb, n + m) /\ IsSeq(yz, n + m) /\ n + m \in Nat
    BY <1>4, <1>11 DEF IsConcat
  <1>13. ASSUME NEW a \in 1 .. n + m PROVE yz[a] = SymDiff(gb[a], StreamByte(x, a))
    <2>1. CASE a <= n
      <3>1. a \in 1 .. n /\ yz[a] = y[a] /\ gb[a] = g[a]
        BY <1>4, <1>11, <2>1 DEF IsConcat
      <3>2. y[a] = SymDiff(g[a], StreamByte(x, a))
        BY <3>1 DEF InStream
      <3> QED
        BY <3>1, <3>2
    <2>2. CASE ~(a <= n)
      <3> DEFINE i == a - n
      <3>1. i \in 1 .. m /\ yz[a] = z[i] /\ gb[a] = b[i] /\ n + i = a
        BY <1>4, <1>11, <2>2 DEF IsConcat
      <3> HIDE DEF i
      <3>2. z[i] = SymDiff(b[i], StreamByte(x, n + i))
        BY <1>9, <3>1
      <3> QED
        BY <3>1, <3>2, Zenon
    <2> QED
      BY <2>1, <2>2
  <1>14. o = [mode |-> o.mode, build |-> o.build, enc |-> o.enc, buf |-> o.buf, iv |-> o.iv, ctr |-> o.ctr,
              ks |-> o.ks, ksPos |-> o.ksPos] /\ o.enc \in BOOLEAN /\ o.mode = "CTR" /\ o.buf = << >>
    BY DEF InStream, IsCipher
  <1>15. q \in Nat /\ r \in Nat /\ x + p \in Nat
    BY <1>4, <1>7 DEF TakenNumbers
  <1>16. Counter(o.ctr, q) = Digits((x + p) + q) /\ Counter(o.ctr, q + 1) = Digits((x + p) + (q + 1))
    <2>1. q + 1 \in Nat
      BY <1>15
    <2> QED
      BY <1>4, <1>15, <2>1, CounterIs
  <1>17. CASE r = 0
    <2> DEFINE N == p + q
    <2>1. v = [mode |-> o.mode, build |-> o.build, enc |-> o.enc, buf |-> o.buf, iv |-> o.iv,
               ctr |-> Counter(o.ctr, q), ks |-> o.ks, ksPos |-> o.ksPos + left]
      <3>1. v = [o EXCEPT !.ksPos = @ + left, !.ctr = Counter(@, q)]
        BY <1>17
      <3> HIDE DEF v
      <3> QED
        BY <1>14, <3>1
    <2> HIDE DEF v
    <2>2. /\ IsCipher(v) /\ v.mode = "CTR" /\ v.buf = << >> /\ v.enc = o.enc /\ v.ks = o.ks
          /\ v.ctr = Counter(o.ctr, q) /\ v.ksPos = o.ksPos + left
      BY <1>14, <2>1 DEF IsCipher
    <2>3. N \in Nat /\ x + N = (x + p) + q
      BY <1>4, <1>15
    <2>4. v.ksPos \in 1 .. l /\ (n + m) + (l - v.ksPos) = N * l /\ (v.ksPos < l => q = 0 /\ o.ksPos < l)
      BY <1>7, <1>17, <2>2 DEF TakenNumbers
    <2>5. v.ctr = Digits(x + N)
      BY <1>16, <2>2, <2>3
    <2>6. v.ksPos < l => v.ks = Enc(Digits((x + N) - 1))
      <3> SUFFICES ASSUME v.ksPos < l PROVE v.ks = Enc(Digits((x + N) - 1))
        OBVIOUS
      <3>1. q = 0 /\ o.ksPos < l
        BY <2>4
      <3>2. x + N = x + p
        BY <1>4, <3>1
      <3>3. o.ks = Enc(Digits((x + p) - 1))
        BY <3>1 DEF InStream
      <3> QED
        BY <2>2, <3>2, <3>3
    <2> HIDE DEF N
    <2>7. InStream(v, x, gb, yz, n + m, N)
      BY <1>4, <1>12, <1>13, <2>2, <2>3, <2>4, <2>5, <2>6 DEF InStream
    <2> QED
      BY <1>2, <1>14, <1>10, <2>2, <2>7 DEF HasStream, gb, yz
  <1>18. CASE r # 0
    <2> DEFINE N == (p + q) + 1
    <2>1. v = [mode |-> o.mode, build |-> o.build, enc |-> o.enc, buf |-> o.buf, iv |-> o.iv,
               ctr |-> Counter(o.ctr, q + 1), ks |-> Enc(Counter(o.ctr, q)), ksPos |-> r]
      <3>1. v = [o EXCEPT !.ks = Enc(Counter(o.ctr, q)), !.ksPos = r, !.ctr = Counter(@, q + 1)]
        BY <1>18
      <3> HIDE DEF v
      <3> QED
        BY <1>14, <3>1
    <2> HIDE DEF v
    <2>2. /\ IsCipher(v) /\ v.mode = "CTR" /\ v.buf = << >> /\ v.enc = o.enc /\ v.ks = Enc(Counter(o.ctr, q))
          /\ v.ctr = Counter(o.ctr, q + 1) /\ v.ksPos = r
      BY <1>14, <2>1 DEF IsCipher
    <2>3. N \in Nat /\ x + N = (x + p) + (q + 1) /\ (x + N) - 1 = (x + p) + q
      BY <1>4, <1>15
    <2>4. v.ksPos \in 1 .. l /\ (n + m) + (l - v.ksPos) = N * l
      BY <1>7, <1>18, <2>2 DEF TakenNumbers
    <2>5. v.ctr = Digits(x + N) /\ v.ks = Enc(Digits((x + N) - 1))
      BY <1>16, <2>2, <2>3
    <2> HIDE DEF N
    <2>6. InStream(v, x, gb, yz, n + m, N)
      BY <1>4, <1>12, <1>13, <2>2, <2>3, <2>4, <2>5 DEF InStream
    <2> QED
      BY <1>2, <1>14, <1>10, <2>2, <2>6 DEF HasStream, gb, yz
  <1> QED
    BY <1>17, <1>18
-----------------------------------------------------------------------------
(* The object as a whole *)

\* What setup accepts.
IsVector(mode, iv) ==
    /\ mode # "ECB" => \E n \in Nat : n >= CellSize /\ IsSeq(iv, n)
    /\ mode = "CTR" => \A j \in 1 .. CellSize : iv[j] \in 0 .. Radix - 1
    /\ mode = "CTR" => Number(iv) \in Nat /\ Digits(Number(iv)) = SubSeq(iv, 1, CellSize)

\* Of g, the object made y.
Made(o, iv, g, y) ==
    /\ o.mode \in Modes
    /\ IF o.mode = "CTR" THEN HasStream(o, Number(iv), g, y) ELSE HasCells(o, SubSeq(iv, 1, CellSize), g, y)

LEMMA SetUpMade ==
    ASSUME NEW o, IsCipher(o), o.mode \in Modes, NEW enc \in BOOLEAN, NEW iv, IsVector(o.mode, iv)
    PROVE  /\ Made(SetUpCipher(o, enc, iv), iv, << >>, << >>)
           /\ SetUpCipher(o, enc, iv).mode = o.mode /\ SetUpCipher(o, enc, iv).enc = enc
  <1> DEFINE first == SubSeq(iv, 1, CellSize)
             fresh == [mode |-> o.mode, build |-> o.build, enc |-> enc, buf |-> << >>, iv |-> o.iv, ctr |-> o.ctr,
                       ks |-> o.ks, ksPos |-> CellSize]
             u == SetUpCipher(o, enc, iv)
  <1>1. CellSize \in Nat \ {0} /\ IsSeq(<< >>, 0) /\ 0 \in Nat
    BY CellAssumption, EmptyIs
  <1>2. [o EXCEPT !.enc = enc, !.buf = << >>, !.ksPos = CellSize] = fresh
    <2> DEFINE z == [o EXCEPT !.enc = enc, !.buf = << >>, !.ksPos = CellSize]
    <2>1. o = [mode |-> o.mode, build |-> o.build, enc |-> o.enc, buf |-> o.buf, iv |-> o.iv, ctr |-> o.ctr,
               ks |-> o.ks, ksPos |-> o.ksPos]
      BY DEF IsCipher
    <2>2. z = [o EXCEPT !.enc = enc, !.buf = << >>, !.ksPos = CellSize]
      OBVIOUS
    <2> HIDE DEF z
    <2>3. z = fresh
      BY <2>1, <2>2
    <2> HIDE DEF fresh
    <2> QED
      BY <2>3 DEF z
  <1>3. u = CASE o.mode = "CBC" -> [fresh EXCEPT !.iv = first]
              [] o.mode = "CTR" -> [fresh EXCEPT !.ctr = first]
              [] OTHER          -> fresh
    BY <1>2 DEF SetUpCipher
  <1> HIDE DEF u, first
  <1>4. CASE o.mode \in {"CBC", "ECB"}
    <2>1. /\ IsCipher(u) /\ u.mode = o.mode /\ u.enc = enc /\ u.buf = << >> /\ (o.mode = "CBC" => u.iv = first)
      <3>1. CASE o.mode = "CBC"
        <4>1. u = [fresh EXCEPT !.iv = first]
          BY <1>3, <3>1
        <4>2. u = [mode |-> o.mode, build |-> o.build, enc |-> enc, buf |-> << >>, iv |-> first, ctr |-> o.ctr,
                   ks |-> o.ks, ksPos |-> CellSize]
          BY <4>1
        <4> QED
          BY <4>2 DEF IsCipher
      <3>2. CASE o.mode = "ECB"
        <4>1. u = fresh
          BY <1>3, <3>2
        <4> QED
          BY <3>2, <4>1 DEF IsCipher
      <3> QED
        BY <1>4, <3>1, <3>2
    <2>2. /\ Passed(u.mode, u.enc, first, << >>, << >>, 0) /\ NextIv(u.enc, first, << >>, << >>, 0) = first
          /\ FlattenSeq(<< >>) = << >>
      BY NonePassed
    <2>3. IsNext(u.mode, u.enc, first, << >>, << >>, 0, u.iv)
      BY <1>4, <2>1, <2>2 DEF IsNext
    <2>4. << >> = FlattenSeq(<< >>) \o u.buf
      <3>1. << >> \o << >> = << >>
        BY <1>1, ConcatEmpty
      <3> QED
        BY <2>1, <2>2, <3>1, Zenon
    <2>5. InCells(u, first, << >>, << >>, << >>, << >>, 0, 0)
      BY <1>1, <1>4, <2>1, <2>2, <2>3, <2>4 DEF InCells
    <2> QED
      BY <1>4, <2>1, <2>5 DEF Made, HasCells, first, u
  <1>5. CASE o.mode = "CTR"
    <2>1. u = [mode |-> o.mode, build |-> o.build, enc |-> enc, buf |-> << >>, iv |-> o.iv, ctr |-> first,
               ks |-> o.ks, ksPos |-> CellSize]
      <3>1. u = [fresh EXCEPT !.ctr = first]
        BY <1>3, <1>5
      <3> QED
        BY <3>1
    <2>2. IsCipher(u) /\ u.mode = o.mode /\ u.enc = enc /\ u.buf = << >> /\ u.ctr = first /\ u.ksPos = CellSize
      BY <2>1 DEF IsCipher
    <2>3. Number(iv) \in Nat /\ first = Digits(Number(iv)) /\ Number(iv) + 0 = Number(iv)
      BY <1>5 DEF IsVector, first
    <2>4. 0 + (CellSize - u.ksPos) = 0 * CellSize /\ u.ksPos \in 1 .. CellSize
      BY <1>1, <2>2
    <2> DEFINE x == Number(iv)
    <2> HIDE DEF x
    <2>5. InStream(u, x, << >>, << >>, 0, 0)
      BY <1>1, <1>5, <2>2, <2>3, <2>4 DEF InStream, x
    <2> QED
      BY <1>5, <2>2, <2>5 DEF Made, HasStream, x, u
  <1> QED
    BY <1>4, <1>5 DEF Modes

LEMMA UpdateMade ==
    ASSUME NEW o, NEW iv, NEW g, NEW y, Made(o, iv, g, y), NEW m \in Nat, NEW b, IsSeq(b, m)
    PROVE  /\ Made(UpdatedCipher(o, b).object, iv, g \o b, y \o UpdatedCipher(o, b).out)
           /\ UpdatedCipher(o, b).object.mode = o.mode /\ UpdatedCipher(o, b).object.enc = o.enc
           /\ HasLength(UpdatedCipher(o, b).out)
  <1>1. CASE o.mode = "CTR"
    <2>1. UpdatedCipher(o, b) = UpdatedCounter(o, b)
      BY <1>1 DEF UpdatedCipher
    <2> DEFINE x == Number(iv)
    <2>2. PICK n, p : InStream(o, x, g, y, n, p)
      BY <1>1 DEF Made, HasStream
    <2> HIDE DEF x
    <2>3. /\ HasStream(UpdatedCounter(o, b).object, x, g \o b, y \o UpdatedCounter(o, b).out)
          /\ UpdatedCounter(o, b).object.mode = o.mode /\ UpdatedCounter(o, b).object.enc = o.enc
          /\ HasLength(UpdatedCounter(o, b).out)
      BY <2>2, CounterSteps
    <2>4. Made(UpdatedCounter(o, b).object, iv, g \o b, y \o UpdatedCounter(o, b).out)
      BY <1>1, <2>3 DEF Made, x
    <2> QED
      BY <2>1, <2>3, <2>4, Zenon
  <1>2. CASE o.mode # "CTR"
    <2>1. UpdatedCipher(o, b) = UpdatedCells(o, b)
      BY <1>2 DEF UpdatedCipher
    <2> DEFINE x == SubSeq(iv, 1, CellSize)
    <2>2. PICK w, q, n, r : InCells(o, x, g, y, w, q, n, r)
      BY <1>2 DEF Made, HasCells
    <2> HIDE DEF x
    <2>3. /\ HasCells(UpdatedCells(o, b).object, x, g \o b, y \o UpdatedCells(o, b).out)
          /\ UpdatedCells(o, b).object.mode = o.mode /\ UpdatedCells(o, b).object.enc = o.enc
          /\ HasLength(UpdatedCells(o, b).out)
      BY <2>2, CellSteps
    <2>4. Made(UpdatedCells(o, b).object, iv, g \o b, y \o UpdatedCells(o, b).out)
      BY <1>2, <2>3 DEF Made, x
    <2> QED
      BY <2>1, <2>3, <2>4, Zenon
  <1> QED
    BY <1>1, <1>2

LEMMA MadeIsTheModes ==
    ASSUME NEW o, NEW iv, IsVector(o.mode, iv), NEW g, NEW y, Made(o, iv, g, y)
    PROVE  /\ y = ByTheMode(o.mode, o.enc, iv, g)
           /\ Len(g) - Len(y) = Len(o.buf) /\ Len(o.buf) < CellSize
           /\ \E n, m \in Nat : IsSeq(g, n) /\ IsSeq(y, m)
           /\ IsCipher(o)
  <1>1. CASE o.mode = "CTR"
    <2> DEFINE x == Number(iv)
    <2>1. PICK n, p : InStream(o, x, g, y, n, p)
      BY <1>1 DEF Made, HasStream
    <2>2. ByTheMode("CTR", o.enc, iv, g) = ByStream(Number(iv), g, n)
      <3>1. n \in Nat /\ IsSeq(g, n)
        BY <2>1 DEF InStream
      <3> QED
        BY <3>1, CtrIsTheModes
    <2> HIDE DEF x
    <2>3. n \in Nat /\ IsSeq(g, n) /\ IsSeq(y, n) /\ \A b \in 1 .. n : y[b] = SymDiff(g[b], StreamByte(x, b))
      BY <2>1 DEF InStream
    <2>4. y = ByStream(x, g, n)
      <3> DEFINE z == [b \in 1 .. n |-> SymDiff(g[b], StreamByte(x, b))]
      <3>1. IsSeq(z, n) /\ \A b \in 1 .. n : z[b] = SymDiff(g[b], StreamByte(x, b))
        BY DEF IsSeq
      <3> HIDE DEF z
      <3>2. y = z
        BY <2>3, <3>1, SameSeq
      <3> QED
        BY <3>2 DEF z, ByStream
    <2>5. Len(g) = n /\ Len(y) = n /\ Len(<< >>) = 0
      BY <2>3, SeqFacts
    <2>6. o.buf = << >> /\ IsCipher(o)
      BY <2>1 DEF InStream
    <2>7. Len(g) - Len(y) = Len(o.buf) /\ Len(o.buf) < CellSize
      BY <2>3, <2>5, <2>6, CellAssumption
    <2> QED
      BY <1>1, <2>2, <2>3, <2>4, <2>6, <2>7 DEF x
  <1>2. CASE o.mode # "CTR"
    <2> DEFINE jv == SubSeq(iv, 1, CellSize)
    <2>1. PICK w, q, n, r : InCells(o, jv, g, y, w, q, n, r)
      BY <1>2 DEF Made, HasCells
    <2>2. o.mode = "CBC" => \A j \in 1 .. CellSize : iv[j] = jv[j]
      <3> SUFFICES ASSUME o.mode = "CBC" PROVE \A j \in 1 .. CellSize : iv[j] = jv[j]
        OBVIOUS
      <3>1. PICK i \in Nat : i >= CellSize /\ IsSeq(iv, i)
        BY DEF IsVector
      <3>2. IsHead(jv, iv, CellSize)
        BY <3>1, CellAssumption, HeadFacts
      <3> QED
        BY <3>2 DEF IsHead
    <2> HIDE DEF jv
    <2> DEFINE fw == FlattenSeq(w)
    <2>3. /\ o.mode \in {"CBC", "ECB"} /\ o.enc \in BOOLEAN /\ n \in Nat /\ r \in Nat /\ r < CellSize
          /\ IsCells(w, n) /\ IsCells(q, n) /\ IsSeq(o.buf, r) /\ Passed(o.mode, o.enc, jv, w, q, n) /\ IsCipher(o)
          /\ g = fw \o o.buf /\ y = FlattenSeq(q)
      BY <2>1 DEF InCells, IsCipher, Passed
    <2>4. IsSeq(fw \o o.buf, (n * CellSize) + r) /\ Cells(fw \o o.buf) = w
      <3> HIDE DEF fw
      <3>1. IsSeq(FlattenSeq(w) \o o.buf, (n * CellSize) + r) /\ Cells(FlattenSeq(w) \o o.buf) = w
        BY <2>3, CellsOfFlat
      <3> QED
        BY <3>1 DEF fw
    <2> DEFINE d == n * CellSize
    <2>5. IsSeq(g, d + r) /\ Cells(g) = w
      BY <2>3, <2>4, Zenon
    <2>6. d \in Nat /\ IsSeq(y, d)
      BY <2>3, FlatIsSeq
    <2> HIDE DEF d, fw
    <2>7. d + r \in Nat /\ Len(g) = d + r /\ Len(y) = d /\ Len(o.buf) = r
      <3>1. d + r \in Nat
        BY <2>3, <2>6
      <3> QED
        BY <2>3, <2>5, <2>6, <3>1, SeqFacts
    <2>8. ByTheMode(o.mode, o.enc, iv, g) = FlattenSeq(q)
      BY <2>2, <2>3, <2>5, PassedIsTheModes
    <2>9. Len(g) - Len(y) = Len(o.buf) /\ Len(o.buf) < CellSize
      BY <2>3, <2>6, <2>7
    <2>10. \E i, m \in Nat : IsSeq(g, i) /\ IsSeq(y, m)
      BY <2>5, <2>6, <2>7
    <2> QED
      BY <2>3, <2>8, <2>9, <2>10
  <1> QED
    BY <1>1, <1>2

\* The first elements of s, of whatever length.
Begins(g, s) == \E d, n \in Nat : d <= n /\ IsSeq(s, n) /\ IsHead(g, s, d)

LEMMA BeginsIsPrefix ==
    ASSUME NEW g, NEW s, Begins(g, s)
    PROVE  IsPrefix(g, s)
  <1>1. PICK d, n \in Nat : d <= n /\ IsSeq(s, n) /\ IsHead(g, s, d)
    BY DEF Begins
  <1>2. IsSeq(g, d) /\ \A a \in 1 .. d : g[a] = s[a]
    BY <1>1 DEF IsHead
  <1>3. Len(g) = d /\ Len(s) = n
    BY <1>1, <1>2, SeqFacts
  <1>4. SubSeq(g, 1, d) = g
    BY <1>2, HeadIsAll
  <1> DEFINE h == SubSeq(s, 1, d)
  <1>5. IsHead(h, s, d)
    BY <1>1, HeadFacts
  <1> HIDE DEF h
  <1>6. g = h
    BY <1>2, <1>5, SameSeq DEF IsHead
  <1>7. Len(g) <= Len(s)
    BY <1>1, <1>3
  <1>8. SubSeq(g, 1, Len(g)) = SubSeq(s, 1, Len(g))
    BY <1>3, <1>4, <1>6, Zenon DEF h
  <1> QED
    BY <1>7, <1>8 DEF IsPrefix

\* A beginning and the rest.
LEMMA BeginsWith ==
    ASSUME NEW d \in Nat, NEW n \in Nat, d <= n, NEW s, IsSeq(s, n), NEW g, IsHead(g, s, d)
    PROVE  \E x : IsSeq(g, d) /\ IsSeq(x, n - d) /\ n - d \in Nat /\ IsConcat(s, g, d, x, n - d)
  <1> DEFINE x == [a \in 1 .. n - d |-> s[d + a]]
  <1>1. IsSeq(x, n - d) /\ n - d \in Nat /\ IsSeq(g, d)
    BY DEF IsSeq, IsHead
  <1>2. d + (n - d) = n
    OBVIOUS
  <1>3. ASSUME NEW a \in 1 .. n PROVE s[a] = IF a <= d THEN g[a] ELSE x[a - d]
    <2>1. CASE a <= d
      BY <2>1 DEF IsHead
    <2>2. CASE ~(a <= d)
      <3>1. a - d \in 1 .. n - d /\ d + (a - d) = a
        BY <2>2
      <3>2. x[a - d] = s[d + (a - d)]
        BY <3>1
      <3> HIDE DEF x
      <3> QED
        BY <2>2, <3>1, <3>2
    <2> QED
      BY <2>1, <2>2
  <1> HIDE DEF x
  <1>4. IsConcat(s, g, d, x, n - d)
    BY <1>2, <1>3 DEF IsConcat
  <1> QED
    BY <1>1, <1>4

\* Cells of a beginning are the first of the whole.
LEMMA CellsOfBeginning ==
    ASSUME NEW a \in Nat, NEW v, IsCells(v, a), NEW e \in Nat, e < CellSize, NEW h, IsSeq(h, e),
           NEW n \in Nat, NEW q, IsCells(q, n), NEW g, Joins(g, FlattenSeq(v), h), Begins(g, FlattenSeq(q))
    PROVE  a <= n /\ \A c \in 1 .. a : v[c] = q[c]
  <1> DEFINE l == CellSize
             fv == FlattenSeq(v)
             fq == FlattenSeq(q)
             al == a * l
             nl == n * l
  <1>1. l \in Nat \ {0} /\ IsFlat(fv, v, a) /\ IsFlat(fq, q, n) /\ al \in Nat /\ nl \in Nat
        /\ IsSeq(fv, al) /\ IsSeq(fq, nl)
    BY CellAssumption, FlatFacts, FlatIsSeq
  <1> HIDE DEF fv, fq
  <1>2. PICK d, m \in Nat : d <= m /\ IsSeq(fq, m) /\ IsHead(g, fq, d)
    BY DEF Begins, fq
  <1> HIDE DEF al, nl
  <1>3. m = nl
    <2>1. Len(fq) = m /\ Len(fq) = nl
      BY <1>1, <1>2, SeqFacts
    <2> QED
      BY <2>1
  <1>4. IsConcat(g, fv, al, h, e)
    <2>1. IsConcat(fv \o h, fv, al, h, e)
      BY <1>1, ConcatFacts
    <2> QED
      BY <2>1, Zenon DEF Joins, fv
  <1>5. IsSeq(g, al + e) /\ IsSeq(g, d) /\ al + e \in Nat
    BY <1>1, <1>2, <1>4 DEF IsConcat, IsHead
  <1>6. d = al + e
    <2>1. Len(g) = d /\ Len(g) = al + e
      BY <1>2, <1>5, SeqFacts
    <2> QED
      BY <2>1
  <1>7. PICK x : IsSeq(x, nl - d) /\ nl - d \in Nat /\ IsConcat(fq, g, d, x, nl - d)
    BY <1>1, <1>2, <1>3, BeginsWith
  <1>8. a <= n
    <2>1. n < a => nl + l <= al
      <3> SUFFICES ASSUME n < a PROVE (n * l) + l <= a * l
        BY DEF nl, al
      <3> QED
        BY <1>1, Times
    <2> QED
      BY <1>1, <1>2, <1>3, <1>6, <2>1
  <1>9. ASSUME NEW c \in 1 .. a PROVE v[c] = q[c]
    <2> DEFINE b == c - 1
    <2>1. b \in Nat /\ b < a /\ b < n /\ b + 1 = c
      BY <1>8
    <2> HIDE DEF b
    <2> DEFINE bl == b * l
    <2>2. bl \in Nat /\ bl + l <= al
      BY <1>1, <2>1, Times DEF al
    <2>3. bl + l <= d
      <3> HIDE DEF bl
      <3> QED
        BY <1>1, <1>6, <2>2
    <2>4. Block(fv, b, l) = v[c]
      BY <1>1, <2>1 DEF IsFlat
    <2>5. Block(fq, b, l) = q[c]
      BY <1>1, <2>1 DEF IsFlat
    <2>6. Block(g, b, l) = Block(fv, b, l)
      BY <1>1, <1>4, <2>1, <2>2, BlockOfPrefix
    <2>7. Block(fq, b, l) = Block(g, b, l)
      BY <1>1, <1>5, <1>6, <1>7, <2>1, <2>3, BlockOfPrefix
    <2> QED
      BY <2>4, <2>5, <2>6, <2>7
  <1> QED
    BY <1>8, <1>9

\* The first cells make the first bytes.
LEMMA FirstCells ==
    ASSUME NEW a \in Nat, NEW n \in Nat, a <= n, NEW w, IsCells(w, n), NEW z, IsCells(z, a),
           \A c \in 1 .. a : z[c] = w[c], NEW r \in Nat, NEW b, IsSeq(b, r), NEW s, Joins(s, FlattenSeq(w), b)
    PROVE  Begins(FlattenSeq(z), s)
  <1> DEFINE l == CellSize
             y == FlattenSeq(z)
             fw == FlattenSeq(w)
  <1>1. IsSeq(z, a) /\ IsSeq(w, n) /\ IsHead(z, w, a)
    BY DEF IsCells, IsHead
  <1>2. PICK x : IsSeq(x, n - a) /\ n - a \in Nat /\ IsConcat(w, z, a, x, n - a)
    BY <1>1, BeginsWith
  <1>3. IsCells(x, n - a)
    <2>1. ASSUME NEW c \in 1 .. n - a PROVE IsSeq(x[c], l)
      <3>1. a + c \in 1 .. n /\ a + c \in 1 .. a + (n - a) /\ ~(a + c <= a) /\ (a + c) - a = c
        BY <1>2
      <3>2. w[a + c] = x[c]
        BY <1>2, <3>1 DEF IsConcat
      <3>3. IsSeq(w[a + c], l)
        BY <3>1 DEF IsCells
      <3> QED
        BY <3>2, <3>3
    <2> QED
      BY <1>2, <2>1 DEF IsCells
  <1> DEFINE fx == FlattenSeq(x)
             al == a * l
             xl == (n - a) * l
  <1>4. Joins(w, z, x)
    <2>1. IsConcat(z \o x, z, a, x, n - a)
      BY <1>1, <1>2, ConcatFacts
    <2> DEFINE zx == z \o x
    <2> HIDE DEF zx
    <2>2. w = zx
      <3>1. IsSeq(w, a + (n - a)) /\ IsSeq(zx, a + (n - a)) /\ a + (n - a) \in Nat
        BY <1>2, <2>1 DEF IsConcat, zx
      <3>2. \A c \in 1 .. a + (n - a) : w[c] = zx[c]
        BY <1>2, <2>1 DEF IsConcat, zx
      <3> QED
        BY <3>1, <3>2, SameSeq
    <2> QED
      BY <2>2 DEF Joins, zx
  <1>5. fw = y \o fx
    <2>1. Joins(FlattenSeq(w), FlattenSeq(z), FlattenSeq(x))
      BY <1>2, <1>3, <1>4, FlatConcat
    <2> QED
      BY <2>1 DEF Joins
  <1>6. al \in Nat /\ xl \in Nat /\ IsSeq(y, al) /\ IsSeq(fx, xl)
    BY <1>2, <1>3, FlatIsSeq
  <1> HIDE DEF y, fx, fw, al, xl
  <1>7. IsConcat(fw, y, al, fx, xl)
    <2>1. IsConcat(y \o fx, y, al, fx, xl)
      BY <1>6, ConcatFacts
    <2> QED
      BY <1>5, <2>1, Zenon
  <1>8. IsSeq(fw, al + xl) /\ al + xl \in Nat
    BY <1>6, <1>7 DEF IsConcat
  <1>9. IsConcat(s, fw, al + xl, b, r)
    <2>1. IsConcat(fw \o b, fw, al + xl, b, r)
      BY <1>8, ConcatFacts
    <2> QED
      BY <2>1, Zenon DEF Joins, fw
  <1>10. ASSUME NEW i \in 1 .. al PROVE y[i] = s[i]
    <2>1. i \in 1 .. al + xl /\ i <= al /\ i <= al + xl /\ i \in 1 .. (al + xl) + r
      BY <1>6, <1>8
    <2> QED
      BY <1>7, <1>9, <2>1 DEF IsConcat
  <1> DEFINE N == (al + xl) + r
  <1>11. N \in Nat /\ al <= N /\ IsSeq(s, N)
    BY <1>6, <1>8, <1>9 DEF IsConcat
  <1> HIDE DEF N
  <1>12. IsHead(y, s, al)
    BY <1>6, <1>10 DEF IsHead
  <1> QED
    BY <1>6, <1>11, <1>12 DEF Begins, y

\* What comes back of a beginning of what was enciphered is a beginning of it.
LEMMA CellsComeBack ==
    ASSUME NEW o, NEW u, NEW jv, NEW s, NEW kk, NEW g, NEW y, o.enc = TRUE, u.enc = FALSE, u.mode = o.mode,
           HasCells(o, jv, s, kk), HasCells(u, jv, g, y), Begins(g, kk)
    PROVE  Begins(y, s)
  <1>1. PICK w, q, n, r : InCells(o, jv, s, kk, w, q, n, r)
    BY DEF HasCells
  <1>2. PICK v, z, a, e : InCells(u, jv, g, y, v, z, a, e)
    BY DEF HasCells
  <1>3. /\ o.mode \in {"CBC", "ECB"} /\ n \in Nat /\ r \in Nat /\ IsSeq(o.buf, r) /\ IsCells(w, n) /\ IsCells(q, n)
        /\ Passed(o.mode, TRUE, jv, w, q, n) /\ Joins(s, FlattenSeq(w), o.buf) /\ kk = FlattenSeq(q)
    BY <1>1 DEF InCells, Passed, Joins
  <1>4. /\ a \in Nat /\ e \in Nat /\ e < CellSize /\ IsSeq(u.buf, e) /\ IsCells(v, a) /\ IsCells(z, a)
        /\ Passed(o.mode, FALSE, jv, v, z, a) /\ Joins(g, FlattenSeq(v), u.buf) /\ y = FlattenSeq(z)
    BY <1>2 DEF InCells, Passed, Joins
  <1>5. a <= n /\ \A c \in 1 .. a : v[c] = q[c]
    BY <1>3, <1>4, CellsOfBeginning
  <1>6. ASSUME NEW c \in 1 .. a PROVE z[c] = w[c]
    <2> DEFINE p == IF c = 1 THEN jv ELSE q[c - 1]
               b == IF c = 1 THEN jv ELSE v[c - 1]
    <2>1. b = p /\ v[c] = q[c] /\ c \in 1 .. n
      BY <1>3, <1>4, <1>5
    <2>2. q[c] = MadeOf(o.mode, TRUE, w[c], p)
      <3>1. q[c] = MadeOf(o.mode, TRUE, w[c], IF c = 1 THEN jv ELSE IF TRUE THEN q[c - 1] ELSE w[c - 1])
        BY <1>3, <2>1 DEF Passed
      <3>2. p = IF c = 1 THEN jv ELSE IF TRUE THEN q[c - 1] ELSE w[c - 1]
        OBVIOUS
      <3> QED
        BY <3>1, <3>2, Zenon
    <2>3. z[c] = MadeOf(o.mode, FALSE, v[c], b)
      <3>1. z[c] = MadeOf(o.mode, FALSE, v[c], IF c = 1 THEN jv ELSE IF FALSE THEN z[c - 1] ELSE v[c - 1])
        BY <1>4 DEF Passed
      <3>2. b = IF c = 1 THEN jv ELSE IF FALSE THEN z[c - 1] ELSE v[c - 1]
        OBVIOUS
      <3> QED
        BY <3>1, <3>2, Zenon
    <2>4. IsSeq(w[c], CellSize)
      BY <1>3, <2>1 DEF IsCells
    <2> HIDE DEF b, p
    <2>5. CASE o.mode = "ECB"
      <3>1. q[c] = Enc(w[c]) /\ z[c] = Dec(v[c])
        BY <2>2, <2>3, <2>5 DEF MadeOf
      <3> QED
        BY <2>1, <2>4, <3>1, DecEnc
    <2>6. CASE o.mode = "CBC"
      <3> DEFINE x == XorCell(w[c], p)
      <3>1. q[c] = Enc(x) /\ z[c] = XorCell(Dec(v[c]), b)
        BY <2>2, <2>3, <2>6 DEF MadeOf
      <3>2. IsSeq(x, CellSize)
        BY <2>4, CellAssumption, XorSeq
      <3>3. XorCell(x, p) = w[c]
        BY <2>4, CellAssumption, XorTwice
      <3> HIDE DEF x
      <3>4. Dec(v[c]) = x
        BY <2>1, <3>1, <3>2, DecEnc
      <3> QED
        BY <2>1, <3>1, <3>3, <3>4, Zenon
    <2> QED
      BY <1>3, <2>5, <2>6
  <1> QED
    BY <1>3, <1>4, <1>5, <1>6, FirstCells

LEMMA StreamComesBack ==
    ASSUME NEW o, NEW u, NEW x, NEW s, NEW kk, NEW g, NEW y, HasStream(o, x, s, kk), HasStream(u, x, g, y),
           Begins(g, kk)
    PROVE  Begins(y, s)
  <1>1. PICK n, p : InStream(o, x, s, kk, n, p)
    BY DEF HasStream
  <1>2. PICK d, e : InStream(u, x, g, y, d, e)
    BY DEF HasStream
  <1>3. /\ n \in Nat /\ IsSeq(s, n) /\ IsSeq(kk, n) /\ \A b \in 1 .. n : kk[b] = SymDiff(s[b], StreamByte(x, b))
        /\ d \in Nat /\ IsSeq(g, d) /\ IsSeq(y, d) /\ \A b \in 1 .. d : y[b] = SymDiff(g[b], StreamByte(x, b))
    BY <1>1, <1>2 DEF InStream
  <1>4. PICK c, m \in Nat : c <= m /\ IsSeq(kk, m) /\ IsHead(g, kk, c)
    BY DEF Begins
  <1>5. c = d /\ m = n /\ d <= n
    <2>1. IsSeq(g, c)
      BY <1>4 DEF IsHead
    <2>2. Len(g) = c /\ Len(g) = d /\ Len(kk) = m /\ Len(kk) = n
      BY <1>3, <1>4, <2>1, SeqFacts
    <2> QED
      BY <1>4, <2>2
  <1>6. ASSUME NEW b \in 1 .. d PROVE y[b] = s[b]
    <2>1. b \in 1 .. n
      BY <1>3, <1>5
    <2>2. g[b] = kk[b]
      BY <1>4, <1>5 DEF IsHead
    <2>3. kk[b] = SymDiff(s[b], StreamByte(x, b)) /\ y[b] = SymDiff(g[b], StreamByte(x, b))
      BY <1>3, <2>1
    <2>4. \A i, j : SymDiff(SymDiff(i, j), j) = i
      BY DEF SymDiff
    <2> QED
      BY <2>2, <2>3, <2>4, Zenon
  <1>7. IsHead(y, s, d)
    BY <1>3, <1>6 DEF IsHead
  <1> QED
    BY <1>3, <1>5, <1>7 DEF Begins

LEMMA ComesBack ==
    ASSUME NEW o, NEW u, NEW iv, NEW s, NEW kk, NEW g, NEW y, o.enc = TRUE, u.enc = FALSE, u.mode = o.mode,
           Made(o, iv, s, kk), Made(u, iv, g, y), Begins(g, kk)
    PROVE  IsPrefix(y, s)
  <1>1. Begins(y, s)
    <2> DEFINE x == Number(iv)
               jv == SubSeq(iv, 1, CellSize)
    <2>1. IF o.mode = "CTR" THEN HasStream(o, x, s, kk) /\ HasStream(u, x, g, y)
          ELSE HasCells(o, jv, s, kk) /\ HasCells(u, jv, g, y)
      BY DEF Made
    <2> HIDE DEF x, jv
    <2>2. CASE o.mode = "CTR"
      BY <2>1, <2>2, StreamComesBack
    <2>3. CASE o.mode # "CTR"
      BY <2>1, <2>3, CellsComeBack
    <2> QED
      BY <2>2, <2>3
  <1> QED
    BY <1>1, BeginsIsPrefix
-----------------------------------------------------------------------------
(* The thread that has the cipher *)

UsesCipher(t) == job[t].kind \in {"cipher", "call"}
CipherPhases == {"cipher", "call", "encipher", "decipher"}

\* The object when the text was enciphered.
Enciphered(t) ==
    \E o : o.enc = TRUE /\ o.mode = job[t].mode /\ Made(o, Iv(t), asked[t], k[t])

CipherOK(t) ==
    /\ pc[t] \in CipherPhases \cup {"done", "threw"}
    /\ pc[t] \in {"encipher", "decipher", "done"} =>
        cipher.mode = job[t].mode /\ IsVector(job[t].mode, Iv(t)) /\ Made(cipher, Iv(t), given, made)
    /\ pc[t] = "encipher" => cipher.enc = TRUE
    /\ pc[t] = "decipher" => cipher.enc = FALSE
    /\ pc[t] \in {"decipher", "done"} /\ cipher.enc = FALSE => Enciphered(t) /\ Begins(given, k[t])

CipherInv ==
    \A t \in Threads :
        /\ UsesCipher(t) => CipherOK(t)
        /\ pc[t] \in CipherPhases => UsesCipher(t)

LEMMA IvIs ==
    ASSUME job \in Jobs, NEW t \in Threads, UsesCipher(t), IvFits(job[t].mode, Iv(t))
    PROVE  job[t].mode \in Modes /\ IsVector(job[t].mode, Iv(t))
  <1>1. /\ job[t].mode \in Modes /\ job[t].ivLen \in Nat
        /\ job[t].mode = "CTR" => job[t].counter \in Seq(0 .. Radix - 1)
    BY JobsAssumption DEF UsesCipher
  <1>2. CASE job[t].mode = "CTR"
    <2> DEFINE c == job[t].counter
               n == Len(c)
    <2>1. Iv(t) = c
      BY <1>2 DEF Iv
    <2>2. c \in Seq(0 .. Radix - 1)
      BY <1>1, <1>2
    <2> HIDE DEF c
    <2>3. n \in Nat /\ IsSeq(c, n) /\ \A j \in 1 .. n : c[j] \in 0 .. Radix - 1
      <3>1. n \in Nat /\ DOMAIN c = 1 .. n /\ \A j \in 1 .. n : c[j] \in 0 .. Radix - 1
        BY <2>2, LenProperties, ElementOfSeq
      <3>2. c = [j \in DOMAIN c |-> c[j]]
        BY <2>2
      <3> QED
        BY <3>1, <3>2 DEF IsSeq
    <2>4. n >= CellSize
      BY <1>2, <2>1 DEF IvFits
    <2> HIDE DEF n
    <2>5. Number(c) \in Nat /\ Digits(Number(c)) = SubSeq(c, 1, CellSize)
      BY <2>3, <2>4, NumberFacts
    <2>6. \A j \in 1 .. CellSize : c[j] \in 0 .. Radix - 1
      <3>1. \A j \in 1 .. CellSize : j \in 1 .. n
        BY <2>3, <2>4, CellAssumption
      <3> QED
        BY <2>3, <3>1
    <2>7. \E i \in Nat : i >= CellSize /\ IsSeq(c, i)
      BY <2>3, <2>4
    <2> QED
      BY <1>1, <1>2, <2>1, <2>5, <2>6, <2>7 DEF IsVector
  <1>3. CASE job[t].mode # "CTR"
    <2>1. IsSeq(Iv(t), job[t].ivLen)
      BY <1>3 DEF Iv, IsSeq
    <2>2. Len(Iv(t)) = job[t].ivLen
      BY <1>1, <2>1, SeqFacts
    <2>3. job[t].mode # "ECB" => job[t].ivLen >= CellSize
      BY <2>2 DEF IvFits
    <2> QED
      BY <1>1, <1>3, <2>1, <2>3 DEF IsVector
  <1> QED
    BY <1>2, <1>3

\* Of the invariant, the property.
LEMMA CipherOKIsEnough ==
    ASSUME NEW t \in Threads, CipherOK(t), pc[t] \in {"encipher", "decipher", "done"}
    PROVE  /\ made = ByTheMode(cipher.mode, cipher.enc, Iv(t), given)
           /\ Len(given) - Len(made) = Len(cipher.buf) /\ Len(cipher.buf) < CellSize
           /\ ~cipher.enc => IsPrefix(made, asked[t])
  <1>1. cipher.mode = job[t].mode /\ IsVector(cipher.mode, Iv(t)) /\ Made(cipher, Iv(t), given, made)
    BY DEF CipherOK
  <1>2. /\ made = ByTheMode(cipher.mode, cipher.enc, Iv(t), given)
        /\ Len(given) - Len(made) = Len(cipher.buf) /\ Len(cipher.buf) < CellSize /\ IsCipher(cipher)
    BY <1>1, MadeIsTheModes
  <1>3. ASSUME ~cipher.enc PROVE IsPrefix(made, asked[t])
    <2>1. cipher.enc = FALSE
      BY <1>2, <1>3 DEF IsCipher
    <2>2. Enciphered(t) /\ Begins(given, k[t])
      BY <2>1 DEF CipherOK
    <2>3. PICK o : o.enc = TRUE /\ o.mode = job[t].mode /\ Made(o, Iv(t), asked[t], k[t])
      BY <2>2 DEF Enciphered
    <2> QED
      BY <1>1, <2>1, <2>2, <2>3, ComesBack
  <1> QED
    BY <1>2, <1>3

LEMMA NewCipherIs ==
    ASSUME NEW mode, NEW build
    PROVE  IsCipher(NewCipher(mode, build)) /\ NewCipher(mode, build).mode = mode
  BY DEF NewCipher, IsCipher

LEMMA IvStays ==
    ASSUME NEW t \in Threads, job' = job
    PROVE  Iv(t)' = Iv(t)
  BY DEF Iv

\* A thread that leaves the object alone, or goes only on to its end.
LEMMA CipherRests ==
    ASSUME NEW t \in Threads, CipherOK(t), job' = job, cipherVars' = cipherVars, asked'[t] = asked[t], k'[t] = k[t],
           pc'[t] \in {pc[t], "threw"} \/ (pc[t] = "decipher" /\ pc'[t] = "done")
    PROVE  CipherOK(t)'
  <1>1. Iv(t)' = Iv(t) /\ cipher' = cipher /\ given' = given /\ made' = made
    BY IvStays DEF cipherVars
  <1>2. Enciphered(t) => Enciphered(t)'
    BY <1>1 DEF Enciphered
  <1>3. pc'[t] = pc[t] \/ pc'[t] = "threw" \/ (pc[t] = "decipher" /\ pc'[t] = "done")
    OBVIOUS
  <1>4. CASE pc'[t] = pc[t]
    BY <1>1, <1>2, <1>4 DEF CipherOK
  <1>5. CASE pc'[t] = "threw"
    BY <1>5 DEF CipherOK
  <1>6. CASE pc[t] = "decipher" /\ pc'[t] = "done"
    BY <1>1, <1>2, <1>6 DEF CipherOK
  <1> QED
    BY <1>3, <1>4, <1>5, <1>6

\* While the text is enciphered.
LEMMA Enciphering ==
    ASSUME NEW t \in Threads, job' = job, IsVector(job[t].mode, Iv(t)), pc'[t] \in {"encipher", "done"},
           cipher'.mode = job[t].mode, cipher'.enc = TRUE, Made(cipher', Iv(t), given', made')
    PROVE  CipherOK(t)'
  <1>1. Iv(t)' = Iv(t)
    BY IvStays
  <1> QED
    BY <1>1 DEF CipherOK, CipherPhases

LEMMA SetUpKeeps ==
    ASSUME CryptoInv, NEW t \in Threads, UsesCipher(t), SetUpEnciphering(t)
    PROVE  CipherOK(t)'
  <1> DEFINE o == NewCipher(job[t].mode, job[t].build)
             iv == Iv(t)
  <1>1. /\ SetUp(o, TRUE, iv) /\ GoesTo(t, "encipher") /\ job' = job
    BY DEF SetUpEnciphering, CipherStep
  <1>2. IsCipher(o) /\ o.mode = job[t].mode
    BY NewCipherIs
  <1> HIDE DEF o, iv
  <1>3. IvFits(o.mode, iv) /\ cipher' = SetUpCipher(o, TRUE, iv) /\ given' = << >> /\ made' = << >>
    BY <1>1 DEF SetUp
  <1>4. job[t].mode \in Modes /\ IsVector(job[t].mode, iv)
    BY <1>2, <1>3, IvIs DEF CryptoInv, iv
  <1>5. /\ Made(SetUpCipher(o, TRUE, iv), iv, << >>, << >>)
        /\ SetUpCipher(o, TRUE, iv).mode = o.mode /\ SetUpCipher(o, TRUE, iv).enc = TRUE
    BY <1>2, <1>4, SetUpMade
  <1>6. pc'[t] = "encipher"
    BY <1>1, PhaseIs
  <1>7. cipher'.mode = job[t].mode /\ cipher'.enc = TRUE /\ Made(cipher', iv, given', made')
    BY <1>2, <1>3, <1>5
  <1> QED
    BY <1>1, <1>4, <1>6, <1>7, Enciphering DEF iv

LEMMA EncipheringKeeps ==
    ASSUME CryptoInv, NEW t \in Threads, UsesCipher(t), CipherOK(t), UpdateEnciphering(t)
    PROVE  CipherOK(t)'
  <1>1. /\ pc[t] = "encipher" /\ pc' = pc /\ job' = job /\ job \in Jobs
    BY DEF UpdateEnciphering, CipherStep, CryptoInv
  <1>2. PICK n \in job[t].lengths : GiveCipher(TextFrom(Len(given), n))
    BY DEF UpdateEnciphering
  <1> DEFINE b == TextFrom(Len(given), n)
             u == UpdatedCipher(cipher, b)
  <1>3. n \in Nat /\ IsSeq(b, n)
    <2>1. job[t].lengths \subseteq Nat
      BY <1>1, JobsAssumption DEF UsesCipher
    <2> QED
      BY <2>1 DEF TextFrom, IsSeq
  <1>4. cipher' = u.object /\ made' = made \o u.out /\ given' = given \o b
    BY <1>2 DEF GiveCipher
  <1> HIDE DEF b, u
  <1>5. cipher.mode = job[t].mode /\ IsVector(job[t].mode, Iv(t)) /\ Made(cipher, Iv(t), given, made) /\ cipher.enc = TRUE
    BY <1>1 DEF CipherOK
  <1>6. Made(u.object, Iv(t), given \o b, made \o u.out) /\ u.object.mode = cipher.mode /\ u.object.enc = cipher.enc
    BY <1>3, <1>5, UpdateMade DEF u
  <1>7. cipher'.mode = job[t].mode /\ cipher'.enc = TRUE /\ Made(cipher', Iv(t), given', made')
    BY <1>4, <1>5, <1>6
  <1>8. pc'[t] = "encipher"
    BY <1>1
  <1> QED
    BY <1>1, <1>5, <1>7, <1>8, Enciphering

LEMMA SetUpDecipheringKeeps ==
    ASSUME CryptoInv, NEW t \in Threads, UsesCipher(t), CipherOK(t), SetUpDeciphering(t)
    PROVE  CipherOK(t)'
  <1> DEFINE iv == Iv(t)
  <1>1. /\ pc[t] = "encipher" /\ SetUp(cipher, FALSE, iv) /\ GoesTo(t, "decipher") /\ job' = job
        /\ asked' = [asked EXCEPT ![t] = given] /\ k' = [k EXCEPT ![t] = made]
    BY DEF SetUpDeciphering, CipherStep
  <1> HIDE DEF iv
  <1>2. cipher' = SetUpCipher(cipher, FALSE, iv) /\ given' = << >> /\ made' = << >>
    BY <1>1 DEF SetUp
  <1>3. /\ cipher.mode = job[t].mode /\ IsVector(job[t].mode, iv) /\ Made(cipher, iv, given, made)
        /\ cipher.enc = TRUE /\ cipher.mode \in Modes
    BY <1>1 DEF CipherOK, Made, iv
  <1>4. IsCipher(cipher) /\ \E n, m \in Nat : IsSeq(given, n) /\ IsSeq(made, m)
    BY <1>3, MadeIsTheModes
  <1>5. /\ Made(SetUpCipher(cipher, FALSE, iv), iv, << >>, << >>)
        /\ SetUpCipher(cipher, FALSE, iv).mode = cipher.mode /\ SetUpCipher(cipher, FALSE, iv).enc = FALSE
    BY <1>3, <1>4, SetUpMade
  <1>6. asked'[t] = given /\ k'[t] = made
    BY <1>1 DEF CryptoInv, States, Functional
  <1>7. pc'[t] = "decipher"
    BY <1>1, PhaseIs
  <1>8. Iv(t)' = iv
    BY <1>1, IvStays DEF iv
  <1>9. Enciphered(t)'
    BY <1>1, <1>3, <1>6, <1>8 DEF Enciphered
  <1>10. Begins(given', k'[t])
    <2>1. PICK m \in Nat : IsSeq(made, m)
      BY <1>4
    <2>2. IsHead(<< >>, made, 0)
      BY EmptyIs DEF IsHead
    <2> QED
      BY <1>2, <1>6, <2>1, <2>2 DEF Begins
  <1>11. cipher'.mode = job[t].mode /\ cipher'.enc = FALSE /\ Made(cipher', iv, given', made')
    BY <1>2, <1>3, <1>5
  <1> QED
    BY <1>1, <1>3, <1>7, <1>8, <1>9, <1>10, <1>11 DEF CipherOK, CipherPhases

\* The next n bytes of s.
LEMMA BeginsOn ==
    ASSUME NEW g, NEW s, Begins(g, s), NEW rest, rest = SubSeq(s, Len(g) + 1, Len(s)), NEW n \in 1 .. Len(rest)
    PROVE  IsSeq(SubSeq(rest, 1, n), n) /\ Begins(g \o SubSeq(rest, 1, n), s)
  <1>1. PICK d, m \in Nat : d <= m /\ IsSeq(s, m) /\ IsHead(g, s, d)
    BY DEF Begins
  <1>2. IsSeq(g, d) /\ \A a \in 1 .. d : g[a] = s[a]
    BY <1>1 DEF IsHead
  <1>3. Len(g) = d /\ Len(s) = m
    BY <1>1, <1>2, SeqFacts
  <1> DEFINE e == m - d
             r == SubSeq(s, d + 1, d + e)
  <1>4. e \in Nat /\ d + e = m
    BY <1>1
  <1>5. IsSeq(r, e) /\ \A a \in 1 .. e : r[a] = s[d + a]
    <2> HIDE DEF e
    <2> QED
      BY <1>1, <1>4, SubSeqFacts
  <1>6. rest = r
    BY <1>3, <1>4
  <1> HIDE DEF e, r
  <1>7. Len(r) = e
    BY <1>4, <1>5, SeqFacts
  <1>8. n \in Nat /\ n <= e
    BY <1>4, <1>6, <1>7
  <1> DEFINE h == SubSeq(r, 1, n)
  <1>9. IsHead(h, r, n)
    BY <1>4, <1>5, <1>8, HeadFacts
  <1> HIDE DEF h
  <1>10. IsSeq(h, n) /\ \A a \in 1 .. n : h[a] = s[d + a]
    <2>1. \A a \in 1 .. n : a \in 1 .. e
      BY <1>4, <1>8
    <2> QED
      BY <1>5, <1>9, <2>1 DEF IsHead
  <1> DEFINE gh == g \o h
  <1>11. IsConcat(gh, g, d, h, n)
    BY <1>1, <1>2, <1>8, <1>10, ConcatFacts
  <1> HIDE DEF gh
  <1>12. ASSUME NEW a \in 1 .. d + n PROVE gh[a] = s[a]
    <2>1. CASE a <= d
      BY <1>1, <1>2, <1>11, <2>1 DEF IsConcat
    <2>2. CASE ~(a <= d)
      <3>1. a - d \in 1 .. n /\ d + (a - d) = a
        BY <1>1, <1>8, <2>2
      <3>2. gh[a] = h[a - d]
        BY <1>11, <2>2 DEF IsConcat
      <3>3. h[a - d] = s[d + (a - d)]
        BY <1>10, <3>1
      <3> QED
        BY <3>1, <3>2, <3>3
    <2> QED
      BY <2>1, <2>2
  <1>13. IsHead(gh, s, d + n) /\ d + n \in Nat /\ d + n <= m
    BY <1>1, <1>4, <1>8, <1>11, <1>12 DEF IsHead, IsConcat
  <1>14. Begins(gh, s)
    BY <1>1, <1>13 DEF Begins
  <1> QED
    BY <1>6, <1>10, <1>14 DEF gh, h

LEMMA DecipheringKeeps ==
    ASSUME CryptoInv, NEW t \in Threads, UsesCipher(t), CipherOK(t), UpdateDeciphering(t)
    PROVE  CipherOK(t)'
  <1> DEFINE iv == Iv(t)
             rest == SubSeq(k[t], Len(given) + 1, Len(k[t]))
  <1>1. /\ pc[t] = "decipher" /\ job' = job /\ pc' = pc /\ asked' = asked /\ k' = k
    BY DEF UpdateDeciphering, CipherStep
  <1>2. PICK n \in 1 .. Len(rest) : GiveCipher(SubSeq(rest, 1, n))
    BY DEF UpdateDeciphering
  <1> DEFINE b == SubSeq(rest, 1, n)
             u == UpdatedCipher(cipher, b)
  <1>3. cipher' = u.object /\ made' = made \o u.out /\ given' = given \o b
    BY <1>2 DEF GiveCipher
  <1>4. /\ cipher.mode = job[t].mode /\ IsVector(job[t].mode, iv) /\ Made(cipher, iv, given, made)
        /\ cipher.enc = FALSE /\ Enciphered(t) /\ Begins(given, k[t])
    BY <1>1 DEF CipherOK
  <1>5. IsSeq(b, n) /\ Begins(given \o b, k[t])
    <2>1. rest = SubSeq(k[t], Len(given) + 1, Len(k[t])) /\ n \in 1 .. Len(rest)
      OBVIOUS
    <2>2. Begins(given, k[t])
      BY <1>4
    <2> HIDE DEF rest
    <2> QED
      BY <2>1, <2>2, BeginsOn
  <1>6. n \in Nat
    BY <1>2
  <1> HIDE DEF b, u, iv
  <1>7. Made(u.object, iv, given \o b, made \o u.out) /\ u.object.mode = cipher.mode /\ u.object.enc = cipher.enc
    BY <1>4, <1>5, <1>6, UpdateMade DEF u
  <1>8. Iv(t)' = iv
    BY <1>1, IvStays DEF iv
  <1>9. Enciphered(t)'
    BY <1>1, <1>4, <1>8 DEF Enciphered, iv
  <1>10. /\ cipher'.mode = job[t].mode /\ cipher'.enc = FALSE /\ Made(cipher', iv, given', made')
         /\ Begins(given', k'[t])
    BY <1>1, <1>3, <1>4, <1>5, <1>7
  <1> QED
    BY <1>1, <1>4, <1>8, <1>9, <1>10 DEF CipherOK, CipherPhases

\* Two calls of update, of which the second one may be left out.
LEMMA CallMakes ==
    ASSUME NEW o, NEW iv, Made(o, iv, << >>, << >>), NEW m \in Nat, NEW b, IsSeq(b, m),
           NEW n \in Nat, NEW c, IsSeq(c, n), NEW u, u = UpdatedCipher(o, b), NEW v, v = UpdatedCipher(u.object, c)
    PROVE  /\ Made(u.object, iv, b \o << >>, u.out \o << >>) /\ u.object.mode = o.mode /\ u.object.enc = o.enc
           /\ Made(v.object, iv, b \o c, u.out \o v.out) /\ v.object.mode = o.mode /\ v.object.enc = o.enc
  <1> DEFINE g1 == << >> \o b
             y1 == << >> \o u.out
             b0 == b \o << >>
             u0 == u.out \o << >>
  <1>1. Made(u.object, iv, g1, y1) /\ u.object.mode = o.mode /\ u.object.enc = o.enc /\ HasLength(u.out)
    <2>1. /\ Made(UpdatedCipher(o, b).object, iv, << >> \o b, << >> \o UpdatedCipher(o, b).out)
          /\ UpdatedCipher(o, b).object.mode = o.mode /\ UpdatedCipher(o, b).object.enc = o.enc
          /\ HasLength(UpdatedCipher(o, b).out)
      BY UpdateMade
    <2> QED
      BY <2>1, Zenon
  <1>2. g1 = b /\ b0 = b
    BY ConcatEmpty
  <1>3. y1 = u.out /\ u0 = u.out
    BY <1>1, ConcatEmpty DEF HasLength
  <1> HIDE DEF g1, y1, b0, u0
  <1>4. Made(u.object, iv, b, u.out) /\ Made(u.object, iv, b0, u0)
    BY <1>1, <1>2, <1>3
  <1> DEFINE w == u.object
  <1> HIDE DEF w
  <1>5. Made(w, iv, b, u.out) /\ v = UpdatedCipher(w, c)
    BY <1>4 DEF w
  <1>6. Made(v.object, iv, b \o c, u.out \o v.out) /\ v.object.mode = w.mode /\ v.object.enc = w.enc
    BY <1>5, UpdateMade
  <1> QED
    BY <1>1, <1>4, <1>6 DEF w, b0, u0

LEMMA CallKeeps ==
    ASSUME CryptoInv, NEW t \in Threads, UsesCipher(t), CallCipher(t)
    PROVE  CipherOK(t)'
  <1> DEFINE o == NewCipher(job[t].mode, job[t].build)
             iv == Iv(t)
             ready == SetUpCipher(o, TRUE, iv)
  <1>1. /\ IvFits(job[t].mode, iv) /\ GoesTo(t, "done") /\ job' = job /\ job \in Jobs
    BY DEF CallCipher, CipherStep, CryptoInv
  <1>2. PICK n \in job[t].lengths :
            LET text == TextFrom(0, n)
                whole == SubSeq(text, 1, (n \div CellSize) * CellSize)
                last == [b \in 1 .. CellSize |-> IF Len(whole) + b <= n THEN text[Len(whole) + b] ELSE {}]
                more == n % CellSize # 0
                first == UpdatedCipher(ready, whole)
                second == UpdatedCipher(first.object, last)
            IN  /\ cipher' = IF more THEN second.object ELSE first.object
                /\ made' = first.out \o (IF more THEN second.out ELSE << >>)
                /\ given' = whole \o (IF more THEN last ELSE << >>)
    BY DEF CallCipher
  <1> DEFINE text == TextFrom(0, n)
             m == (n \div CellSize) * CellSize
             whole == SubSeq(text, 1, m)
             last == [b \in 1 .. CellSize |-> IF Len(whole) + b <= n THEN text[Len(whole) + b] ELSE {}]
             more == n % CellSize # 0
             first == UpdatedCipher(ready, whole)
             second == UpdatedCipher(first.object, last)
  <1>3. /\ cipher' = IF more THEN second.object ELSE first.object
        /\ made' = first.out \o (IF more THEN second.out ELSE << >>)
        /\ given' = whole \o (IF more THEN last ELSE << >>)
    BY <1>2
  <1>4. CellSize \in Nat /\ CellSize > 0
    BY CellAssumption
  <1>5. n \in Nat /\ IsSeq(text, n)
    <2>1. job[t].lengths \subseteq Nat
      BY <1>1, JobsAssumption DEF UsesCipher
    <2> QED
      BY <2>1 DEF TextFrom, IsSeq
  <1>6. m \in Nat /\ m <= n
    <2> DEFINE r == n % CellSize
    <2>1. n \div CellSize \in Nat /\ r \in Nat /\ n = m + r
      BY <1>4, <1>5, DivMod
    <2>2. m \in Nat
      BY <1>4, <2>1, Times
    <2> HIDE DEF m, r
    <2> QED
      BY <2>1, <2>2
  <1> HIDE DEF m, text
  <1>7. IsSeq(whole, m)
    BY <1>5, <1>6, HeadFacts DEF IsHead
  <1> HIDE DEF whole
  <1>8. IsSeq(last, CellSize)
    BY DEF IsSeq
  <1>9. IsCipher(o) /\ o.mode = job[t].mode
    BY NewCipherIs
  <1> HIDE DEF o
  <1>10. o.mode \in Modes /\ IsVector(o.mode, iv)
    BY <1>1, <1>9, IvIs
  <1> HIDE DEF iv, last, more
  <1>11. Made(ready, iv, << >>, << >>) /\ ready.mode = o.mode /\ ready.enc = TRUE
    BY <1>9, <1>10, SetUpMade
  <1> HIDE DEF ready
  <1>12. first = UpdatedCipher(ready, whole) /\ second = UpdatedCipher(first.object, last)
    OBVIOUS
  <1> HIDE DEF first, second
  <1>13. /\ Made(first.object, iv, whole \o << >>, first.out \o << >>)
         /\ first.object.mode = ready.mode /\ first.object.enc = ready.enc
         /\ Made(second.object, iv, whole \o last, first.out \o second.out)
         /\ second.object.mode = ready.mode /\ second.object.enc = ready.enc
    BY <1>4, <1>6, <1>7, <1>11, <1>12, <1>8, CallMakes
  <1>14. cipher'.mode = job[t].mode /\ cipher'.enc = TRUE /\ Made(cipher', iv, given', made')
    <2>1. CASE more
      <3>1. cipher' = second.object /\ made' = first.out \o second.out /\ given' = whole \o last
        BY <1>3, <2>1, Zenon
      <3> QED
        BY <1>9, <1>11, <1>13, <3>1, Zenon
    <2>2. CASE ~more
      <3>1. cipher' = first.object /\ made' = first.out \o << >> /\ given' = whole \o << >>
        BY <1>3, <2>2, Zenon
      <3> QED
        BY <1>9, <1>11, <1>13, <3>1, Zenon
    <2> QED
      BY <2>1, <2>2
  <1>15. pc'[t] = "done"
    BY <1>1, PhaseIs
  <1> QED
    BY <1>1, <1>9, <1>10, <1>14, <1>15, Enciphering DEF iv
-----------------------------------------------------------------------------
(* The threads *)

\* A step of another thread.
LEMMA OthersLeaveCipher ==
    ASSUME CryptoInv, NEW u \in Threads, Step(u)
    PROVE  /\ cipherVars' = cipherVars \/ pc[u] \in CipherPhases
           /\ \A t \in Threads : t # u => asked'[t] = asked[t] /\ k'[t] = k[t]
  <1>1. States
    BY DEF CryptoInv
  <1> DEFINE Others == \A t \in Threads : t # u => asked'[t] = asked[t] /\ k'[t] = k[t]
  <1>2. ASSUME \/ \E g : asked' = [asked EXCEPT ![u] = g]
               \/ asked' = asked,
               \/ \E d : k' = [k EXCEPT ![u] = d]
               \/ k' = k
        PROVE  Others
    <2>1. \A t \in Threads : t # u => asked'[t] = asked[t]
      BY <1>1, <1>2 DEF States, Functional
    <2>2. \A t \in Threads : t # u => k'[t] = k[t]
      BY <1>1, <1>2 DEF States, Functional
    <2> QED
      BY <2>1, <2>2
  <1> HIDE DEF Others
  <1>3. CASE \/ SetUpEnciphering(u) \/ SetUpFails(u) \/ UpdateEnciphering(u) \/ UpdateFails(u)
             \/ SetUpDeciphering(u) \/ UpdateDeciphering(u) \/ FinalizeCipher(u) \/ CallCipher(u)
    <2>1. pc[u] \in CipherPhases
      BY <1>3
         DEF SetUpEnciphering, SetUpFails, UpdateEnciphering, UpdateFails, SetUpDeciphering, UpdateDeciphering,
             FinalizeCipher, CallCipher, CipherPhases
    <2>2. \/ \E g, d : asked' = [asked EXCEPT ![u] = g] /\ k' = [k EXCEPT ![u] = d]
          \/ asked' = asked /\ k' = k
      BY <1>3
         DEF SetUpEnciphering, SetUpFails, UpdateEnciphering, UpdateFails, CipherThrows,
             SetUpDeciphering, UpdateDeciphering, FinalizeCipher, CallCipher
    <2> QED
      BY <1>2, <2>1, <2>2 DEF Others
  <1>4. CASE SetUpKey(u)
    BY <1>2, <1>4 DEF SetUpKey, Others
  <1>5. CASE UpdateStream(u)
    BY <1>2, <1>5 DEF UpdateStream, Feed, Asks, Others
  <1>6. CASE TakeKey(u) \/ ReturnHash(u) \/ Create(u)
    BY <1>2, <1>6 DEF TakeKey, ReturnHash, Create, Others
  <1>7. CASE \/ DigestStream(u) \/ DigestAgain(u) \/ DigestVector(u) \/ HashKey(u)
             \/ Inner(u) \/ Outer(u) \/ FirstHash(u) \/ Iterate(u)
    <2>1. \E o, b : TakeDigest(u, o, b)
      BY <1>7 DEF DigestStream, DigestAgain, DigestVector, HashKey, Inner, Outer, FirstHash, Iterate
    <2>2. cipherVars' = cipherVars
      BY <2>1 DEF TakeDigest
    <2>3. \E g : asked' = [asked EXCEPT ![u] = g]
      BY <1>7 DEF DigestStream, DigestAgain, DigestVector, HashKey, Inner, Outer, FirstHash, Iterate, Asks
    <2>4. \/ \E d : k' = [k EXCEPT ![u] = d]
          \/ k' = k
      BY <1>7 DEF DigestStream, DigestAgain, DigestVector, HashKey, Inner, Outer, FirstHash, Iterate
    <2> QED
      BY <1>2, <2>2, <2>3, <2>4 DEF Others
  <1>8. CASE CustomRead(u)
    BY <1>2, <1>8 DEF CustomRead, Others
  <1>9. CASE CustomRounds(u)
    BY <1>2, <1>9 DEF CustomRounds, threadVars, Others
  <1>10. CASE CustomChain(u)
    BY <1>2, <1>10 DEF CustomChain, Asks, Others
  <1> QED
    BY <1>3, <1>4, <1>5, <1>6, <1>7, <1>8, <1>9, <1>10 DEF Step, Others

\* A thread without the cipher never comes to its phases.
LEMMA StaysWithout ==
    ASSUME CryptoInv, NEW u \in Threads, pc[u] \notin CipherPhases, Step(u)
    PROVE  pc'[u] \notin CipherPhases
  <1>1. \/ SetUpKey(u) \/ Create(u) \/ UpdateStream(u) \/ DigestStream(u) \/ DigestAgain(u) \/ DigestVector(u)
        \/ HashKey(u) \/ TakeKey(u) \/ Inner(u) \/ Outer(u)
        \/ FirstHash(u) \/ Iterate(u) \/ CustomRead(u) \/ CustomRounds(u) \/ CustomChain(u) \/ ReturnHash(u)
    BY DEF Step, CipherPhases, SetUpEnciphering, SetUpFails, UpdateEnciphering, UpdateFails, SetUpDeciphering,
           UpdateDeciphering, FinalizeCipher, CallCipher
  <1>2. ASSUME pc' = pc \/ \E p : GoesTo(u, p) /\ p \notin CipherPhases
        PROVE  pc'[u] \notin CipherPhases
    <2>1. CASE pc' = pc
      BY <2>1
    <2>2. ASSUME NEW p, GoesTo(u, p), p \notin CipherPhases PROVE pc'[u] \notin CipherPhases
      BY <2>2, PhaseIs
    <2> QED
      BY <1>2, <2>1, <2>2
  <1>3. CASE SetUpKey(u)
    <2>1. \E p : GoesTo(u, p) /\ p \in {"expanded", "threw"}
      BY <1>3 DEF SetUpKey
    <2> QED
      BY <1>2, <2>1 DEF CipherPhases
  <1>4. CASE Create(u)
    <2>1. pc' = [pc EXCEPT ![u] = IF apc'[u] = "idle" THEN "threw" ELSE @]
      BY <1>4 DEF Create
    <2>2. pc'[u] = "threw" \/ pc'[u] = pc[u]
      BY <2>1 DEF CryptoInv, States, Functional
    <2> QED
      BY <2>2 DEF CipherPhases
  <1>5. CASE UpdateStream(u) \/ Iterate(u) \/ CustomRounds(u) \/ CustomChain(u)
    <2>1. pc' = pc
      BY <1>5 DEF UpdateStream, Iterate, CustomRounds, CustomChain, threadVars
    <2> QED
      BY <1>2, <2>1
  <1>6. CASE \/ DigestStream(u) \/ DigestAgain(u) \/ DigestVector(u) \/ HashKey(u) \/ TakeKey(u) \/ Inner(u)
             \/ Outer(u) \/ FirstHash(u) \/ CustomRead(u) \/ ReturnHash(u)
    <2>1. \E p : GoesTo(u, p) /\ p \in {"again", "done", "inner", "outer", "read", "iterate", "spin"}
      BY <1>6 DEF DigestStream, DigestAgain, DigestVector, HashKey, TakeKey, Inner, Outer, FirstHash, CustomRead,
                  ReturnHash
    <2> QED
      BY <1>2, <2>1 DEF CipherPhases
  <1> QED
    BY <1>1, <1>3, <1>4, <1>5, <1>6

\* The steps of the thread itself.
LEMMA OwnCipherStep ==
    ASSUME CryptoInv, NEW t \in Threads, UsesCipher(t), CipherOK(t), Step(t)
    PROVE  CipherOK(t)'
  <1>1. States /\ job' = job
    BY StepLeaves DEF CryptoInv
  <1>2. pc[t] \in CipherPhases \cup {"done", "threw"}
    BY DEF CipherOK
  <1>3. \/ SetUpEnciphering(t) \/ SetUpFails(t) \/ UpdateEnciphering(t) \/ UpdateFails(t)
        \/ SetUpDeciphering(t) \/ UpdateDeciphering(t) \/ FinalizeCipher(t) \/ CallCipher(t) \/ Create(t)
    BY <1>2
       DEF Step, CipherPhases, SetUpKey, UpdateStream, DigestStream, DigestAgain, DigestVector, HashKey, TakeKey,
           Inner, Outer, FirstHash, Iterate, CustomRead, CustomRounds, CustomChain, ReturnHash, SpunEnough
  <1>4. CASE SetUpFails(t) \/ UpdateFails(t)
    <2>1. GoesTo(t, "threw") /\ cipherVars' = cipherVars /\ asked' = asked /\ k' = k
      BY <1>4 DEF SetUpFails, UpdateFails, CipherThrows
    <2>2. pc'[t] = "threw"
      BY <2>1, PhaseIs
    <2> QED
      BY <1>1, <2>1, <2>2, CipherRests
  <1>5. CASE FinalizeCipher(t)
    <2>1. /\ GoesTo(t, IF FinalizeFails(cipher) THEN "threw" ELSE "done") /\ pc[t] = "decipher"
          /\ cipherVars' = cipherVars /\ asked' = asked /\ k' = k
      BY <1>5 DEF FinalizeCipher
    <2>2. pc'[t] = IF FinalizeFails(cipher) THEN "threw" ELSE "done"
      BY <2>1, PhaseIs
    <2> QED
      BY <1>1, <2>1, <2>2, CipherRests
  <1>6. CASE Create(t)
    <2>1. /\ cipherVars' = cipherVars /\ asked' = asked /\ k' = k
          /\ pc' = [pc EXCEPT ![t] = IF apc'[t] = "idle" THEN "threw" ELSE @]
      BY <1>6 DEF Create
    <2>2. pc'[t] = "threw" \/ pc'[t] = pc[t]
      BY <1>1, <2>1 DEF States, Functional
    <2> QED
      BY <1>1, <2>1, <2>2, CipherRests
  <1> QED
    BY <1>3, <1>4, <1>5, <1>6, SetUpKeeps, EncipheringKeeps, SetUpDecipheringKeeps, DecipheringKeeps, CallKeeps

LEMMA CipherInvInit == Init => CipherInv
  <1> SUFFICES ASSUME Init PROVE CipherInv
    OBVIOUS
  <1>1. pc = [t \in Threads |-> job[t].kind]
    BY DEF Init
  <1>2. ASSUME NEW t \in Threads, UsesCipher(t) PROVE CipherOK(t)
    BY <1>1, <1>2 DEF UsesCipher, CipherOK, CipherPhases
  <1>3. ASSUME NEW t \in Threads, pc[t] \in CipherPhases, job \in Jobs PROVE UsesCipher(t)
    <2>1. job[t].kind \in {"stream", "vector", "hmac", "password", "custom", "keys", "cipher", "call", "done"}
      BY <1>3, JobsAssumption
    <2> QED
      BY <1>1, <1>3, <2>1 DEF UsesCipher, CipherPhases
  <1> QED
    BY <1>2, <1>3 DEF CipherInv, Init

LEMMA CipherInvNext == CryptoInv /\ CipherInv /\ [Next]_vars => CipherInv'
  <1> SUFFICES ASSUME CryptoInv, CipherInv, [Next]_vars PROVE CipherInv'
    OBVIOUS
  <1>1. CASE UNCHANGED vars
    <2>1. job' = job /\ pc' = pc /\ asked' = asked /\ k' = k /\ cipherVars' = cipherVars
      BY <1>1 DEF vars, threadVars
    <2>2. ASSUME NEW t \in Threads
          PROVE  (UsesCipher(t)' => CipherOK(t)') /\ (pc'[t] \in CipherPhases => UsesCipher(t)')
      <3>1. UsesCipher(t)' = UsesCipher(t)
        BY <2>1 DEF UsesCipher
      <3>2. UsesCipher(t) => CipherOK(t)'
        BY <2>1, CipherRests DEF CipherInv
      <3> QED
        BY <2>1, <3>1, <3>2 DEF CipherInv
    <2> QED
      BY <2>2 DEF CipherInv
  <1>2. ASSUME NEW u \in Threads, Step(u) PROVE CipherInv'
    <2>1. /\ job' = job /\ job \in Jobs
          /\ \A t \in Threads : t # u => pc'[t] = pc[t]
      BY <1>2, StepLeaves DEF CryptoInv
    <2>2. /\ cipherVars' = cipherVars \/ pc[u] \in CipherPhases
          /\ \A t \in Threads : t # u => asked'[t] = asked[t] /\ k'[t] = k[t]
      BY <1>2, OthersLeaveCipher
    <2>3. ASSUME NEW t \in Threads
          PROVE  (UsesCipher(t)' => CipherOK(t)') /\ (pc'[t] \in CipherPhases => UsesCipher(t)')
      <3>1. UsesCipher(t)' = UsesCipher(t)
        BY <2>1 DEF UsesCipher
      <3>2. (UsesCipher(t) => CipherOK(t)) /\ (pc[t] \in CipherPhases => UsesCipher(t))
        BY DEF CipherInv
      <3>3. CASE t = u
        BY <1>2, <3>1, <3>2, <3>3, OwnCipherStep, StaysWithout
      <3>4. CASE t # u
        <4>1. ASSUME UsesCipher(t) PROVE CipherOK(t)'
          <5>1. pc[u] \notin CipherPhases
            <6>1. pc[u] \in CipherPhases => UsesCipher(u)
              BY DEF CipherInv
            <6>2. ~UsesCipher(u)
              BY <2>1, <3>4, <4>1, OneCipherAssumption DEF UsesCipher
            <6> QED
              BY <6>1, <6>2
          <5> QED
            BY <2>1, <2>2, <3>2, <3>4, <4>1, <5>1, CipherRests
        <4> QED
          BY <2>1, <3>1, <3>2, <3>4, <4>1
      <3> QED
        BY <3>3, <3>4
    <2> QED
      BY <2>3 DEF CipherInv
  <1> QED
    BY <1>1, <1>2 DEF Next, AllDone

\* However a text is cut into pieces for update, whatever an earlier use left
\* in the object, in every mode and for every length of a text: what came out so
\* far is what NIST SP 800-38A asks for, nothing is lost but an open cell at the
\* end, and what is deciphered is the text (Cipher of cybozu/aes.hpp, setup,
\* update, updateCtr and finalize; cipher of crypto_util.hpp).
THEOREM CiphersAreTheirModes == Spec => []CipherIsItsMode
  <1>1. Init => CryptoInv /\ CipherInv
    BY CryptoInvInit, CipherInvInit
  <1>2. CryptoInv /\ CipherInv /\ [Next]_vars => CryptoInv' /\ CipherInv'
    BY CryptoInvNext, CipherInvNext
  <1>3. CryptoInv /\ CipherInv => CipherIsItsMode
    <2> SUFFICES ASSUME CipherInv, NEW t \in Threads, job[t].kind \in {"cipher", "call"},
                        pc[t] \in {"encipher", "decipher", "done"}
                 PROVE  /\ made = ByTheMode(cipher.mode, cipher.enc, Iv(t), given)
                        /\ Len(given) - Len(made) = Len(cipher.buf) /\ Len(cipher.buf) < CellSize
                        /\ ~cipher.enc => IsPrefix(made, asked[t])
      BY DEF CipherIsItsMode
    <2>1. CipherOK(t)
      BY DEF CipherInv, UsesCipher
    <2> QED
      BY <2>1, CipherOKIsEnough
  <1> QED
    BY <1>1, <1>2, <1>3, PTL DEF Spec
-----------------------------------------------------------------------------
(* The round keys of AES *)

\* The reference's words: the recursion of FipsWords up to the m-th.
TempWord(size, w, i) ==
    CASE i % (size \div 4) = 0                            -> RotSub(w[i - 1], FipsRcon[i \div (size \div 4)])
      [] (size \div 4) > 6 /\ i % (size \div 4) = 4 -> Sub(w[i - 1])
      [] OTHER                                            -> w[i - 1]
IsWords(w, size, m) ==
    w = [i \in 0 .. m |->
            IF i < size \div 4 THEN KeyWord(i) ELSE SymDiff(w[i - (size \div 4)], TempWord(size, w, i))]

LEMMA WordsExist ==
    ASSUME NEW size \in KeySizes, NEW m \in Nat
    PROVE  \E w : IsWords(w, size, m)
  <1> DEFINE nk == size \div 4
             S == {i \in Nat : \E w : IsWords(w, size, i)}
             F(w, i) == IF i < nk THEN KeyWord(i) ELSE SymDiff(w[i - nk], TempWord(size, w, i))
  <1>1. nk \in {4, 6, 8}
    BY DEF KeySizes
  <1>2. 0 \in S
    <2> DEFINE w == [i \in 0 .. 0 |-> KeyWord(i)]
               z == [i \in 0 .. 0 |-> F(w, i)]
    <2>1. w = z
      BY <1>1
    <2> HIDE DEF w
    <2>2. IsWords(w, size, 0)
      BY <2>1 DEF IsWords
    <2> QED
      BY <2>2
  <1>3. ASSUME NEW i \in Nat, i \in S PROVE i + 1 \in S
    <2>1. PICK w : IsWords(w, size, i)
      BY <1>3
    <2> DEFINE y == [a \in 0 .. i + 1 |-> IF a = i + 1 THEN F(w, a) ELSE w[a]]
               z == [a \in 0 .. i + 1 |-> F(y, a)]
    <2>2. ASSUME NEW a \in 0 .. i + 1 PROVE y[a] = F(y, a)
      <3>1. y[a] = F(w, a)
        <4>1. CASE a = i + 1
          BY <4>1
        <4>2. CASE a # i + 1
          <5>1. a \in 0 .. i /\ y[a] = w[a]
            BY <4>2
          <5> HIDE DEF y, z
          <5> QED
            BY <2>1, <5>1 DEF IsWords
        <4> QED
          BY <4>1, <4>2
      <3>2. a >= nk => y[a - 1] = w[a - 1] /\ y[a - nk] = w[a - nk]
        <4> SUFFICES ASSUME a >= nk PROVE y[a - 1] = w[a - 1] /\ y[a - nk] = w[a - nk]
          OBVIOUS
        <4> HIDE DEF nk
        <4>1. a - 1 \in 0 .. i + 1 /\ a - nk \in 0 .. i + 1 /\ a - 1 # i + 1 /\ a - nk # i + 1
          BY <1>1
        <4> QED
          BY <4>1
      <3> HIDE DEF y, z
      <3>3. a >= nk => TempWord(size, y, a) = TempWord(size, w, a)
        BY <3>2, Zenon DEF TempWord
      <3>4. CASE a < nk
        BY <3>1, <3>4
      <3>5. CASE ~(a < nk)
        <4>1. a >= nk
          BY <1>1, <3>5
        <4> HIDE DEF nk
        <4> QED
          BY <3>1, <3>2, <3>3, <3>5, <4>1, Zenon
      <3> QED
        BY <3>4, <3>5
    <2>3. y = z
      BY <2>2, Zenon
    <2> HIDE DEF y
    <2>4. IsWords(y, size, i + 1)
      BY <2>3 DEF IsWords
    <2> QED
      BY <2>4
  <1> HIDE DEF S
  <1>4. Nat \subseteq S
    BY <1>2, <1>3, NatSetInduction
  <1> QED
    BY <1>4 DEF S

LEMMA WordsAre ==
    ASSUME NEW size \in KeySizes
    PROVE  IsWords(FipsWords(size), size, (4 * RoundsOfKey(size)) + 3)
  <1> DEFINE m == (4 * RoundsOfKey(size)) + 3
  <1>1. m \in Nat
    BY DEF KeySizes, RoundsOfKey, RoundNum128, RoundNum192, RoundNum256
  <1>2. FipsWords(size) = CHOOSE w : IsWords(w, size, m)
    BY Zenon DEF FipsWords, IsWords, TempWord
  <1> HIDE DEF m
  <1>3. \E w : IsWords(w, size, m)
    BY <1>1, WordsExist
  <1>4. IsWords(CHOOSE w : IsWords(w, size, m), size, m)
    BY <1>3, Zenon
  <1> QED
    BY <1>2, <1>4, Zenon DEF m

LEMMA RconIs == \A j \in 1 .. 10 : FipsRcon[j] = Rcon[j]
  <1> DEFINE N(last) == IF last < 128 THEN 2 * last ELSE ((2 * last) - 256) + 27
             IsRcon(keys) == keys = [j \in 1 .. 10 |-> IF j = 1 THEN 1 ELSE N(keys[j - 1])]
             g == [j \in 1 .. 10 |-> Rcon[j]]
             z == [j \in 1 .. 10 |-> IF j = 1 THEN 1 ELSE N(g[j - 1])]
  <1>1. \A j \in 1 .. 10 : g[j] = z[j]
    BY DEF Rcon
  <1>2. g = z
    BY <1>1
  <1> HIDE DEF g
  <1>3. IsRcon(g)
    BY <1>2
  <1>4. FipsRcon = CHOOSE keys : IsRcon(keys)
    BY Zenon DEF FipsRcon
  <1>5. IsRcon(FipsRcon)
    <2> HIDE DEF IsRcon
    <2> QED
      BY <1>3, <1>4, Zenon
  <1> DEFINE keys == FipsRcon
  <1>6. keys = [j \in 1 .. 10 |-> IF j = 1 THEN 1 ELSE N(keys[j - 1])]
    BY <1>5
  <1> HIDE DEF keys, IsRcon
  <1>7. keys[1] = 1
    BY <1>6
  <1>8. \A j \in 2 .. 10 : keys[j] = N(keys[j - 1])
    BY <1>6
  <1>9. /\ keys[2] = N(keys[1]) /\ keys[3] = N(keys[2]) /\ keys[4] = N(keys[3]) /\ keys[5] = N(keys[4]) /\ keys[6] = N(keys[5])
        /\ keys[7] = N(keys[6]) /\ keys[8] = N(keys[7]) /\ keys[9] = N(keys[8]) /\ keys[10] = N(keys[9])
    <2> HIDE DEF N
    <2> QED
      BY <1>8
  <1>10. N(1) = 2 /\ N(2) = 4 /\ N(4) = 8 /\ N(8) = 16 /\ N(16) = 32
    OBVIOUS
  <1>11. N(32) = 64 /\ N(64) = 128 /\ N(128) = 27 /\ N(27) = 54
    OBVIOUS
  <1>12. \A j \in 1 .. 10 : keys[j] = Rcon[j]
    <2> HIDE DEF N
    <2>1. \A j \in 1 .. 10 : j \in {1, 2, 3, 4, 5, 6, 7, 8, 9, 10}
      OBVIOUS
    <2>2. /\ keys[1] = Rcon[1] /\ keys[2] = Rcon[2] /\ keys[3] = Rcon[3] /\ keys[4] = Rcon[4] /\ keys[5] = Rcon[5]
          /\ keys[6] = Rcon[6] /\ keys[7] = Rcon[7] /\ keys[8] = Rcon[8] /\ keys[9] = Rcon[9] /\ keys[10] = Rcon[10]
      <3>1. keys[1] = 1 /\ keys[2] = 2 /\ keys[3] = 4 /\ keys[4] = 8 /\ keys[5] = 16
        BY <1>7, <1>9, <1>10
      <3>2. keys[6] = 32 /\ keys[7] = 64 /\ keys[8] = 128 /\ keys[9] = 27 /\ keys[10] = 54
        BY <1>9, <1>10, <1>11, <3>1
      <3> QED
        BY <3>1, <3>2 DEF Rcon
    <2> QED
      BY <2>1, <2>2
  <1> QED
    BY <1>12 DEF keys

\* A register holds the words from the n-th on.
RegOf(w, n) == [j \in 1 .. 4 |-> w[n + j - 1]]
Reg(a, b, c, d) == [j \in 1 .. 4 |-> <<a, b, c, d>>[j]]
Same(u) == [j \in 1 .. 4 |-> u]

LEMMA WordIs ==
    ASSUME NEW size \in KeySizes, NEW i \in 0 .. (4 * RoundsOfKey(size)) + 3
    PROVE  LET w == FipsWords(size)
           IN  /\ i < size \div 4 => w[i] = KeyWord(i)
               /\ i >= size \div 4 => w[i] = SymDiff(w[i - (size \div 4)], TempWord(size, w, i))
  <1> DEFINE w == FipsWords(size)
             m == (4 * RoundsOfKey(size)) + 3
  <1>1. IsWords(w, size, m)
    BY WordsAre
  <1>2. i \in 0 .. m /\ size \div 4 \in Nat
    BY DEF KeySizes
  <1> HIDE DEF w, m
  <1>3. w[i] = IF i < size \div 4 THEN KeyWord(i) ELSE SymDiff(w[i - (size \div 4)], TempWord(size, w, i))
    BY <1>1, <1>2 DEF IsWords
  <1>4. i < size \div 4 => w[i] = KeyWord(i)
    BY <1>3, Zenon
  <1>5. i >= size \div 4 => ~(i < size \div 4)
    BY <1>2
  <1>6. i >= size \div 4 => w[i] = SymDiff(w[i - (size \div 4)], TempWord(size, w, i))
    BY <1>3, <1>5, Zenon
  <1> QED
    BY <1>4, <1>6 DEF w

\* The words of a key, of a size, and of each word the one before it as FIPS 197
\* has it.
LEMMA Words128 ==
    LET w == FipsWords(16)
    IN  /\ \A i \in 0 .. 3 : w[i] = KeyWord(i)
        /\ \A i \in 1 .. 10 :
              /\ w[4 * i] = SymDiff(w[(4 * i) - 4], RotSub(w[(4 * i) - 1], FipsRcon[i]))
              /\ \A j \in 1 .. 3 : w[(4 * i) + j] = SymDiff(w[(4 * i) + j - 4], w[(4 * i) + j - 1])
  <1> DEFINE w == FipsWords(16)
  <1>1. 16 \in KeySizes /\ 16 \div 4 = 4 /\ (4 * RoundsOfKey(16)) + 3 = 43
    BY DEF KeySizes, RoundsOfKey, RoundNum128
  <1>2. \A i \in 0 .. 43 : /\ i < 4 => w[i] = KeyWord(i)
                           /\ i >= 4 => w[i] = SymDiff(w[i - 4], TempWord(16, w, i))
    BY <1>1, WordIs
  <1> HIDE DEF w
  <1>3. ASSUME NEW i \in 0 .. 43, i >= 4
        PROVE  /\ i % 4 = 0 => TempWord(16, w, i) = RotSub(w[i - 1], FipsRcon[i \div 4])
               /\ i % 4 # 0 => TempWord(16, w, i) = w[i - 1]
    <2>1. ~(4 > 6)
      OBVIOUS
    <2> QED
      BY <1>1, <2>1, Zenon DEF TempWord
  <1>4. ASSUME NEW i \in 1 .. 10
        PROVE  w[4 * i] = SymDiff(w[(4 * i) - 4], RotSub(w[(4 * i) - 1], FipsRcon[i]))
    <2> DEFINE n == 4 * i
    <2>1. n \in 0 .. 43 /\ n >= 4 /\ n % 4 = 0 /\ n \div 4 = i
      OBVIOUS
    <2> HIDE DEF n
    <2> QED
      BY <1>2, <1>3, <2>1 DEF n
  <1>5. ASSUME NEW i \in 1 .. 10, NEW j \in 1 .. 3
        PROVE  w[(4 * i) + j] = SymDiff(w[(4 * i) + j - 4], w[(4 * i) + j - 1])
    <2> DEFINE n == (4 * i) + j
    <2>1. n \in 0 .. 43 /\ n >= 4 /\ n % 4 # 0
      OBVIOUS
    <2> HIDE DEF n
    <2> QED
      BY <1>2, <1>3, <2>1 DEF n
  <1>6. \A i \in 0 .. 3 : w[i] = KeyWord(i)
    BY <1>2
  <1> QED
    BY <1>4, <1>5, <1>6 DEF w

LEMMA Words192 ==
    LET w == FipsWords(24)
    IN  /\ \A i \in 0 .. 5 : w[i] = KeyWord(i)
        /\ \A n \in 1 .. 8 :
              /\ w[6 * n] = SymDiff(w[(6 * n) - 6], RotSub(w[(6 * n) - 1], FipsRcon[n]))
              /\ \A j \in 1 .. 5 : n < 8 \/ j < 4 =>
                    w[(6 * n) + j] = SymDiff(w[(6 * n) + j - 6], w[(6 * n) + j - 1])
  <1> DEFINE w == FipsWords(24)
  <1>1. 24 \in KeySizes /\ 24 \div 4 = 6 /\ (4 * RoundsOfKey(24)) + 3 = 51
    BY DEF KeySizes, RoundsOfKey, RoundNum192
  <1>2. \A i \in 0 .. 51 : /\ i < 6 => w[i] = KeyWord(i)
                           /\ i >= 6 => w[i] = SymDiff(w[i - 6], TempWord(24, w, i))
    BY <1>1, WordIs
  <1> HIDE DEF w
  <1>3. ASSUME NEW i \in 0 .. 51, i >= 6
        PROVE  /\ i % 6 = 0 => TempWord(24, w, i) = RotSub(w[i - 1], FipsRcon[i \div 6])
               /\ i % 6 # 0 => TempWord(24, w, i) = w[i - 1]
    <2>1. ~(6 > 6)
      OBVIOUS
    <2> QED
      BY <1>1, <2>1, Zenon DEF TempWord
  <1>4. ASSUME NEW n \in 1 .. 8
        PROVE  w[6 * n] = SymDiff(w[(6 * n) - 6], RotSub(w[(6 * n) - 1], FipsRcon[n]))
    <2> DEFINE i == 6 * n
    <2>1. i \in 0 .. 51 /\ i >= 6 /\ i % 6 = 0 /\ i \div 6 = n
      OBVIOUS
    <2> HIDE DEF i
    <2> QED
      BY <1>2, <1>3, <2>1 DEF i
  <1>5. ASSUME NEW n \in 1 .. 8, NEW j \in 1 .. 5, n < 8 \/ j < 4
        PROVE  w[(6 * n) + j] = SymDiff(w[(6 * n) + j - 6], w[(6 * n) + j - 1])
    <2> DEFINE i == (6 * n) + j
    <2>1. i \in 0 .. 51 /\ i >= 6 /\ i % 6 # 0
      BY <1>5
    <2> HIDE DEF i
    <2> QED
      BY <1>2, <1>3, <2>1 DEF i
  <1>6. \A i \in 0 .. 5 : w[i] = KeyWord(i)
    BY <1>2
  <1> QED
    BY <1>4, <1>5, <1>6 DEF w

LEMMA Words256 ==
    LET w == FipsWords(32)
    IN  /\ \A i \in 0 .. 7 : w[i] = KeyWord(i)
        /\ \A i \in 2 .. 14 :
              /\ w[4 * i] = SymDiff(w[(4 * i) - 8], IF i % 2 = 0 THEN RotSub(w[(4 * i) - 1], FipsRcon[i \div 2])
                                                    ELSE Sub(w[(4 * i) - 1]))
              /\ \A j \in 1 .. 3 : w[(4 * i) + j] = SymDiff(w[(4 * i) + j - 8], w[(4 * i) + j - 1])
  <1> DEFINE w == FipsWords(32)
  <1>1. 32 \in KeySizes /\ 32 \div 4 = 8 /\ (4 * RoundsOfKey(32)) + 3 = 59
    BY DEF KeySizes, RoundsOfKey, RoundNum256
  <1>2. \A i \in 0 .. 59 : /\ i < 8 => w[i] = KeyWord(i)
                           /\ i >= 8 => w[i] = SymDiff(w[i - 8], TempWord(32, w, i))
    BY <1>1, WordIs
  <1> HIDE DEF w
  <1>3. ASSUME NEW i \in 0 .. 59, i >= 8
        PROVE  /\ i % 8 = 0 => TempWord(32, w, i) = RotSub(w[i - 1], FipsRcon[i \div 8])
               /\ i % 8 = 4 => TempWord(32, w, i) = Sub(w[i - 1])
               /\ i % 8 \notin {0, 4} => TempWord(32, w, i) = w[i - 1]
    <2>1. 8 > 6 /\ 0 # 4
      OBVIOUS
    <2>2. i % 8 = 0 => TempWord(32, w, i) = RotSub(w[i - 1], FipsRcon[i \div 8])
      BY <1>1, <2>1, Zenon DEF TempWord
    <2>3. i % 8 = 4 => TempWord(32, w, i) = Sub(w[i - 1])
      <3>1. i % 8 = 4 => i % 8 # 0
        OBVIOUS
      <3> QED
        BY <1>1, <2>1, <3>1, Zenon DEF TempWord
    <2>4. i % 8 # 0 /\ i % 8 # 4 => TempWord(32, w, i) = w[i - 1]
      BY <1>1, <2>1, Zenon DEF TempWord
    <2>5. i % 8 \notin {0, 4} => i % 8 # 0 /\ i % 8 # 4
      OBVIOUS
    <2> QED
      BY <2>2, <2>3, <2>4, <2>5
  <1>4. ASSUME NEW i \in 2 .. 14
        PROVE  w[4 * i] = SymDiff(w[(4 * i) - 8], IF i % 2 = 0 THEN RotSub(w[(4 * i) - 1], FipsRcon[i \div 2])
                                                  ELSE Sub(w[(4 * i) - 1]))
    <2> DEFINE n == 4 * i
    <2>1. n \in 0 .. 59 /\ n >= 8
      OBVIOUS
    <2>2. i % 2 = 0 => n % 8 = 0 /\ n \div 8 = i \div 2
      OBVIOUS
    <2>3. i % 2 # 0 => n % 8 = 4
      OBVIOUS
    <2> HIDE DEF n
    <2>4. w[n] = SymDiff(w[n - 8], TempWord(32, w, n))
      BY <1>2, <2>1
    <2>5. TempWord(32, w, n) = IF i % 2 = 0 THEN RotSub(w[n - 1], FipsRcon[i \div 2]) ELSE Sub(w[n - 1])
      BY <1>3, <2>1, <2>2, <2>3
    <2> QED
      BY <2>4, <2>5 DEF n
  <1>5. ASSUME NEW i \in 2 .. 14, NEW j \in 1 .. 3
        PROVE  w[(4 * i) + j] = SymDiff(w[(4 * i) + j - 8], w[(4 * i) + j - 1])
    <2> DEFINE n == (4 * i) + j
    <2>1. n \in 0 .. 59 /\ n >= 8 /\ n % 8 \notin {0, 4}
      OBVIOUS
    <2> HIDE DEF n
    <2> QED
      BY <1>2, <1>3, <2>1 DEF n
  <1>6. \A i \in 0 .. 7 : w[i] = KeyWord(i)
    BY <1>2
  <1> QED
    BY <1>4, <1>5, <1>6 DEF w

\* What the three shifts of nextKey make of a register.
LEMMA NextKeyIs ==
    ASSUME NEW x, NEW u
    PROVE  LET y1 == SymDiff(x[1], u)
               y2 == SymDiff(x[2], y1)
               y3 == SymDiff(x[3], y2)
               y4 == SymDiff(x[4], y3)
           IN  nextKey(x, Same(u)) = Reg(y1, y2, y3, y4)
  <1> DEFINE t == Same(u)
             a == Spread(x)
             b == Spread(a)
             c == Spread(b)
             z == nextKey(x, t)
             y1 == SymDiff(x[1], u)
             y2 == SymDiff(x[2], y1)
             y3 == SymDiff(x[3], y2)
             y4 == SymDiff(x[4], y3)
  <1>1. ASSUME NEW r
        PROVE  /\ Spread(r)[1] = r[1] /\ Spread(r)[2] = SymDiff(r[2], r[1])
               /\ Spread(r)[3] = SymDiff(r[3], r[2]) /\ Spread(r)[4] = SymDiff(r[4], r[3])
    <2>1. /\ Spread(r)[1] = SymDiff(r[1], {}) /\ Spread(r)[2] = SymDiff(r[2], r[1])
          /\ Spread(r)[3] = SymDiff(r[3], r[2]) /\ Spread(r)[4] = SymDiff(r[4], r[3])
      BY DEF Spread, XorReg, Slli4
    <2>2. SymDiff(r[1], {}) = r[1]
      BY DEF SymDiff
    <2> QED
      BY <2>1, <2>2
  <1>2. z = [j \in 1 .. 4 |-> SymDiff(c[j], u)]
    BY DEF nextKey, XorReg, Same
  <1> HIDE DEF z
  <1>3. /\ a[1] = x[1] /\ a[2] = SymDiff(x[2], x[1]) /\ a[3] = SymDiff(x[3], x[2]) /\ a[4] = SymDiff(x[4], x[3])
    BY <1>1
  <1>4. /\ b[1] = a[1] /\ b[2] = SymDiff(a[2], a[1]) /\ b[3] = SymDiff(a[3], a[2]) /\ b[4] = SymDiff(a[4], a[3])
    BY <1>1
  <1>5. /\ c[1] = b[1] /\ c[2] = SymDiff(b[2], b[1]) /\ c[3] = SymDiff(b[3], b[2]) /\ c[4] = SymDiff(b[4], b[3])
    BY <1>1
  <1> HIDE DEF a, b, c
  <1>6. SymDiff(c[1], u) = y1
    BY <1>3, <1>4, <1>5
  <1>7. SymDiff(c[2], u) = y2
    BY <1>3, <1>4, <1>5 DEF SymDiff
  <1>8. SymDiff(c[3], u) = y3
    <2>1. b[3] = SymDiff(x[3], x[1])
      BY <1>3, <1>4 DEF SymDiff
    <2>2. b[2] = x[2]
      BY <1>3, <1>4 DEF SymDiff
    <2> QED
      BY <1>5, <2>1, <2>2 DEF SymDiff
  <1>9. SymDiff(c[4], u) = y4
    <2>1. b[4] = SymDiff(x[4], x[2])
      BY <1>3, <1>4 DEF SymDiff
    <2>2. b[3] = SymDiff(x[3], x[1])
      BY <1>3, <1>4 DEF SymDiff
    <2> QED
      BY <1>5, <2>1, <2>2 DEF SymDiff
  <1> HIDE DEF y1, y2, y3, y4
  <1>10. z = [j \in 1 .. 4 |-> <<y1, y2, y3, y4>>[j]]
    <2>1. \A j \in 1 .. 4 : j = 1 \/ j = 2 \/ j = 3 \/ j = 4
      OBVIOUS
    <2>2. \A j \in 1 .. 4 : SymDiff(c[j], u) = <<y1, y2, y3, y4>>[j]
      BY <1>6, <1>7, <1>8, <1>9, <2>1
    <2> QED
      BY <1>2, <2>2
  <1> QED
    BY <1>10 DEF Reg, z, y1, y2, y3, y4

\* What becomes of a register of words is one of later words.
LEMMA NextKeyOf ==
    ASSUME NEW w, NEW n \in Nat, NEW m \in Nat, NEW u, w[m] = SymDiff(w[n], u),
           \A j \in 1 .. 3 : w[m + j] = SymDiff(w[n + j], w[m + j - 1])
    PROVE  nextKey(RegOf(w, n), Same(u)) = RegOf(w, m)
  <1> DEFINE x == RegOf(w, n)
             y1 == SymDiff(x[1], u)
             y2 == SymDiff(x[2], y1)
             y3 == SymDiff(x[3], y2)
             y4 == SymDiff(x[4], y3)
             z == nextKey(x, Same(u))
  <1> HIDE DEF x
  <1>1. z = Reg(y1, y2, y3, y4)
    BY NextKeyIs, Zenon
  <1>2. x[1] = w[n] /\ x[2] = w[n + 1] /\ x[3] = w[n + 2] /\ x[4] = w[n + 3]
    <2>1. n + 1 - 1 = n /\ n + 2 - 1 = n + 1 /\ n + 3 - 1 = n + 2 /\ n + 4 - 1 = n + 3
      OBVIOUS
    <2> QED
      BY <2>1 DEF RegOf, x
  <1> HIDE DEF z
  <1>3. w[m + 1] = SymDiff(w[n + 1], w[m]) /\ w[m + 2] = SymDiff(w[n + 2], w[m + 1])
        /\ w[m + 3] = SymDiff(w[n + 3], w[m + 2])
    <2>1. m + 1 - 1 = m /\ m + 2 - 1 = m + 1 /\ m + 3 - 1 = m + 2
      OBVIOUS
    <2>2. /\ w[m + 1] = SymDiff(w[n + 1], w[m + 1 - 1]) /\ w[m + 2] = SymDiff(w[n + 2], w[m + 2 - 1])
          /\ w[m + 3] = SymDiff(w[n + 3], w[m + 3 - 1])
      OBVIOUS
    <2> QED
      BY <2>1, <2>2
  <1>4. y1 = w[m] /\ y2 = w[m + 1] /\ y3 = w[m + 2] /\ y4 = w[m + 3]
    BY <1>2, <1>3
  <1> HIDE DEF y1, y2, y3, y4
  <1>5. \A j \in 1 .. 4 : <<y1, y2, y3, y4>>[j] = w[m + j - 1]
    <2>1. \A j \in 1 .. 4 : j = 1 \/ j = 2 \/ j = 3 \/ j = 4
      OBVIOUS
    <2>2. m + 1 - 1 = m /\ m + 2 - 1 = m + 1 /\ m + 3 - 1 = m + 2 /\ m + 4 - 1 = m + 3
      OBVIOUS
    <2>3. w[m + 1 - 1] = y1 /\ w[m + 2 - 1] = y2 /\ w[m + 3 - 1] = y3 /\ w[m + 4 - 1] = y4
      BY <1>4, <2>2
    <2> QED
      BY <2>1, <2>3
  <1>6. z = [j \in 1 .. 4 |-> w[m + j - 1]]
    BY <1>1, <1>5 DEF Reg
  <1> QED
    BY <1>6 DEF RegOf, x, z

LEMMA AssistIs ==
    ASSUME NEW x, NEW r
    PROVE  /\ Broadcast(KeyGenAssist(x, r), 1) = Same(RotSub(x[2], r))
           /\ Broadcast(KeyGenAssist(x, r), 2) = Same(Sub(x[4]))
           /\ Broadcast(KeyGenAssist(x, r), 3) = Same(RotSub(x[4], r))
  <1>1. 1 + 1 = 2 /\ 2 + 1 = 3 /\ 3 + 1 = 4
    OBVIOUS
  <1>2. /\ KeyGenAssist(x, r)[2] = RotSub(x[2], r) /\ KeyGenAssist(x, r)[3] = Sub(x[4])
        /\ KeyGenAssist(x, r)[4] = RotSub(x[4], r)
    BY DEF KeyGenAssist
  <1> QED
    BY <1>1, <1>2 DEF Broadcast, Same

LEMMA RegWords ==
    ASSUME NEW w, NEW n \in Nat
    PROVE  RegOf(w, n)[1] = w[n] /\ RegOf(w, n)[2] = w[n + 1] /\ RegOf(w, n)[3] = w[n + 2] /\ RegOf(w, n)[4] = w[n + 3]
  <1>1. n + 1 - 1 = n /\ n + 2 - 1 = n + 1 /\ n + 3 - 1 = n + 2 /\ n + 4 - 1 = n + 3
    OBVIOUS
  <1> QED
    BY <1>1 DEF RegOf

LEMMA LoadIs ==
    ASSUME NEW w, NEW n \in Nat, \A i \in n .. n + 3 : w[i] = KeyWord(i)
    PROVE  Load(n) = RegOf(w, n)
  <1>1. \A j \in 1 .. 4 : n + j - 1 \in n .. n + 3
    OBVIOUS
  <1>2. \A j \in 1 .. 4 : w[n + j - 1] = KeyWord(n + j - 1)
    BY <1>1
  <1> QED
    BY <1>2 DEF Load, RegOf

LEMMA Expanded128 == \A i \in 0 .. 10 : expandKey128[i] = RegOf(FipsWords(16), 4 * i)
  <1> DEFINE w == FipsWords(16)
             Next128(x, i) == nextKey(x, Broadcast(KeyGenAssist(x, Rcon[i]), 3))
             IsKeys(keys) == keys = [i \in 0 .. 10 |-> IF i = 0 THEN Load(0) ELSE Next128(keys[i - 1], i)]
             g == [i \in 0 .. 10 |-> RegOf(w, 4 * i)]
             keys == CHOOSE keys : IsKeys(keys)
  <1>1. Load(0) = RegOf(w, 0)
    <2>1. \A i \in 0 .. 0 + 3 : w[i] = KeyWord(i)
      BY Words128
    <2> HIDE DEF w
    <2> QED
      BY <2>1, LoadIs
  <1>2. ASSUME NEW i \in 1 .. 10 PROVE Next128(RegOf(w, 4 * (i - 1)), i) = RegOf(w, 4 * i)
    <2> DEFINE n == 4 * (i - 1)
               m == 4 * i
               x == RegOf(w, n)
               u == RotSub(w[m - 1], Rcon[i])
    <2>1. n \in Nat /\ m \in Nat /\ n = m - 4 /\ n + 3 = m - 1
      OBVIOUS
    <2>2. w[m] = SymDiff(w[m - 4], RotSub(w[m - 1], FipsRcon[i]))
          /\ \A j \in 1 .. 3 : w[m + j] = SymDiff(w[m + j - 4], w[m + j - 1])
      BY Words128
    <2>3. FipsRcon[i] = Rcon[i]
      BY RconIs
    <2> HIDE DEF w, n, m
    <2>4. w[m] = SymDiff(w[n], u)
      BY <2>1, <2>2, <2>3
    <2>5. ASSUME NEW j \in 1 .. 3 PROVE w[m + j] = SymDiff(w[n + j], w[m + j - 1])
      <3>1. m + j - 4 = n + j
        BY <2>1
      <3> QED
        BY <2>2, <3>1
    <2>6. nextKey(x, Same(u)) = RegOf(w, m)
      <3> HIDE DEF u
      <3> QED
        BY <2>1, <2>4, <2>5, NextKeyOf DEF x
    <2>7. Broadcast(KeyGenAssist(x, Rcon[i]), 3) = Same(RotSub(x[4], Rcon[i]))
      BY AssistIs
    <2>8. x[4] = w[m - 1]
      <3>1. x[4] = w[n + 3]
        BY <2>1, RegWords
      <3> QED
        BY <2>1, <3>1
    <2> QED
      BY <2>6, <2>7, <2>8 DEF n, m
  <1> HIDE DEF Next128
  <1>3. IsKeys(g)
    <2> DEFINE z == [i \in 0 .. 10 |-> IF i = 0 THEN Load(0) ELSE Next128(g[i - 1], i)]
    <2>1. ASSUME NEW i \in 0 .. 10 PROVE g[i] = z[i]
      <3>1. CASE i = 0
        <4>1. g[0] = RegOf(w, 4 * 0) /\ 4 * 0 = 0
          OBVIOUS
        <4> QED
          BY <1>1, <3>1, <4>1
      <3>2. CASE i # 0
        <4>1. i \in 1 .. 10 /\ i - 1 \in 0 .. 10
          BY <3>2
        <4>2. g[i - 1] = RegOf(w, 4 * (i - 1)) /\ g[i] = RegOf(w, 4 * i)
          BY <4>1
        <4>3. z[i] = Next128(g[i - 1], i)
          BY <3>2
        <4> HIDE DEF g, z, w
        <4> QED
          BY <1>2, <4>1, <4>2, <4>3
      <3> QED
        BY <3>1, <3>2
    <2>2. g = z
      BY <2>1
    <2> HIDE DEF g
    <2> QED
      BY <2>2
  <1>4. expandKey128 = keys
    BY Zenon DEF expandKey128, RoundNum128, Next128
  <1>5. IsKeys(keys)
    <2> HIDE DEF IsKeys, g
    <2> QED
      BY <1>3, Zenon
  <1> HIDE DEF keys, g
  <1> DEFINE S == {i \in Nat : i <= 10 => keys[i] = RegOf(w, 4 * i)}
  <1>6. 0 \in S
    <2>1. keys[0] = Load(0)
      BY <1>5
    <2>2. 4 * 0 = 0
      OBVIOUS
    <2> HIDE DEF w
    <2> QED
      BY <1>1, <2>1, <2>2
  <1>7. ASSUME NEW i \in Nat, i \in S PROVE i + 1 \in S
    <2> SUFFICES ASSUME i + 1 <= 10 PROVE keys[i + 1] = RegOf(w, 4 * (i + 1))
      OBVIOUS
    <2> DEFINE a == i + 1
    <2>1. a \in 1 .. 10 /\ a \in 0 .. 10 /\ a # 0 /\ a - 1 = i
      OBVIOUS
    <2>2. keys[i] = RegOf(w, 4 * i)
      BY <1>7
    <2> HIDE DEF a, w, S
    <2>3. keys[a] = Next128(keys[a - 1], a)
      BY <1>5, <2>1
    <2>4. keys[a] = RegOf(w, 4 * a)
      BY <1>2, <2>1, <2>2, <2>3
    <2> QED
      BY <2>4 DEF a
  <1> HIDE DEF S
  <1>8. Nat \subseteq S
    BY <1>6, <1>7, NatSetInduction
  <1> QED
    BY <1>4, <1>8 DEF S, w

LEMMA Expanded256 == \A i \in 0 .. 14 : expandKey256[i] = RegOf(FipsWords(32), 4 * i)
  <1> DEFINE w == FipsWords(32)
             Next256(x, y, i) ==
                nextKey(x, Broadcast(KeyGenAssist(y, IF i % 2 = 0 THEN Rcon[i \div 2] ELSE 0),
                                     IF i % 2 = 0 THEN 3 ELSE 2))
             IsKeys(keys) == keys = [i \in 0 .. 14 |-> IF i < 2 THEN Load(4 * i) ELSE Next256(keys[i - 2], keys[i - 1], i)]
             g == [i \in 0 .. 14 |-> RegOf(w, 4 * i)]
             keys == CHOOSE keys : IsKeys(keys)
  <1>1. ASSUME NEW i \in 0 .. 1 PROVE Load(4 * i) = RegOf(w, 4 * i)
    <2>1. \A a \in 0 .. 7 : w[a] = KeyWord(a)
      BY Words256
    <2>2. 4 * i \in Nat /\ \A a \in 4 * i .. 4 * i + 3 : a \in 0 .. 7
      OBVIOUS
    <2> HIDE DEF w
    <2> QED
      BY <2>1, <2>2, LoadIs
  <1>2. ASSUME NEW i \in 2 .. 14
        PROVE  Next256(RegOf(w, 4 * (i - 2)), RegOf(w, 4 * (i - 1)), i) = RegOf(w, 4 * i)
    <2> DEFINE n == 4 * (i - 2)
               p == 4 * (i - 1)
               m == 4 * i
               x == RegOf(w, n)
               y == RegOf(w, p)
               u == IF i % 2 = 0 THEN RotSub(w[m - 1], Rcon[i \div 2]) ELSE Sub(w[m - 1])
    <2>1. n \in Nat /\ m \in Nat /\ p \in Nat /\ n = m - 8 /\ p + 3 = m - 1
      OBVIOUS
    <2>2. w[m] = SymDiff(w[m - 8], IF i % 2 = 0 THEN RotSub(w[m - 1], FipsRcon[i \div 2]) ELSE Sub(w[m - 1]))
          /\ \A j \in 1 .. 3 : w[m + j] = SymDiff(w[m + j - 8], w[m + j - 1])
      BY Words256
    <2>3. i % 2 = 0 => FipsRcon[i \div 2] = Rcon[i \div 2]
      <3>1. i % 2 = 0 => i \div 2 \in 1 .. 10
        OBVIOUS
      <3> QED
        BY <3>1, RconIs
    <2> HIDE DEF w, n, m, p
    <2>4. w[m] = SymDiff(w[n], u)
      <3>1. CASE i % 2 = 0
        <4>1. w[m] = SymDiff(w[m - 8], RotSub(w[m - 1], FipsRcon[i \div 2])) /\ u = RotSub(w[m - 1], Rcon[i \div 2])
          BY <2>2, <3>1
        <4> QED
          BY <2>1, <2>3, <3>1, <4>1
      <3>2. CASE i % 2 # 0
        <4>1. w[m] = SymDiff(w[m - 8], Sub(w[m - 1])) /\ u = Sub(w[m - 1])
          BY <2>2, <3>2
        <4> QED
          BY <2>1, <4>1
      <3> QED
        BY <3>1, <3>2
    <2>5. ASSUME NEW j \in 1 .. 3 PROVE w[m + j] = SymDiff(w[n + j], w[m + j - 1])
      <3>1. m + j - 8 = n + j
        BY <2>1
      <3> QED
        BY <2>2, <3>1
    <2>6. nextKey(x, Same(u)) = RegOf(w, m)
      <3> HIDE DEF u
      <3> QED
        BY <2>1, <2>4, <2>5, NextKeyOf DEF x
    <2>7. y[4] = w[m - 1]
      <3>1. y[4] = w[p + 3]
        BY <2>1, RegWords
      <3> QED
        BY <2>1, <3>1
    <2> HIDE DEF y
    <2>8. Broadcast(KeyGenAssist(y, IF i % 2 = 0 THEN Rcon[i \div 2] ELSE 0), IF i % 2 = 0 THEN 3 ELSE 2) = Same(u)
      <3>1. CASE i % 2 = 0
        <4>1. Broadcast(KeyGenAssist(y, Rcon[i \div 2]), 3) = Same(RotSub(y[4], Rcon[i \div 2]))
          BY AssistIs
        <4>2. u = RotSub(y[4], Rcon[i \div 2])
          BY <2>7, <3>1
        <4> HIDE DEF u
        <4> QED
          BY <3>1, <4>1, <4>2, Zenon
      <3>2. CASE i % 2 # 0
        <4>1. Broadcast(KeyGenAssist(y, 0), 2) = Same(Sub(y[4]))
          BY AssistIs
        <4>2. u = Sub(y[4])
          BY <2>7, <3>2
        <4> HIDE DEF u
        <4> QED
          BY <3>2, <4>1, <4>2, Zenon
      <3> QED
        BY <3>1, <3>2
    <2> HIDE DEF u
    <2> QED
      BY <2>6, <2>8, Zenon DEF n, m, p, x, y
  <1> HIDE DEF Next256
  <1>3. IsKeys(g)
    <2> DEFINE z == [i \in 0 .. 14 |-> IF i < 2 THEN Load(4 * i) ELSE Next256(g[i - 2], g[i - 1], i)]
    <2>1. ASSUME NEW i \in 0 .. 14 PROVE g[i] = z[i]
      <3>1. CASE i < 2
        <4>1. i \in 0 .. 1
          BY <3>1
        <4> HIDE DEF w
        <4> QED
          BY <1>1, <3>1, <4>1
      <3>2. CASE ~(i < 2)
        <4>1. i \in 2 .. 14 /\ i - 1 \in 0 .. 14 /\ i - 2 \in 0 .. 14
          BY <3>2
        <4>2. g[i - 2] = RegOf(w, 4 * (i - 2)) /\ g[i - 1] = RegOf(w, 4 * (i - 1)) /\ g[i] = RegOf(w, 4 * i)
          BY <4>1
        <4>3. z[i] = Next256(g[i - 2], g[i - 1], i)
          BY <3>2
        <4> HIDE DEF g, z, w
        <4> QED
          BY <1>2, <4>1, <4>2, <4>3
      <3> QED
        BY <3>1, <3>2
    <2>2. g = z
      BY <2>1
    <2> HIDE DEF g
    <2> QED
      BY <2>2
  <1>4. expandKey256 = keys
    BY Zenon DEF expandKey256, RoundNum256, Next256
  <1>5. IsKeys(keys)
    <2> HIDE DEF IsKeys, g
    <2> QED
      BY <1>3, Zenon
  <1> HIDE DEF keys, g
  <1> DEFINE IsIt(i) == i <= 14 => keys[i] = RegOf(w, 4 * i)
             S == {i \in Nat : IsIt(i) /\ IsIt(i + 1)}
  <1>6. 0 \in S
    <2>1. keys[0] = Load(4 * 0) /\ keys[1] = Load(4 * 1)
      <3>1. 0 \in 0 .. 14 /\ 1 \in 0 .. 14 /\ 0 < 2 /\ 1 < 2
        OBVIOUS
      <3> QED
        BY <1>5, <3>1
    <2> HIDE DEF w
    <2>2. Load(4 * 0) = RegOf(w, 4 * 0) /\ Load(4 * 1) = RegOf(w, 4 * 1)
      BY <1>1
    <2>3. IsIt(0) /\ IsIt(0 + 1)
      BY <2>1, <2>2
    <2> QED
      BY <2>3
  <1>7. ASSUME NEW i \in Nat, i \in S PROVE i + 1 \in S
    <2>1. IsIt(i) /\ IsIt(i + 1)
      BY <1>7
    <2> SUFFICES ASSUME (i + 1) + 1 <= 14 PROVE keys[(i + 1) + 1] = RegOf(w, 4 * ((i + 1) + 1))
      BY <2>1
    <2> DEFINE a == (i + 1) + 1
    <2>2. a \in 2 .. 14 /\ a \in 0 .. 14 /\ ~(a < 2) /\ a - 1 = i + 1 /\ a - 2 = i
      OBVIOUS
    <2>3. keys[i] = RegOf(w, 4 * i) /\ keys[i + 1] = RegOf(w, 4 * (i + 1))
      BY <2>1
    <2> HIDE DEF a, w, S, IsIt
    <2>4. keys[a] = Next256(keys[a - 2], keys[a - 1], a)
      BY <1>5, <2>2
    <2>5. keys[a] = RegOf(w, 4 * a)
      BY <1>2, <2>2, <2>3, <2>4
    <2> QED
      BY <2>5 DEF a
  <1> HIDE DEF S
  <1>8. Nat \subseteq S
    BY <1>6, <1>7, NatSetInduction
  <1>9. \A i \in 0 .. 14 : IsIt(i)
    <2> HIDE DEF IsIt
    <2> QED
      BY <1>8 DEF S
  <1> QED
    BY <1>4, <1>9 DEF w

\* t1 and t3 after n steps: the registers of expandKey192.
Next192(x, n) == nextKey(x[1], Broadcast(KeyGenAssist(x[2], Rcon[n]), 1))
Assisted(x, n) == <<Next192(x, n), XorReg(Spread(x[2]), Broadcast(Next192(x, n), 3))>>
IsTemps(t, m) == t = [n \in 0 .. m |-> IF n = 0 THEN <<Load(0), LoadLow(4)>> ELSE Assisted(t[n - 1], n)]

LEMMA TempsExist ==
    ASSUME NEW m \in Nat
    PROVE  \E t : IsTemps(t, m)
  <1> DEFINE b == <<Load(0), LoadLow(4)>>
             S == {i \in Nat : \E e : IsTemps(e, i)}
  <1>1. 0 \in S
    <2> DEFINE e == [c \in 0 .. 0 |-> b]
    <2>1. IsTemps(e, 0)
      BY DEF IsTemps
    <2> QED
      BY <2>1
  <1> HIDE DEF b
  <1>2. ASSUME NEW i \in Nat, i \in S PROVE i + 1 \in S
    <2>1. PICK e : IsTemps(e, i)
      BY <1>2
    <2>2. e = [n \in 0 .. i |-> IF n = 0 THEN b ELSE Assisted(e[n - 1], n)]
      BY <2>1, Zenon DEF IsTemps, b
    <2> DEFINE y == [c \in 0 .. i + 1 |-> IF c = i + 1 THEN Assisted(e[c - 1], c) ELSE e[c]]
               z == [c \in 0 .. i + 1 |-> IF c = 0 THEN b ELSE Assisted(y[c - 1], c)]
    <2>3. ASSUME NEW c \in 0 .. i + 1 PROVE y[c] = IF c = 0 THEN b ELSE Assisted(y[c - 1], c)
      <3>1. CASE c = 0
        BY <2>2, <3>1
      <3>2. CASE c # 0
        <4>1. c - 1 \in 0 .. i /\ c - 1 \in 0 .. i + 1 /\ c - 1 # i + 1
          BY <3>2
        <4>2. y[c - 1] = e[c - 1]
          BY <4>1
        <4>3. CASE c = i + 1
          BY <3>2, <4>2, <4>3
        <4>4. CASE c # i + 1
          <5>1. c \in 0 .. i /\ y[c] = e[c]
            BY <4>4
          <5>2. e[c] = Assisted(e[c - 1], c)
            BY <2>2, <3>2, <5>1
          <5> QED
            BY <3>2, <4>2, <5>1, <5>2
        <4> QED
          BY <4>3, <4>4
      <3> QED
        BY <3>1, <3>2
    <2>4. y = z
      BY <2>3
    <2>5. IsTemps(y, i + 1)
      <3> HIDE DEF y
      <3> QED
        BY <2>4, Zenon DEF IsTemps, b
    <2> HIDE DEF y, z
    <2> QED
      BY <2>5
  <1> HIDE DEF S
  <1>3. Nat \subseteq S
    BY <1>1, <1>2, NatSetInduction
  <1> QED
    BY <1>3 DEF S

LEMMA RegTuple ==
    ASSUME NEW w, NEW p \in Nat
    PROVE  <<w[p], w[p + 1], w[p + 2], w[p + 3]>> = RegOf(w, p)
  <1> DEFINE x == <<w[p], w[p + 1], w[p + 2], w[p + 3]>>
  <1>1. p + 1 - 1 = p /\ p + 2 - 1 = p + 1 /\ p + 3 - 1 = p + 2 /\ p + 4 - 1 = p + 3
    OBVIOUS
  <1>2. x = [j \in 1 .. 4 |-> x[j]]
    OBVIOUS
  <1>3. \A j \in 1 .. 4 : x[j] = w[p + j - 1]
    <2>1. \A j \in 1 .. 4 : j = 1 \/ j = 2 \/ j = 3 \/ j = 4
      OBVIOUS
    <2>2. x[1] = w[p + 1 - 1] /\ x[2] = w[p + 2 - 1] /\ x[3] = w[p + 3 - 1] /\ x[4] = w[p + 4 - 1]
      BY <1>1
    <2> HIDE DEF x
    <2> QED
      BY <2>1, <2>2
  <1> HIDE DEF x
  <1>4. x = [j \in 1 .. 4 |-> w[p + j - 1]]
    BY <1>2, <1>3
  <1> QED
    BY <1>4 DEF RegOf, x

LEMMA Expanded192 == \A i \in 0 .. 12 : expandKey192[i] = RegOf(FipsWords(24), 4 * i)
  <1> DEFINE w == FipsWords(24)
             t == CHOOSE t : IsTemps(t, 8)
             IsIt(n) == n <= 8 => /\ t[n][1] = RegOf(w, 6 * n)
                                  /\ n <= 7 => t[n][2][1] = w[(6 * n) + 4] /\ t[n][2][2] = w[(6 * n) + 5]
             S == {n \in Nat : IsIt(n)}
             KeyAt(n, i) == CASE i % 3 = 0 -> t[n][1]
                              [] i % 3 = 1 -> LowHalves(t[n][2], t[n + 1][1])
                              [] OTHER     -> HighThenLow(t[n + 1][1], t[n + 1][2])
  <1>1. IsTemps(t, 8)
    <2>1. \E e : IsTemps(e, 8)
      BY TempsExist
    <2> QED
      BY <2>1, Zenon
  <1>2. expandKey192 = [i \in 0 .. 12 |-> KeyAt(2 * (i \div 3), i)]
    BY Zenon DEF expandKey192, RoundNum192, IsTemps, Assisted, Next192
  <1> HIDE DEF t
  <1>3. t[0] = <<Load(0), LoadLow(4)>>
    BY <1>1 DEF IsTemps
  <1>4. \A n \in 1 .. 8 : t[n] = Assisted(t[n - 1], n)
    BY <1>1 DEF IsTemps
  <1>5. 0 \in S
    <2>1. \A a \in 0 .. 5 : w[a] = KeyWord(a)
      BY Words192
    <2> HIDE DEF w
    <2>2. Load(0) = RegOf(w, 0)
      <3>1. \A a \in 0 .. 0 + 3 : w[a] = KeyWord(a)
        BY <2>1
      <3> QED
        BY <3>1, LoadIs
    <2>3. t[0][1] = RegOf(w, 0) /\ t[0][2] = LoadLow(4)
      BY <1>3, <2>2
    <2>4. t[0][2][1] = w[4] /\ t[0][2][2] = w[5]
      <3>1. LoadLow(4)[1] = KeyWord(4) /\ LoadLow(4)[2] = KeyWord(5)
        BY DEF LoadLow
      <3> QED
        BY <2>1, <2>3, <3>1
    <2>5. 6 * 0 = 0 /\ 0 + 4 = 4 /\ 0 + 5 = 5
      OBVIOUS
    <2> QED
      BY <2>3, <2>4, <2>5
  <1>6. ASSUME NEW i \in Nat, i \in S PROVE i + 1 \in S
    <2> SUFFICES ASSUME i + 1 <= 8 PROVE IsIt(i + 1)
      OBVIOUS
    <2> DEFINE a == i + 1
               n == 6 * i
               m == 6 * a
               x == t[i][1]
               y == t[i][2]
               u == RotSub(w[m - 1], Rcon[a])
    <2>1. /\ a \in 1 .. 8 /\ n \in Nat /\ m \in Nat /\ n = m - 6 /\ a - 1 = i
          /\ n + 4 = m - 2 /\ n + 5 = m - 1
      OBVIOUS
    <2>2. x = RegOf(w, n) /\ y[1] = w[n + 4] /\ y[2] = w[n + 5]
      BY <1>6
    <2> HIDE DEF a, S, IsIt
    <2>3. /\ w[m] = SymDiff(w[m - 6], RotSub(w[m - 1], FipsRcon[a]))
          /\ \A j \in 1 .. 5 : a < 8 \/ j < 4 => w[m + j] = SymDiff(w[m + j - 6], w[m + j - 1])
      BY <2>1, Words192
    <2>4. FipsRcon[a] = Rcon[a]
      BY <2>1, RconIs
    <2> HIDE DEF w, n, m
    <2>5. w[m] = SymDiff(w[n], u)
      BY <2>1, <2>3, <2>4
    <2>6. ASSUME NEW j \in 1 .. 3 PROVE w[m + j] = SymDiff(w[n + j], w[m + j - 1])
      <3>1. m + j - 6 = n + j /\ j \in 1 .. 5 /\ j < 4
        BY <2>1
      <3> QED
        BY <2>3, <3>1
    <2>7. nextKey(x, Same(u)) = RegOf(w, m)
      <3> HIDE DEF u, x
      <3> QED
        BY <2>1, <2>2, <2>5, <2>6, NextKeyOf
    <2>8. t[a] = Assisted(t[i], a)
      BY <1>4, <2>1
    <2>9. Next192(t[i], a) = RegOf(w, m)
      <3> HIDE DEF x, y
      <3>1. Broadcast(KeyGenAssist(y, Rcon[a]), 1) = Same(RotSub(y[2], Rcon[a]))
        BY AssistIs
      <3>2. RotSub(y[2], Rcon[a]) = u
        BY <2>1, <2>2
      <3> HIDE DEF u
      <3>3. Next192(t[i], a) = nextKey(x, Broadcast(KeyGenAssist(y, Rcon[a]), 1))
        BY DEF Next192, x, y
      <3> QED
        BY <2>7, <3>1, <3>2, <3>3, Zenon
    <2>10. t[a][1] = RegOf(w, m) /\ t[a][2] = XorReg(Spread(y), Broadcast(RegOf(w, m), 3))
      BY <2>8, <2>9 DEF Assisted
    <2>11. ASSUME a <= 7 PROVE t[a][2][1] = w[m + 4] /\ t[a][2][2] = w[m + 5]
      <3>1. w[m + 4] = SymDiff(w[n + 4], w[m + 3]) /\ w[m + 5] = SymDiff(w[n + 5], w[m + 4])
        <4>1. a < 8 /\ 4 \in 1 .. 5 /\ 5 \in 1 .. 5 /\ m + 4 - 6 = n + 4 /\ m + 5 - 6 = n + 5
              /\ m + 4 - 1 = m + 3 /\ m + 5 - 1 = m + 4
          BY <2>1, <2>11
        <4>2. w[m + 4] = SymDiff(w[m + 4 - 6], w[m + 4 - 1]) /\ w[m + 5] = SymDiff(w[m + 5 - 6], w[m + 5 - 1])
          BY <2>3, <4>1
        <4> QED
          BY <4>1, <4>2
      <3>2. Broadcast(RegOf(w, m), 3) = Same(w[m + 3])
        <4>1. RegOf(w, m)[4] = w[m + 3] /\ 3 + 1 = 4
          BY <2>1, RegWords
        <4> QED
          BY <4>1 DEF Broadcast, Same
      <3>3. /\ t[a][2][1] = SymDiff(SymDiff(y[1], {}), w[m + 3])
            /\ t[a][2][2] = SymDiff(SymDiff(y[2], y[1]), w[m + 3])
        <4> HIDE DEF y
        <4>1. t[a][2] = XorReg(Spread(y), Same(w[m + 3]))
          BY <2>10, <3>2
        <4>2. Spread(y)[1] = SymDiff(y[1], {}) /\ Spread(y)[2] = SymDiff(y[2], y[1])
          BY DEF Spread, XorReg, Slli4
        <4>3. XorReg(Spread(y), Same(w[m + 3])) = [j \in 1 .. 4 |-> SymDiff(Spread(y)[j], w[m + 3])]
          BY DEF XorReg, Same
        <4> QED
          BY <4>1, <4>2, <4>3
      <3> HIDE DEF y
      <3>4. SymDiff(SymDiff(y[1], {}), w[m + 3]) = w[m + 4]
        <4>1. SymDiff(y[1], {}) = y[1]
          BY DEF SymDiff
        <4> QED
          BY <2>2, <3>1, <4>1
      <3>5. SymDiff(SymDiff(y[2], y[1]), w[m + 3]) = w[m + 5]
        <4>1. SymDiff(SymDiff(w[n + 5], w[n + 4]), w[m + 3]) = SymDiff(w[n + 5], SymDiff(w[n + 4], w[m + 3]))
          BY DEF SymDiff
        <4> QED
          BY <2>2, <3>1, <4>1
      <3> QED
        BY <3>3, <3>4, <3>5
    <2> QED
      BY <2>10, <2>11 DEF IsIt, a, m
  <1> HIDE DEF S
  <1>7. Nat \subseteq S
    BY <1>5, <1>6, NatSetInduction
  <1>8. \A n \in Nat : IsIt(n)
    BY <1>7 DEF S
  <1>9. ASSUME NEW i \in 0 .. 12 PROVE KeyAt(2 * (i \div 3), i) = RegOf(w, 4 * i)
    <2> DEFINE n == 2 * (i \div 3)
    <2>1. n \in Nat /\ n + 1 \in Nat /\ n <= 8 /\ i % 3 \in {0, 1, 2}
      OBVIOUS
    <2>2. i % 3 = 0 => 6 * n = 4 * i
      OBVIOUS
    <2>3. i % 3 = 1 => n <= 7 /\ n + 1 <= 8 /\ (6 * n) + 4 = 4 * i /\ 6 * (n + 1) = (4 * i) + 2
      OBVIOUS
    <2>4. i % 3 = 2 => n + 1 <= 7 /\ (6 * (n + 1)) + 2 = 4 * i
      OBVIOUS
    <2> HIDE DEF n
    <2>5. IsIt(n) /\ IsIt(n + 1)
      BY <1>8, <2>1
    <2>6. CASE i % 3 = 0
      <3>1. KeyAt(n, i) = t[n][1]
        BY <2>6
      <3> HIDE DEF w
      <3> QED
        BY <2>1, <2>2, <2>5, <2>6, <3>1 DEF n
    <2>7. CASE i % 3 = 1
      <3> DEFINE p == 4 * i
                 q == 6 * (n + 1)
      <3>1. KeyAt(n, i) = LowHalves(t[n][2], t[n + 1][1])
        BY <2>7
      <3>2. t[n][2][1] = w[p] /\ t[n][2][2] = w[p + 1] /\ t[n + 1][1] = RegOf(w, q)
        <4>1. (6 * n) + 4 = p /\ (6 * n) + 5 = p + 1
          BY <2>1, <2>3, <2>7
        <4>2. t[n][2][1] = w[(6 * n) + 4] /\ t[n][2][2] = w[(6 * n) + 5]
          BY <2>1, <2>3, <2>5, <2>7
        <4>3. t[n + 1][1] = RegOf(w, q)
          BY <2>3, <2>5, <2>7
        <4> HIDE DEF w, p, q
        <4> QED
          BY <4>1, <4>2, <4>3
      <3>3. RegOf(w, q)[1] = w[p + 2] /\ RegOf(w, q)[2] = w[p + 3] /\ p \in Nat
        <4>1. q \in Nat /\ q = p + 2 /\ q + 1 = p + 3 /\ p \in Nat
          BY <2>1, <2>3, <2>7
        <4> HIDE DEF w, q, p
        <4> QED
          BY <4>1, RegWords
      <3> HIDE DEF w, p, q, KeyAt
      <3>4. KeyAt(n, i) = <<w[p], w[p + 1], w[p + 2], w[p + 3]>>
        BY <3>1, <3>2, <3>3 DEF LowHalves
      <3> QED
        BY <3>3, <3>4, RegTuple DEF p, n
    <2>8. CASE i % 3 = 2
      <3> DEFINE p == 4 * i
                 q == 6 * (n + 1)
      <3>1. KeyAt(n, i) = HighThenLow(t[n + 1][1], t[n + 1][2])
        BY <2>8
      <3>2. t[n + 1][1] = RegOf(w, q) /\ t[n + 1][2][1] = w[p + 2] /\ t[n + 1][2][2] = w[p + 3]
        <4>1. q + 4 = p + 2 /\ q + 5 = p + 3
          BY <2>1, <2>4, <2>8
        <4> HIDE DEF w
        <4> QED
          BY <2>1, <2>4, <2>5, <2>8, <4>1
      <3>3. RegOf(w, q)[3] = w[p] /\ RegOf(w, q)[4] = w[p + 1] /\ p \in Nat
        <4>1. q \in Nat /\ q + 2 = p /\ q + 3 = p + 1 /\ p \in Nat
          BY <2>1, <2>4, <2>8
        <4> HIDE DEF w, q, p
        <4> QED
          BY <4>1, RegWords
      <3> HIDE DEF w, p, q, KeyAt
      <3>4. KeyAt(n, i) = <<w[p], w[p + 1], w[p + 2], w[p + 3]>>
        BY <3>1, <3>2, <3>3 DEF HighThenLow
      <3> QED
        BY <3>3, <3>4, RegTuple DEF p, n
    <2> QED
      BY <2>1, <2>6, <2>7, <2>8 DEF n
  <1> QED
    BY <1>2, <1>9 DEF w

\* What the rounds of enciphering make, and those of deciphering.
IsEncRounds(e, m, key, n) ==
    e = [i \in 0 .. n - 1 |-> IF i = 0 THEN SymDiff(m, key[0]) ELSE aesenc(e[i - 1], key[i])]
IsDecRounds(d, c, key, n) ==
    d = [i \in 0 .. n - 1 |-> IF i = 0 THEN SymDiff(c, key[0]) ELSE aesdec(d[i - 1], key[i])]

LEMMA EncRoundsExist ==
    ASSUME NEW m, NEW key, NEW n \in Nat \ {0}
    PROVE  \E e : IsEncRounds(e, m, key, n)
  <1> DEFINE b == SymDiff(m, key[0])
             Is(e, l) == e = [i \in 0 .. l |-> IF i = 0 THEN b ELSE aesenc(e[i - 1], key[i])]
             S == {l \in Nat : \E e : Is(e, l)}
  <1> HIDE DEF b
  <1>1. 0 \in S
    <2> DEFINE e == [c \in 0 .. 0 |-> b]
    <2>1. Is(e, 0)
      OBVIOUS
    <2> QED
      BY <2>1
  <1>2. ASSUME NEW i \in Nat, i \in S PROVE i + 1 \in S
    <2>1. PICK e : Is(e, i)
      BY <1>2
    <2> DEFINE y == [c \in 0 .. i + 1 |-> IF c = i + 1 THEN aesenc(e[c - 1], key[c]) ELSE e[c]]
               z == [c \in 0 .. i + 1 |-> IF c = 0 THEN b ELSE aesenc(y[c - 1], key[c])]
    <2>2. ASSUME NEW c \in 0 .. i + 1 PROVE y[c] = IF c = 0 THEN b ELSE aesenc(y[c - 1], key[c])
      <3>1. CASE c = 0
        BY <2>1, <3>1
      <3>2. CASE c # 0
        <4>1. c - 1 \in 0 .. i /\ c - 1 \in 0 .. i + 1 /\ c - 1 # i + 1
          BY <3>2
        <4>2. y[c - 1] = e[c - 1]
          BY <4>1
        <4>3. CASE c = i + 1
          BY <3>2, <4>2, <4>3
        <4>4. CASE c # i + 1
          <5>1. c \in 0 .. i /\ y[c] = e[c]
            BY <4>4
          <5>2. e[c] = aesenc(e[c - 1], key[c])
            BY <2>1, <3>2, <5>1
          <5> QED
            BY <3>2, <4>2, <5>1, <5>2
        <4> QED
          BY <4>3, <4>4
      <3> QED
        BY <3>1, <3>2
    <2>3. y = z
      BY <2>2
    <2>4. Is(y, i + 1)
      <3> HIDE DEF y
      <3> QED
        BY <2>3
    <2> HIDE DEF y, z, Is
    <2> QED
      BY <2>4
  <1> HIDE DEF S, Is
  <1>3. Nat \subseteq S
    BY <1>1, <1>2, NatSetInduction
  <1>4. n - 1 \in Nat
    OBVIOUS
  <1>5. \E e : Is(e, n - 1)
    BY <1>3, <1>4 DEF S
  <1> QED
    BY <1>5, Zenon DEF Is, IsEncRounds, b

LEMMA XorCancels == \A x, y : SymDiff(SymDiff(x, y), y) = x
  BY DEF SymDiff

LEMMA InvSubShiftIs ==
    ASSUME NEW x
    PROVE  InvSubShift(SubShift(x)) = x
  <1> DEFINE y == <<"sub", x>>
             s == {y}
  <1>1. y[1] = "sub" /\ y[2] = x
    OBVIOUS
  <1> HIDE DEF y
  <1>2. (CHOOSE v \in s : TRUE) = y
    OBVIOUS
  <1>3. \E v \in s : s = {v} /\ v[1] = "sub"
    BY <1>1
  <1>4. InvSubShift(s) = (CHOOSE v \in s : TRUE)[2]
    BY <1>3 DEF InvSubShift
  <1>5. SubShift(x) = s
    BY DEF SubShift, y
  <1> QED
    BY <1>1, <1>2, <1>4, <1>5

\* A round undone: what is mixed is unmixed, and of the key the same.
LEMMA RoundUndone ==
    ASSUME NEW x, NEW i
    PROVE  SymDiff(InvMix(aesenc(x, RoundKey(i))), InvMix(RoundKey(i))) = SubShift(x)
  <1> DEFINE s == <<"sub", x>>
             a == <<"mix", s>>
             b == <<"round key", i>>
             u == <<"unmix", b>>
             U(y) == IF y[1] = "mix" THEN y[2] ELSE <<"unmix", y>>
  <1>1. s[1] # "unmix" /\ a[1] = "mix" /\ a[2] = s /\ b[1] # "mix" /\ s[1] # u[1]
    OBVIOUS
  <1>2. a # b /\ s # u
    <2>1. a[1] # b[1]
      OBVIOUS
    <2> HIDE DEF a, b, s, u
    <2> QED
      BY <1>1, <2>1
  <1>3. U(a) = s /\ U(b) = u
    <2> HIDE DEF a, b, s
    <2> QED
      BY <1>1
  <1>4. Mix(SubShift(x)) = {a}
    <2>1. SubShift(x) = {s}
      BY DEF SubShift
    <2> HIDE DEF s
    <2> QED
      BY <1>1, <2>1 DEF Mix
  <1> HIDE DEF U, u
  <1>5. aesenc(x, RoundKey(i)) = {a, b}
    <2> HIDE DEF a, b
    <2>1. SymDiff({a}, {b}) = {a, b}
      BY <1>2 DEF SymDiff
    <2>2. RoundKey(i) = {b}
      BY DEF RoundKey, b
    <2> QED
      BY <1>4, <2>1, <2>2 DEF aesenc
  <1>6. InvMix({a, b}) = {s, u} /\ InvMix({b}) = {u}
    <2> HIDE DEF a, b, s
    <2>1. InvMix({a, b}) = {U(y) : y \in {a, b}} /\ InvMix({b}) = {U(y) : y \in {b}}
      BY DEF InvMix, U
    <2> QED
      BY <1>3, <2>1
  <1>7. SymDiff({s, u}, {u}) = {s}
    <2> HIDE DEF s
    <2> QED
      BY <1>2 DEF SymDiff
  <1>8. RoundKey(i) = {b} /\ SubShift(x) = {s}
    BY DEF RoundKey, SubShift
  <1> HIDE DEF a, b, s
  <1> QED
    BY <1>5, <1>6, <1>7, <1>8

\* What is deciphered with the converted keys is what was enciphered.
LEMMA Deciphers ==
    ASSUME NEW m, NEW n \in Nat \ {0}
    PROVE  LET key == [i \in 0 .. n |-> RoundKey(i)]
           IN  decryptBlock(encryptBlock(m, key, n), convertDecKey(key, n), n) = m
  <1> DEFINE key == [i \in 0 .. n |-> RoundKey(i)]
             e == CHOOSE e : IsEncRounds(e, m, key, n)
             c == aesenclast(e[n - 1], key[n])
             dk == convertDecKey(key, n)
             d == CHOOSE d : IsDecRounds(d, c, dk, n)
             g == [i \in 0 .. n - 1 |-> SubShift(e[n - 1 - i])]
  <1>1. \A i \in 0 .. n : key[i] = RoundKey(i)
    OBVIOUS
  <1> HIDE DEF key
  <1>2. dk[0] = key[n] /\ dk[n] = key[0] /\ \A i \in 1 .. n - 1 : dk[i] = InvMix(key[n - i])
    <2>1. /\ n \in 0 .. n /\ 0 \in 0 .. n /\ n - 0 = n /\ n - n = 0
          /\ \A i \in 1 .. n - 1 : i \in 0 .. n /\ i # 0 /\ i # n
      OBVIOUS
    <2>2. \A i \in 0 .. n : dk[i] = IF i \in {0, n} THEN key[n - i] ELSE InvMix(key[n - i])
      BY DEF convertDecKey
    <2> HIDE DEF dk
    <2>3. dk[0] = key[n - 0] /\ dk[n] = key[n - n]
      BY <2>1, <2>2
    <2>4. \A i \in 1 .. n - 1 : dk[i] = InvMix(key[n - i])
      BY <2>1, <2>2
    <2> QED
      BY <2>1, <2>3, <2>4
  <1>3. IsEncRounds(e, m, key, n)
    <2>1. \E x : IsEncRounds(x, m, key, n)
      BY EncRoundsExist
    <2> QED
      BY <2>1, Zenon
  <1>4. encryptBlock(m, key, n) = c
    BY Zenon DEF encryptBlock, IsEncRounds
  <1>5. decryptBlock(c, dk, n) = aesdeclast(d[n - 1], dk[n])
    BY Zenon DEF decryptBlock, IsDecRounds
  <1> HIDE DEF dk, e
  <1>6. e[0] = SymDiff(m, key[0]) /\ \A i \in 1 .. n - 1 : e[i] = aesenc(e[i - 1], key[i])
    <2>1. 0 \in 0 .. n - 1 /\ \A i \in 1 .. n - 1 : i \in 0 .. n - 1 /\ i # 0
      OBVIOUS
    <2> QED
      BY <1>3, <2>1 DEF IsEncRounds
  <1>7. g[0] = SymDiff(c, dk[0])
    <2>1. g[0] = SubShift(e[n - 1])
      <3>1. 0 \in 0 .. n - 1 /\ n - 1 - 0 = n - 1
        OBVIOUS
      <3> QED
        BY <3>1
    <2>2. c = SymDiff(SubShift(e[n - 1]), key[n])
      BY DEF aesenclast
    <2> HIDE DEF g, c
    <2> QED
      BY <1>2, <2>1, <2>2, XorCancels
  <1> HIDE DEF c
  <1>8. ASSUME NEW i \in 1 .. n - 1 PROVE g[i] = aesdec(g[i - 1], dk[i])
    <2> DEFINE a == n - i
    <2>1. /\ i - 1 \in 0 .. n - 1 /\ i \in 0 .. n - 1 /\ n - 1 - (i - 1) = a /\ n - 1 - i = a - 1
          /\ a \in 1 .. n - 1 /\ a \in 0 .. n
      OBVIOUS
    <2>2. g[i - 1] = SubShift(e[a]) /\ g[i] = SubShift(e[a - 1])
      <3>1. g[i - 1] = SubShift(e[n - 1 - (i - 1)]) /\ g[i] = SubShift(e[n - 1 - i])
        BY <2>1
      <3> HIDE DEF g, a
      <3> QED
        BY <2>1, <3>1
    <2>3. dk[i] = InvMix(key[a])
      BY <1>2
    <2> HIDE DEF g, a
    <2>4. e[a] = aesenc(e[a - 1], RoundKey(a)) /\ key[a] = RoundKey(a)
      BY <1>1, <1>6, <2>1
    <2>5. aesdec(g[i - 1], dk[i]) = SymDiff(InvMix(e[a]), InvMix(RoundKey(a)))
      BY <2>2, <2>3, <2>4, InvSubShiftIs, Zenon DEF aesdec
    <2> QED
      BY <2>2, <2>4, <2>5, RoundUndone
  <1>9. IsDecRounds(g, c, dk, n)
    <2> DEFINE z == [i \in 0 .. n - 1 |-> IF i = 0 THEN SymDiff(c, dk[0]) ELSE aesdec(g[i - 1], dk[i])]
    <2>1. ASSUME NEW i \in 0 .. n - 1 PROVE g[i] = z[i]
      <3> HIDE DEF g
      <3>1. CASE i = 0
        BY <1>7, <3>1
      <3>2. CASE i # 0
        <4>1. i \in 1 .. n - 1
          BY <3>2
        <4> QED
          BY <1>8, <3>2, <4>1
      <3> QED
        BY <3>1, <3>2
    <2>2. g = z
      BY <2>1
    <2> HIDE DEF g
    <2> QED
      BY <2>2 DEF IsDecRounds
  <1>10. IsDecRounds(d, c, dk, n)
    <2> HIDE DEF g
    <2> QED
      BY <1>9, Zenon
  <1> HIDE DEF d
  <1> DEFINE S == {i \in Nat : i < n => d[i] = g[i]}
  <1>11. 0 \in S
    <2>1. 0 \in 0 .. n - 1
      OBVIOUS
    <2>2. d[0] = SymDiff(c, dk[0])
      BY <1>10, <2>1 DEF IsDecRounds
    <2> HIDE DEF g
    <2> QED
      BY <1>7, <2>2
  <1>12. ASSUME NEW i \in Nat, i \in S PROVE i + 1 \in S
    <2> SUFFICES ASSUME i + 1 < n PROVE d[i + 1] = g[i + 1]
      OBVIOUS
    <2> HIDE DEF g
    <2> DEFINE a == i + 1
    <2>1. a \in 1 .. n - 1 /\ a \in 0 .. n - 1 /\ a # 0 /\ a - 1 = i /\ i < n
      OBVIOUS
    <2>2. d[i] = g[i]
      BY <1>12, <2>1
    <2> HIDE DEF a, S
    <2>3. d[a] = aesdec(d[a - 1], dk[a])
      BY <1>10, <2>1 DEF IsDecRounds
    <2>4. g[a] = aesdec(g[a - 1], dk[a])
      BY <1>8, <2>1
    <2>5. d[a] = g[a]
      BY <2>1, <2>2, <2>3, <2>4
    <2> QED
      BY <2>5 DEF a
  <1> HIDE DEF S
  <1>13. Nat \subseteq S
    BY <1>11, <1>12, NatSetInduction
  <1>14. n - 1 \in Nat /\ n - 1 < n /\ n - 1 \in 0 .. n - 1 /\ n - 1 - (n - 1) = 0
    OBVIOUS
  <1>15. d[n - 1] = SubShift(e[0])
    <2>1. g[n - 1] = SubShift(e[n - 1 - (n - 1)])
      BY <1>14
    <2> HIDE DEF g
    <2>2. d[n - 1] = g[n - 1]
      BY <1>13, <1>14 DEF S
    <2> QED
      BY <1>14, <2>1, <2>2
  <1>16. aesdeclast(d[n - 1], dk[n]) = SymDiff(e[0], key[0])
    BY <1>2, <1>15, InvSubShiftIs, Zenon DEF aesdeclast
  <1>17. SymDiff(e[0], key[0]) = m
    BY <1>6, XorCancels
  <1> QED
    BY <1>4, <1>5, <1>16, <1>17, Zenon DEF dk, key

LEMMA RoundKeysAre ==
    ASSUME NEW size \in KeySizes, NEW i \in 0 .. RoundsOfKey(size)
    PROVE  ExpandedKey(size)[i] = RegOf(FipsWords(size), 4 * i)
  <1>1. CASE size = 16
    <2>1. RoundsOfKey(16) = 10 /\ ExpandedKey(16) = expandKey128
      BY DEF RoundsOfKey, RoundNum128, ExpandedKey
    <2> QED
      BY <1>1, <2>1, Expanded128
  <1>2. CASE size = 24
    <2>1. RoundsOfKey(24) = 12 /\ ExpandedKey(24) = expandKey192
      BY DEF RoundsOfKey, RoundNum192, ExpandedKey
    <2> QED
      BY <1>2, <2>1, Expanded192
  <1>3. CASE size = 32
    <2>1. RoundsOfKey(32) = 14 /\ ExpandedKey(32) = expandKey256
      BY DEF RoundsOfKey, RoundNum256, ExpandedKey
    <2> QED
      BY <1>3, <2>1, Expanded256
  <1> QED
    BY <1>1, <1>2, <1>3 DEF KeySizes

\* A key that setup took is of the size its name says.
KeyTaken == \A t \in Threads : pc[t] = "expanded" => job[t].size \in KeySizes

LEMMA KeyTakenInit == Init => KeyTaken
  <1> SUFFICES ASSUME Init, NEW t \in Threads, pc[t] = "expanded" PROVE FALSE
    BY DEF KeyTaken
  <1>1. pc[t] = job[t].kind /\ job \in Jobs
    BY DEF Init
  <1> QED
    BY <1>1, JobsAssumption

LEMMA OnlySetUpKeyExpands ==
    ASSUME CryptoInv, NEW u \in Threads, Step(u), pc'[u] = "expanded", pc[u] # "expanded"
    PROVE  SetUpKey(u)
  <1>1. \A p : GoesTo(u, p) => p = "expanded"
    BY PhaseIs
  <1>2. CASE SetUpEnciphering(u) \/ SetUpDeciphering(u) \/ CallCipher(u)
    BY <1>1, <1>2 DEF SetUpEnciphering, SetUpDeciphering, CallCipher
  <1>3. CASE SetUpFails(u) \/ UpdateFails(u) \/ FinalizeCipher(u)
    BY <1>1, <1>3 DEF SetUpFails, UpdateFails, CipherThrows, FinalizeCipher
  <1>4. CASE UpdateEnciphering(u) \/ UpdateDeciphering(u) \/ UpdateStream(u)
    <2>1. pc' = pc
      BY <1>4 DEF UpdateEnciphering, UpdateDeciphering, UpdateStream
    <2> QED
      BY <2>1
  <1>5. CASE Create(u)
    BY <1>5 DEF Create, CryptoInv, States, Functional
  <1>6. CASE DigestStream(u) \/ DigestAgain(u) \/ DigestVector(u)
    BY <1>1, <1>6 DEF DigestStream, DigestAgain, DigestVector
  <1>7. CASE HashKey(u) \/ TakeKey(u) \/ Inner(u) \/ Outer(u)
    BY <1>1, <1>7 DEF HashKey, TakeKey, Inner, Outer
  <1>8. CASE FirstHash(u) \/ CustomRead(u) \/ ReturnHash(u)
    BY <1>1, <1>8 DEF FirstHash, CustomRead, ReturnHash
  <1>9. CASE Iterate(u) \/ CustomRounds(u) \/ CustomChain(u)
    <2>1. pc' = pc
      BY <1>9 DEF Iterate, CustomRounds, CustomChain, threadVars
    <2> QED
      BY <2>1
  <1> QED
    BY <1>2, <1>3, <1>4, <1>5, <1>6, <1>7, <1>8, <1>9 DEF Step

LEMMA KeyTakenNext == CryptoInv /\ KeyTaken /\ [Next]_vars => KeyTaken'
  <1> SUFFICES ASSUME CryptoInv, KeyTaken, [Next]_vars PROVE KeyTaken'
    OBVIOUS
  <1>1. CASE UNCHANGED vars
    BY <1>1 DEF KeyTaken, vars, threadVars
  <1>2. ASSUME NEW u \in Threads, Step(u), NEW t \in Threads, pc'[t] = "expanded"
        PROVE  job'[t].size \in KeySizes
    <2>1. job' = job /\ (t # u => pc'[t] = pc[t])
      BY <1>2, StepLeaves
    <2>2. CASE pc[t] = "expanded"
      BY <2>1, <2>2 DEF KeyTaken
    <2>3. CASE pc[t] # "expanded"
      <3>1. t = u /\ SetUpKey(t)
        BY <1>2, <2>1, <2>3, OnlySetUpKeyExpands
      <3>2. PICK size \in KeySizes : GoesTo(t, IF size = job[t].size THEN "expanded" ELSE "threw")
        BY <3>1 DEF SetUpKey
      <3>3. pc'[t] = IF size = job[t].size THEN "expanded" ELSE "threw"
        BY <3>2, PhaseIs
      <3> QED
        BY <1>2, <2>1, <3>3
    <2> QED
      BY <2>2, <2>3
  <1> QED
    BY <1>1, <1>2 DEF KeyTaken, Next, AllDone

\* For a key of every size setup takes, and whatever its bytes: the round keys
\* that the instructions make, the four words at a time and of a 192 bit key in
\* halves, are those of FIPS 197, and the converted keys decipher what was
\* enciphered (AesNi of cybozu/aes.hpp, expandKey128 to 256, convertDecKey,
\* encryptBlock and decryptBlock).
THEOREM RoundKeysAreFips197 == Spec => []KeysAreFips197
  <1>1. Init => CryptoInv /\ KeyTaken
    BY CryptoInvInit, KeyTakenInit
  <1>2. CryptoInv /\ KeyTaken /\ [Next]_vars => CryptoInv' /\ KeyTaken'
    BY CryptoInvNext, KeyTakenNext
  <1>3. KeyTaken => KeysAreFips197
    <2> SUFFICES ASSUME KeyTaken, NEW t \in Threads, pc[t] = "expanded"
                 PROVE  LET n == RoundsOfKey(job[t].size)
                            words == FipsWords(job[t].size)
                            key == [i \in 0 .. n |-> RoundKey(i)]
                            text == {<<"text", 0>>}
                        IN  /\ \A i \in 0 .. n : ExpandedKey(job[t].size)[i] =
                                                   [j \in 1 .. 4 |-> words[(4 * i) + j - 1]]
                            /\ decryptBlock(encryptBlock(text, key, n), convertDecKey(key, n), n) = text
      BY DEF KeysAreFips197
    <2> DEFINE size == job[t].size
               n == RoundsOfKey(size)
    <2>1. size \in KeySizes
      BY DEF KeyTaken
    <2>2. n \in Nat \ {0}
      BY <2>1 DEF KeySizes, RoundsOfKey, RoundNum128, RoundNum192, RoundNum256
    <2>3. \A i \in 0 .. n : ExpandedKey(size)[i] = [j \in 1 .. 4 |-> FipsWords(size)[(4 * i) + j - 1]]
      BY <2>1, RoundKeysAre DEF RegOf
    <2>4. LET key == [i \in 0 .. n |-> RoundKey(i)]
              text == {<<"text", 0>>}
          IN  decryptBlock(encryptBlock(text, key, n), convertDecKey(key, n), n) = text
      <3> HIDE DEF n
      <3> QED
        BY <2>2, Deciphers, Zenon
    <2> QED
      BY <2>3, <2>4, Zenon
  <1> QED
    BY <1>1, <1>2, <1>3, PTL DEF Spec
=============================================================================
