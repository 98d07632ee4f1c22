----------------------------- MODULE CustomSha1 -----------------------------
(***************************************************************************)
(* The message schedule of CustomSha1 (src/include/custom_sha1.hpp), which *)
(* hashes the 24 bytes of an iteration number and the previous hash again  *)
(* and again.  It keeps 16 slots instead of 80 words, writes each over the *)
(* word 16 rounds older, and leaves out the slots it knows to be zero.     *)
(*                                                                         *)
(* The schedule only xors and rotates, so a word is the set of the words   *)
(* of the block, each with a rotation, that it is the xor of: what is      *)
(* checked of these sets holds of all inputs.  A word of the block is its  *)
(* four bytes.  The rounds' own arithmetic is Sha1's line by line; each    *)
(* lane of a vector of uint32vec.hpp is one such computation.              *)
(***************************************************************************)
EXTENDS HashObject, FiniteSets

VARIABLES
    iteration,  \* iterations done
    round,      \* rounds done in this one
    W,          \* the 16 slots
    fed         \* the word the last round took

customVars == <<iteration, round, W, fed>>

RoundCount == 80
Idle == 81                      \* between two iterations
Slots == 0 .. 15
Locals == 7 .. 14               \* W_07 to W_14, zero words that are never stored

WordOf(bytes) == IF bytes = Zeros(4) THEN {} ELSE {<<bytes, 0>>}
Uninitialised(s) == {<<<<Unset, Unset, Unset, Byte(s)>>, 0>>}
WordsOf(bytes) == [k \in 1 .. Len(bytes) \div 4 |-> WordOf(SubSeq(bytes, (4 * k) - 3, 4 * k))]

\* The xor of the slots S of W, and a rotation by one.
XorOf(w, S) ==
    {x \in UNION {w[s] : s \in S} : Cardinality({s \in S : x \in w[s]}) % 2 = 1}
RotlOne(w) == {<<x[1], (x[2] + 1) % 32>> : x \in w}

CustomInit ==
    /\ iteration = 0 /\ round = Idle
    /\ W = [s \in Slots |-> Uninitialised(s)]
    /\ fed = {}

\* digest reads the first hash into W[1..5].
ReadHash(hash) ==
    /\ iteration' = 0
    /\ W' = [s \in Slots |-> IF s \in 1 .. 5 THEN WordsOf(hash)[s] ELSE W[s]]
    /\ UNCHANGED <<round, fed>>

\* Mutation: the slots of the zero words are read as well.
TermsAlwaysFour(r) == {(r - k) % 16 : k \in {3, 8, 14, 16}}

\* The slots round r xors for its word, in the order of the source's lines.
EarlyTerms ==
    << {2, 0}, {3, 1}, {15, 4, 2}, {0, 5, 3}, {1, 6, 4}, {2, 5}, {3, 6}, {4, 15},
       {5, 0}, {6, 1}, {7, 2}, {8, 3}, {9, 4}, {10, 5, 15}, {11, 6, 0} >>
Terms(r) ==
    IF r <= 30 THEN EarlyTerms[r - 15] ELSE {(r - k) % 16 : k \in {3, 8, 14, 16}}

\* setBE stores the number so that a little-endian machine reads it reversed;
\* digestOnce sets its padding 0x80000000 and 0xc0.
NextBlock ==
    /\ round = Idle
    /\ round' = 0
    /\ W' = [s \in Slots |-> CASE s = 0  -> WordOf(LE32(iteration))
                               [] s = 6  -> WordOf(<<Byte(128), Byte(0), Byte(0), Byte(0)>>)
                               [] s = 15 -> WordOf(<<Byte(0), Byte(0), Byte(0), Byte(192)>>)
                               [] s \in Locals -> Uninitialised(s)
                               [] OTHER -> W[s]]
    /\ UNCHANGED <<iteration, fed>>

TakeWord ==
    /\ round < 16
    /\ fed' = IF round \in Locals THEN {} ELSE W[round]
    /\ round' = round + 1
    /\ UNCHANGED <<iteration, W>>

Expand ==
    /\ round \in 16 .. RoundCount - 1
    /\ fed' = RotlOne(XorOf(W, Terms(round)))
    /\ W' = [W EXCEPT ![round % 16] = fed']
    /\ round' = round + 1
    /\ UNCHANGED iteration

\* The chained sums are the next block's words 1 to 5.
Chain(hash) ==
    /\ round = RoundCount
    /\ W' = [s \in Slots |-> IF s \in 1 .. 5 THEN WordsOf(hash)[s] ELSE W[s]]
    /\ iteration' = iteration + 1
    /\ round' = Idle
    /\ UNCHANGED fed
-----------------------------------------------------------------------------
(* SHA-1's schedule (FIPS 180-4, 6.1.2) of a block: all 80 words. *)
Extended(w) == Append(w, RotlOne(XorOf(w, {Len(w) - k : k \in {2, 7, 13, 15}})))
Schedule(block) ==
    LET upTo[n \in 16 .. RoundCount] == IF n = 16 THEN WordsOf(block) ELSE Extended(upTo[n - 1])
    IN  upTo[RoundCount]
=============================================================================
