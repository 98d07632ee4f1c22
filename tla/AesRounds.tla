----------------------------- MODULE AesRounds -----------------------------
(***************************************************************************)
(* AES with the instructions of the processor (AesNi of cybozu/aes.hpp):   *)
(* the round keys of keys of 128, 192 and 256 bits, their conversion for   *)
(* deciphering, and the rounds of a block.                                 *)
(*                                                                         *)
(* Nothing here depends on the bytes of a key or of a block, so they are   *)
(* symbols: a word of a round key and a block are the sets of the terms    *)
(* they are the xor of, <<name, argument>>, and what holds of the sets     *)
(* holds of all keys and blocks.  The instructions are the processor's:    *)
(* the substitution is only known to have an inverse, and the mixing of    *)
(* columns to be linear as well.                                           *)
(***************************************************************************)
EXTENDS Integers, Sequences, FiniteSetsExt

RoundNum128 == 10
RoundNum192 == 12
RoundNum256 == 14
KeySizes == {16, 24, 32}
RoundsOfKey(size) == CASE size = 16 -> RoundNum128 [] size = 24 -> RoundNum192 [] OTHER -> RoundNum256
-----------------------------------------------------------------------------
(* A register is its four words, the lowest first. *)

XorReg(x, y) == [j \in 1 .. 4 |-> SymDiff(x[j], y[j])]
Slli4(x) == <<{}, x[1], x[2], x[3]>>
Broadcast(x, j) == [i \in 1 .. 4 |-> x[j + 1]]
LowHalves(x, y) == <<x[1], x[2], y[1], y[2]>>
HighThenLow(x, y) == <<x[3], x[4], y[1], y[2]>>

Sub(w) == {<<"sub", w>>}
RotSub(w, rcon) == {<<"rotsub", w>>} \cup (IF rcon = 0 THEN {} ELSE {<<"rcon", rcon>>})
KeyGenAssist(x, rcon) == <<Sub(x[2]), RotSub(x[2], rcon), Sub(x[4]), RotSub(x[4], rcon)>>

\* The words of the key from the n-th on.
KeyWord(n) == {<<"key", n>>}
Load(n) == [j \in 1 .. 4 |-> KeyWord(n + j - 1)]
LoadLow(n) == <<KeyWord(n), KeyWord(n + 1), {}, {}>>

Spread(x) == XorReg(x, Slli4(x))
nextKey(key, t) == XorReg(Spread(Spread(Spread(key))), t)

Rcon == <<1, 2, 4, 8, 16, 32, 64, 128, 27, 54>>

expandKey128 ==
    LET key[i \in 0 .. RoundNum128] ==
            IF i = 0 THEN Load(0)
            ELSE LET last == key[i - 1]
                 IN  nextKey(last, Broadcast(KeyGenAssist(last, Rcon[i]), 3))
    IN  key

\* t1 and t3 after n calls of assist192; key_[i] is put together of halves.
expandKey192 ==
    LET t[n \in 0 .. 8] ==
            IF n = 0 THEN <<Load(0), LoadLow(4)>>
            ELSE LET last == t[n - 1]
                     t1 == nextKey(last[1], Broadcast(KeyGenAssist(last[2], Rcon[n]), 1))
                 IN  <<t1, XorReg(Spread(last[2]), Broadcast(t1, 3))>>
    IN  [i \in 0 .. RoundNum192 |->
            LET n == 2 * (i \div 3)
            IN  CASE i % 3 = 0 -> t[n][1]
                  [] i % 3 = 1 -> LowHalves(t[n][2], t[n + 1][1])
                  [] OTHER     -> HighThenLow(t[n + 1][1], t[n + 1][2])]

\* Every second key is made without a rotation and a constant.
expandKey256 ==
    LET key[i \in 0 .. RoundNum256] ==
            IF i < 2 THEN Load(4 * i)
            ELSE LET assisted == KeyGenAssist(key[i - 1], IF i % 2 = 0 THEN Rcon[i \div 2] ELSE 0)
                 IN  nextKey(key[i - 2], Broadcast(assisted, IF i % 2 = 0 THEN 3 ELSE 2))
    IN  key

ExpandedKey(size) == CASE size = 16 -> expandKey128 [] size = 24 -> expandKey192 [] OTHER -> expandKey256
-----------------------------------------------------------------------------
(* The rounds.  A round key is one symbol here. *)

RoundKey(i) == {<<"round key", i>>}

SubShift(x) == {<<"sub", x>>}
InvSubShift(x) == IF \E y \in x : x = {y} /\ y[1] = "sub" THEN (CHOOSE y \in x : TRUE)[2]
                  ELSE {<<"unsub", x>>}
Mix(x) == {IF y[1] = "unmix" THEN y[2] ELSE <<"mix", y>> : y \in x}
InvMix(x) == {IF y[1] = "mix" THEN y[2] ELSE <<"unmix", y>> : y \in x}

aesenc(m, k) == SymDiff(Mix(SubShift(m)), k)
aesenclast(m, k) == SymDiff(SubShift(m), k)
aesdec(m, k) == SymDiff(InvMix(InvSubShift(m)), k)
aesdeclast(m, k) == SymDiff(InvSubShift(m), k)

\* Mutation: the key in the middle has no partner to be exchanged with.
ConvertPairs(key, n) ==
    [i \in 0 .. n |-> IF i \in {0, n} THEN key[n - i] ELSE IF 2 * i = n THEN key[i] ELSE InvMix(key[n - i])]

convertDecKey(key, n) ==
    [i \in 0 .. n |-> IF i \in {0, n} THEN key[n - i] ELSE InvMix(key[n - i])]

encryptBlock(m, key, n) ==
    LET after[i \in 0 .. n - 1] ==
            IF i = 0 THEN SymDiff(m, key[0]) ELSE aesenc(after[i - 1], key[i])
    IN  aesenclast(after[n - 1], key[n])
decryptBlock(m, key, n) ==
    LET after[i \in 0 .. n - 1] ==
            IF i = 0 THEN SymDiff(m, key[0]) ELSE aesdec(after[i - 1], key[i])
    IN  aesdeclast(after[n - 1], key[n])
-----------------------------------------------------------------------------
(* FIPS 197, 5.2: the words of the expanded key, one after the other. *)

FipsRcon[j \in 1 .. 10] ==
    IF j = 1 THEN 1
    ELSE LET last == FipsRcon[j - 1] IN IF last < 128 THEN 2 * last ELSE ((2 * last) - 256) + 27

FipsWords(size) ==
    LET nk == size \div 4
        w[i \in 0 .. (4 * RoundsOfKey(size)) + 3] ==
            IF i < nk THEN KeyWord(i)
            ELSE LET temp == w[i - 1]
                 IN  SymDiff(w[i - nk],
                             CASE i % nk = 0            -> RotSub(temp, FipsRcon[i \div nk])
                               [] nk > 6 /\ i % nk = 4 -> Sub(temp)
                               [] OTHER                 -> temp)
    IN  w
=============================================================================
