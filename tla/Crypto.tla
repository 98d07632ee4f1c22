------------------------------- MODULE Crypto ------------------------------
(***************************************************************************)
(* The digests and the cipher of the library: threads that use             *)
(* crypto::Hash and crypto::Hmac (cybozu/crypto.hpp) in every way it does, *)
(* on the objects of HashObject; ms::hashPassword (crypto_util.hpp) in     *)
(* both builds, with Hash alone and with CustomSha1; and crypto::Cipher    *)
(* (cybozu/aes.hpp) of module CipherObject, piece by piece and by          *)
(* ms::cipher.  In a Windows build the threads share the provider of       *)
(* BCryptAlg.                                                              *)
(*                                                                         *)
(* Equal blocks give equal digests and other blocks others: a digest is    *)
(* known by the place of its blocks in known.                              *)
(***************************************************************************)
EXTENDS CustomSha1, BCryptAlg, ShaRounds, CipherObject, AesRounds

CONSTANTS
    Jobs            \* what each thread has to do, functions of Threads: see the actions

ASSUME JobsAssumption ==
    \A j \in Jobs, t \in Threads :
        /\ j[t].kind \in {"stream", "vector", "hmac", "password", "custom", "keys", "cipher", "call", "done"}
        /\ j[t].alg \in Names
        /\ j[t].kind = "stream" => j[t].lengths \subseteq Nat
        /\ j[t].kind = "vector" => j[t].message \in Seq(Nat)
        /\ j[t].kind \in {"hmac", "password", "custom"} => j[t].text \in Nat
        /\ j[t].kind = "hmac" => j[t].key \in Nat
        /\ j[t].kind = "custom" => j[t].alg = "SHA1"
        /\ j[t].kind \in {"cipher", "call"} =>
            /\ j[t].mode \in Modes /\ j[t].lengths \subseteq Nat /\ j[t].ivLen \in Nat
            /\ j[t].mode = "CTR" => j[t].counter \in Seq(0 .. Radix - 1)

\* A thread has a CustomSha1 of its own: the one modelled is that of one thread.
ASSUME OneCustomAssumption ==
    \A j \in Jobs : \A t, u \in Threads : j[t].kind = "custom" /\ j[u].kind = "custom" => t = u

\* And a Cipher of its own, likewise.
ASSUME OneCipherAssumption ==
    \A j \in Jobs : \A t, u \in Threads :
        j[t].kind \in {"cipher", "call"} /\ j[u].kind \in {"cipher", "call"} => t = u

VARIABLES
    job,            \* of each thread
    obj,            \* its Hash, or hmac's object
    pc, asked,      \* where it is; the bytes the digest is to be made of
    pieces, k,      \* pieces fed so far; hmac's padded key, or what was enciphered
    out,            \* the digest it holds, 0 for none
    known           \* the blocks of all digests so far

threadVars == <<job, obj, pc, asked, pieces, k, out, known>>
vars == <<threadVars, algVars, customVars, cipherVars>>

Init ==
    /\ AlgInit /\ CustomInit /\ CipherInit
    /\ job \in Jobs
    /\ obj = [t \in Threads |-> New(job[t].alg, job[t].build)]
    /\ pc = [t \in Threads |-> job[t].kind]
    /\ asked = [t \in Threads |-> << >>] /\ pieces = [t \in Threads |-> 0]
    /\ k = [t \in Threads |-> << >>] /\ out = [t \in Threads |-> 0]
    /\ known = << >>
-----------------------------------------------------------------------------
Alg(t) == job[t].alg

\* createHash comes first in a Windows build.
Ready(t) == job[t].build = "bcrypt" => obj[t].live
Create(t) ==
    /\ job[t].build = "bcrypt" /\ ~obj[t].live /\ pc[t] \notin {"done", "threw"}
    /\ AlgStep(t)
    /\ obj' = [obj EXCEPT ![t].live = (apc'[t] = "hash")]
    /\ pc' = [pc EXCEPT ![t] = IF apc'[t] = "idle" THEN "threw" ELSE @]
    /\ UNCHANGED <<job, asked, pieces, k, out, known, customVars, cipherVars>>
Finished(t) == IF job[t].build = "bcrypt" THEN DestroyHash(t) ELSE UNCHANGED algVars

Known(chain) == IF \E n \in DOMAIN known : known[n] = chain
                THEN CHOOSE n \in DOMAIN known : known[n] = chain ELSE Len(known) + 1
Knows(chain) == known' = IF Known(chain) > Len(known) THEN Append(known, chain) ELSE known
DigestBytes(t, id) == [n \in 1 .. OutByteSize(Alg(t)) |-> DigestByte(id, n)]

Feed(t, bytes) ==
    /\ Ready(t)
    /\ obj' = [obj EXCEPT ![t] = Update(@, bytes)]
    /\ UNCHANGED <<job, out, known, algVars, customVars, cipherVars>>

\* Mutation: digest leaves the object as it is.
AfterDigestNothing(o) == o

\* Hash::digest resets the object, and hmac clears its own.
AfterDigest(o) == Clear(o)

TakeDigest(t, o, bytes) ==
    LET digest == Digest(o, bytes)
    IN  /\ Ready(t)
        /\ out' = [out EXCEPT ![t] = Known(digest.chain)]
        /\ Knows(digest.chain)
        /\ obj' = [obj EXCEPT ![t] = AfterDigest(digest.after)]
        /\ Finished(t)
        /\ UNCHANGED <<job, customVars, cipherVars>>

Asks(t, bytes) == asked' = [asked EXCEPT ![t] = bytes]
GoesTo(t, to) == pc' = [pc EXCEPT ![t] = to]

\* The next n bytes of the thread's message.
Fresh(t, n) == [b \in 1 .. n |-> MessageByte(Len(asked[t]) + b)]
-----------------------------------------------------------------------------
(* A message in pieces, and a second, shorter one with the same object.     *)

UpdateStream(t) ==
    /\ pc[t] = "stream" /\ pieces[t] < job[t].pieces
    /\ \E n \in job[t].lengths :
        /\ Feed(t, Fresh(t, n))
        /\ Asks(t, asked[t] \o Fresh(t, n))
    /\ pieces' = [pieces EXCEPT ![t] = @ + 1]
    /\ UNCHANGED <<pc, k>>

DigestStream(t) ==
    /\ pc[t] = "stream"
    /\ \E n \in job[t].lengths :
        /\ TakeDigest(t, obj[t], Fresh(t, n))
        /\ Asks(t, asked[t] \o Fresh(t, n))
    /\ GoesTo(t, "again")
    /\ UNCHANGED <<pieces, k>>

DigestAgain(t) ==
    /\ pc[t] = "again"
    /\ Asks(t, [b \in 1 .. 3 |-> MessageByte(1000 + b)])
    /\ TakeDigest(t, obj[t], [b \in 1 .. 3 |-> MessageByte(1000 + b)])
    /\ GoesTo(t, "done")
    /\ UNCHANGED <<pieces, k>>

\* One of the published examples.
DigestVector(t) ==
    /\ pc[t] = "vector"
    /\ LET bytes == [b \in DOMAIN job[t].message |-> Byte(job[t].message[b])]
       IN  TakeDigest(t, obj[t], bytes) /\ Asks(t, bytes)
    /\ GoesTo(t, "done")
    /\ UNCHANGED <<pieces, k>>
-----------------------------------------------------------------------------
(* hmac.  asked is what RFC 2104 digests: H(K ^ opad, H(K ^ ipad, text)).   *)

Key(t) == [b \in 1 .. job[t].key |-> MessageByte(2000 + b)]
Text(t) == [b \in 1 .. job[t].text |-> MessageByte(b)]
Filled(t, bytes) == bytes \o Zeros(BlockSize(Alg(t)) - Len(bytes))

TooLong(t) == job[t].key > BlockSize(Alg(t))

HashKey(t) ==
    /\ pc[t] = "hmac" /\ TooLong(t)
    /\ Asks(t, Key(t))
    /\ TakeDigest(t, obj[t], Key(t))
    /\ k' = [k EXCEPT ![t] = DigestBytes(t, Known(Digest(obj[t], Key(t)).chain))]
    /\ GoesTo(t, "inner")
    /\ UNCHANGED pieces

TakeKey(t) ==
    /\ pc[t] = "hmac" /\ ~TooLong(t)
    /\ k' = [k EXCEPT ![t] = Key(t)]
    /\ GoesTo(t, "inner")
    /\ UNCHANGED <<job, obj, asked, pieces, out, known, algVars, customVars, cipherVars>>

RfcKey(t) ==
    Filled(t, IF job[t].key > BlockSize(Alg(t)) THEN DigestBytes(t, Known(FipsBlocks(Alg(t), Key(t))))
              ELSE Key(t))

\* The bytes of the key are xored, those after it set.
InnerKey(t) ==
    Masked(k[t], {"ipad"}) \o Masked(Zeros(BlockSize(Alg(t)) - Len(k[t])), {"ipad"})

Inner(t) ==
    /\ pc[t] = "inner"
    /\ Asks(t, Masked(RfcKey(t), {"ipad"}) \o Text(t))
    /\ TakeDigest(t, Update(obj[t], InnerKey(t)), Text(t))
    /\ k' = [k EXCEPT ![t] = Masked(InnerKey(t), {"ipad", "opad"})]
    /\ GoesTo(t, "outer")
    /\ UNCHANGED pieces

Outer(t) ==
    /\ pc[t] = "outer"
    /\ Asks(t, Masked(RfcKey(t), {"opad"}) \o DigestBytes(t, out[t]))
    /\ TakeDigest(t, Update(obj[t], k[t]), DigestBytes(t, out[t]))
    /\ GoesTo(t, "done")
    /\ UNCHANGED <<pieces, k>>
-----------------------------------------------------------------------------
(* hashPassword: pieces counts the iterations. *)

FirstHash(t) ==
    /\ pc[t] \in {"password", "custom"}
    /\ Asks(t, Text(t))
    /\ TakeDigest(t, obj[t], Text(t))
    /\ GoesTo(t, IF pc[t] = "custom" THEN "read" ELSE "iterate")
    /\ UNCHANGED <<pieces, k>>

Iterated(t, n) == LE32(n) \o DigestBytes(t, out[t])

Iterate(t) ==
    /\ pc[t] = "iterate" /\ pieces[t] < job[t].spin
    /\ Asks(t, Iterated(t, pieces[t]))
    /\ TakeDigest(t, Update(obj[t], LE32(pieces[t])), DigestBytes(t, out[t]))
    /\ pieces' = [pieces EXCEPT ![t] = @ + 1]
    /\ UNCHANGED <<pc, k>>

CustomRead(t) ==
    /\ pc[t] = "read"
    /\ ReadHash(DigestBytes(t, out[t]))
    /\ GoesTo(t, "spin")
    /\ UNCHANGED <<job, obj, asked, pieces, k, out, known, algVars, cipherVars>>

CustomRounds(t) ==
    /\ pc[t] = "spin" /\ iteration < job[t].spin
    /\ NextBlock \/ TakeWord \/ Expand
    /\ UNCHANGED <<threadVars, algVars, cipherVars>>

\* The block that the other build hashes in this iteration.
IteratedBlock(t) ==
    Digest(Update(New("SHA1", "portable"), LE32(iteration)), DigestBytes(t, out[t])).chain

\* Its words went through the rounds, so this is its digest.
CustomChain(t) ==
    /\ pc[t] = "spin" /\ round = RoundCount
    /\ Asks(t, Iterated(t, iteration))
    /\ out' = [out EXCEPT ![t] = Known(IteratedBlock(t))]
    /\ Knows(IteratedBlock(t))
    /\ Chain(DigestBytes(t, out'[t]))
    /\ UNCHANGED <<job, obj, pc, pieces, k, algVars, cipherVars>>

SpunEnough(t) ==
    \/ pc[t] = "iterate" /\ pieces[t] = job[t].spin
    \/ pc[t] = "spin" /\ iteration = job[t].spin
ReturnHash(t) ==
    /\ SpunEnough(t)
    /\ GoesTo(t, "done")
    /\ UNCHANGED <<job, obj, asked, pieces, k, out, known, algVars, customVars, cipherVars>>
-----------------------------------------------------------------------------
(* crypto::Cipher: a text goes through in pieces, and what came out comes  *)
(* back through the same object in other pieces.                           *)

CipherStep == UNCHANGED <<job, obj, out, known, algVars, customVars>>

\* setup refuses a key of another size than the name's.
SetUpKey(t) ==
    /\ pc[t] = "keys"
    /\ \E size \in KeySizes : GoesTo(t, IF size = job[t].size THEN "expanded" ELSE "threw")
    /\ CipherStep /\ UNCHANGED <<asked, pieces, k, cipherVars>>

CipherThrows(t) ==
    /\ GoesTo(t, "threw")
    /\ CipherStep /\ UNCHANGED <<asked, pieces, k, cipherVars>>

\* A counter, or bytes nobody knows.
Iv(t) == IF job[t].mode = "CTR" THEN job[t].counter ELSE [j \in 1 .. job[t].ivLen |-> {<<"iv", << >>, j>>}]

SetUpEnciphering(t) ==
    /\ pc[t] = "cipher"
    /\ SetUp(NewCipher(job[t].mode, job[t].build), TRUE, Iv(t))
    /\ GoesTo(t, "encipher")
    /\ CipherStep /\ UNCHANGED <<asked, pieces, k>>

\* The vector is too short, or bcrypt cannot make the provider or the key.
SetUpFails(t) ==
    /\ pc[t] \in {"cipher", "call"}
    /\ ~IvFits(job[t].mode, Iv(t)) \/ job[t].build = "cng"
    /\ CipherThrows(t)

\* The next n bytes of a text.
TextFrom(at, n) == [b \in 1 .. n |-> {<<"text", << >>, at + b>>}]

UpdateEnciphering(t) ==
    /\ pc[t] = "encipher" /\ pieces[t] < job[t].pieces
    /\ \E n \in job[t].lengths : GiveCipher(TextFrom(Len(given), n))
    /\ pieces' = [pieces EXCEPT ![t] = @ + 1]
    /\ CipherStep /\ UNCHANGED <<pc, asked, k>>

\* update returns -1 if bcrypt fails; the callers throw.
UpdateFails(t) ==
    /\ pc[t] \in {"encipher", "decipher"} /\ job[t].build = "cng"
    /\ CipherThrows(t)

\* The same object is set up for deciphering, whatever waits in it.
SetUpDeciphering(t) ==
    /\ pc[t] = "encipher" /\ pieces[t] = job[t].pieces
    /\ SetUp(cipher, FALSE, Iv(t))
    /\ asked' = [asked EXCEPT ![t] = given]
    /\ k' = [k EXCEPT ![t] = made]
    /\ GoesTo(t, "decipher")
    /\ CipherStep /\ UNCHANGED pieces

\* A piece of it, or all the rest.
UpdateDeciphering(t) ==
    LET rest == SubSeq(k[t], Len(given) + 1, Len(k[t]))
    IN  /\ pc[t] = "decipher" /\ rest # << >>
        /\ \E n \in job[t].lengths \cup {Len(rest)} :
            /\ n \in 1 .. Len(rest)
            /\ GiveCipher(SubSeq(rest, 1, n))
        /\ CipherStep /\ UNCHANGED <<pc, asked, pieces, k>>

FinalizeCipher(t) ==
    /\ pc[t] = "decipher" /\ Len(given) = Len(k[t])
    /\ GoesTo(t, IF FinalizeFails(cipher) THEN "threw" ELSE "done")
    /\ CipherStep /\ UNCHANGED <<asked, pieces, k, cipherVars>>

\* ms::cipher: whole cells, and the rest filled up with zeros, as one more.
CallCipher(t) ==
    /\ pc[t] = "call" /\ IvFits(job[t].mode, Iv(t))
    /\ \E n \in job[t].lengths :
        LET text == TextFrom(0, n)
            whole == SubSeq(text, 1, (n \div CellSize) * CellSize)
            last == [b \in 1 .. CellSize |-> IF Len(whole) + b <= n THEN text[Len(whole) + b] ELSE {}]
            more == n % CellSize # 0
            ready == SetUpCipher(NewCipher(job[t].mode, job[t].build), TRUE, Iv(t))
            first == UpdatedCipher(ready, whole)
            second == UpdatedCipher(first.object, last)
        IN  /\ cipher' = IF more THEN second.object ELSE first.object
            /\ made' = first.out \o (IF more THEN second.out ELSE << >>)
            /\ given' = whole \o (IF more THEN last ELSE << >>)
    /\ GoesTo(t, "done")
    /\ CipherStep /\ UNCHANGED <<asked, pieces, k>>
-----------------------------------------------------------------------------
Step(t) ==
    \/ SetUpKey(t) \/ SetUpEnciphering(t) \/ SetUpFails(t) \/ UpdateEnciphering(t) \/ UpdateFails(t)
    \/ SetUpDeciphering(t) \/ UpdateDeciphering(t) \/ FinalizeCipher(t) \/ CallCipher(t)
    \/ Create(t) \/ UpdateStream(t) \/ DigestStream(t) \/ DigestAgain(t) \/ DigestVector(t)
    \/ HashKey(t) \/ TakeKey(t) \/ Inner(t) \/ Outer(t)
    \/ FirstHash(t) \/ Iterate(t) \/ CustomRead(t) \/ CustomRounds(t) \/ CustomChain(t) \/ ReturnHash(t)

AllDone == (\A t \in Threads : pc[t] \in {"done", "threw", "expanded"}) /\ UNCHANGED vars

Next == (\E t \in Threads : Step(t)) \/ AllDone
Spec == Init /\ [][Next]_vars
-----------------------------------------------------------------------------
\* However a message is cut into pieces, whichever library digests them, and
\* whatever the object digested before: a digest is that of the bytes it was
\* asked for, and an HMAC is RFC 2104's.
DigestOfItsBytes ==
    \A t \in Threads : out[t] # 0 => known[out[t]] = FipsBlocks(Alg(t), asked[t])

\* hash_test.cpp compares the two builds of hashPassword on one password: every
\* round of CustomSha1 takes the word that SHA-1 takes of the block the other
\* build hashes, although slots are overwritten while later rounds need their
\* neighbours and eight locals are not initialised.
PathsAgree ==
    \A t \in Threads : pc[t] = "spin" /\ round \in 1 .. RoundCount =>
        fed = Schedule(IteratedBlock(t)[1])[round]

\* The digests of the published examples, bit by bit.
DigestsAreFips ==
    \A t \in Threads : job[t].kind = "vector" /\ pc[t] = "done" =>
        DigestWords(Alg(t), [n \in DOMAIN known[out[t]] |->
            [b \in DOMAIN known[out[t]][n] |-> known[out[t]][n][b][2]]]) = Words(job[t].words)

\* For every key: the round keys are those of FIPS 197, and what is deciphered
\* with the converted keys is what was enciphered.
KeysAreFips197 ==
    \A t \in Threads : pc[t] = "expanded" =>
        LET n == RoundsOfKey(job[t].size)
            words == FipsWords(job[t].size)
            key == [i \in 0 .. n |-> RoundKey(i)]
            text == {<<"text", 0>>}
        IN  /\ \A i \in 0 .. n : ExpandedKey(job[t].size)[i] = [j \in 1 .. 4 |-> words[(4 * i) + j - 1]]
            /\ decryptBlock(encryptBlock(text, key, n), convertDecKey(key, n), n) = text

\* However a text is cut into pieces, and whatever an earlier use left in the
\* object, what was made so far is the mode's, nothing given is lost but an
\* open cell at the end, and what comes back is the text.
CipherIsItsMode ==
    \A t \in Threads : job[t].kind \in {"cipher", "call"} /\ pc[t] \in {"encipher", "decipher", "done"} =>
        /\ made = ByTheMode(cipher.mode, cipher.enc, Iv(t), given)
        /\ Len(given) - Len(made) = Len(cipher.buf) /\ Len(cipher.buf) < CellSize
        /\ ~cipher.enc => IsPrefix(made, asked[t])
=============================================================================
