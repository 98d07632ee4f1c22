---------------------------- MODULE OfficeCrypto ----------------------------
(***************************************************************************)
(* The two encryptions of an Office file, symbolically: Agile, which the   *)
(* library writes and reads (encode.hpp, decode.hpp, crypto_util.hpp), and *)
(* Standard, which it only reads (standard_encryption.hpp, Office 2007).   *)
(*                                                                         *)
(* A key is the sequence of its 16 byte halves, of which the last one may  *)
(* be short; <<>> is no key.  What is enciphered remembers its key; another*)
(* key deciphers it to noise.  A digest determines what it was made of.    *)
(* Salts are left out: nothing below depends on two files having different *)
(* ones.                                                                   *)
(***************************************************************************)
EXTENDS Integers, Sequences

NoKey == <<>>
Padding == [half |-> "36"]      \* the byte normalizeKey fills up with

\* A half of less than 16 bytes, and what it is filled up to.
ShortHalf == [half : STRING, filled : STRING]
Filled(h) == IF h \in ShortHalf THEN [half |-> h.filled] ELSE h
IsWhole(key) == \A i \in DOMAIN key : key[i] \notin ShortHalf

Halves(bits) == bits \div 128
NormalizeKey(key, n) == [i \in 1 .. n |-> IF i <= Len(key) THEN Filled(key[i]) ELSE Padding]

Noise == [kind |-> "noise"]
Verifier == [kind |-> "verifier"]
Digest(x) == [kind |-> "digest", of |-> x]

Enc(text, key) == [text |-> text, under |-> key]
Dec(c, key) == IF key = c.under THEN c.text ELSE Noise

\* Mutation: the rounds start from the salt alone.
HashPasswordSaltOnly(pass, spin) == [pass |-> "", spin |-> spin]

\* spinCount rounds of the hash from the password on.
HashPassword(pass, spin) == [pass |-> pass, spin |-> spin]
GenerateKey(hash, blockKey, n) ==
    [i \in 1 .. n |-> [hash |-> hash, blockKey |-> blockKey, half |-> i]]
-----------------------------------------------------------------------------
(* Agile: the password opens three ciphertexts, one of them the secret key. *)

VerifierHashInput == "blkKey_VerifierHashInput"
VerifierHashValue == "blkKey_encryptedVerifierHashValue"
KeyValue == "blkKey_encryptedKeyValue"

SKey(pass, spin, blockKey, bits) == GenerateKey(HashPassword(pass, spin), blockKey, Halves(bits))

AgileInfo(pass, key, spin, bits) ==
    [version |-> "4.4", spinCount |-> spin, keyBits |-> bits,
     verifierHashInput |-> Enc(Verifier, SKey(pass, spin, VerifierHashInput, bits)),
     verifierHashValue |-> Enc(Digest(Verifier), SKey(pass, spin, VerifierHashValue, bits)),
     keyValue |-> Enc(key, SKey(pass, spin, KeyValue, bits))]

\* The secret key the password opens; NoKey if it is not the file's password.
GetAgileSecretKey(info, pass) ==
    LET S(blockKey) == SKey(pass, info.spinCount, blockKey, info.keyBits)
    IN  IF Digest(Dec(info.verifierHashInput, S(VerifierHashInput)))
             = Dec(info.verifierHashValue, S(VerifierHashValue))
        THEN Dec(info.keyValue, S(KeyValue)) ELSE NoKey
-----------------------------------------------------------------------------
(* Standard: the key is made from the password, the spin count fixed.  Only *)
(* AES-128: SHA-1's 20 bytes are no key of a longer cipher.                 *)

StandardBits == 128
GetEncryptionKey(pass) == <<[pass |-> pass, spin |-> 50000]>>

StandardInfo(pass) ==
    [version |-> "3.2", spinCount |-> 0, keyBits |-> StandardBits,
     verifier |-> Enc(Verifier, GetEncryptionKey(pass)),
     verifierHash |-> Enc(Digest(Verifier), GetEncryptionKey(pass))]

VerifyStandardEncryption(info, pass) ==
    LET key == GetEncryptionKey(pass)
    IN  IF Digest(Dec(info.verifier, key)) = Dec(info.verifierHash, key) THEN key ELSE NoKey
=============================================================================
