---------------------------- MODULE OfficeFiles -----------------------------
(***************************************************************************)
(* What the library and the command line tools take for a file: how encode *)
(* makes one, what of it decode opens with a password or a key, and what   *)
(* an interrupted write leaves of it.                                      *)
(***************************************************************************)
EXTENDS OfficeCrypto

Empty == [kind |-> "empty"]         \* nothing to read: no file, or opened for writing and no more
Cut == [kind |-> "cut"]             \* the beginning of a compound file
CutDoc == "cut document"
ZipFile(doc) == [kind |-> "zip", doc |-> doc]
Cfb(info, package) == [kind |-> "cfb", info |-> info, package |-> package]

Encoded(content, pass, key, spin, bits) == Cfb(AgileInfo(pass, key, spin, bits), Enc(content, key))
Agile(doc, pass, key, spin, bits) == Encoded(ZipFile(doc), pass, key, spin, bits)
Standard(doc, pass) == Cfb(StandardInfo(pass), Enc(ZipFile(doc), GetEncryptionKey(pass)))

IsAgile(f) == f.kind = "cfb" /\ f.info.version = "4.4"

\* openW truncates a file before it is written.
Begun(content) == IF content.kind = "zip" THEN ZipFile(CutDoc) ELSE Cut
Interrupted(content) == {Empty, Begun(content)}
Flushed(content) == {content} \cup Interrupted(content)

MaxSpin == 10000000
TooManySpins(n) == n > MaxSpin
-----------------------------------------------------------------------------
(* decode *)

\* The key a call starts from: the one it is given, or what the password opens.
KeyFor(f, pass, given) ==
    IF given # NoKey THEN given
    ELSE IF IsAgile(f) THEN GetAgileSecretKey(f.info, pass) ELSE VerifyStandardEncryption(f.info, pass)

\* The key the package is deciphered with: only decodeAgile mends its length.
KeyUsed(f, key) == IF IsAgile(f) THEN NormalizeKey(key, Halves(f.info.keyBits)) ELSE key

\* The cipher refuses a key of another length.
KeyFits(f, key) == Len(KeyUsed(f, key)) = Halves(f.info.keyBits) /\ IsWhole(KeyUsed(f, key))

Deciphered(f, key) == Dec(f.package, KeyUsed(f, key))

\* DetectFormat: decode looks at what it deciphered before it opens the file.
KnownKinds == {"zip", "cfb", "cut", "ole"}
KnowsAll(content) == TRUE
Knows(content) == content.kind \in KnownKinds
=============================================================================
