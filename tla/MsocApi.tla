------------------------------ MODULE MsocApi -------------------------------
(***************************************************************************)
(* The library's calls (src/msocdll.cpp): a program encrypts and decrypts  *)
(* files, passing an option object it keeps and changes between the calls. *)
(* A decryption writes back into the object what the next call reads.      *)
(*                                                                         *)
(* Keys and ciphers are OfficeCrypto's, files are OfficeFiles'; noise is   *)
(* no ZIP and no compound file.  Every document is longer than the mini    *)
(* stream cutoff, the case in which CfbFile reads back what it writes.     *)
(***************************************************************************)
EXTENDS OfficeFiles

CONSTANTS
    Names,          \* files
    Docs,           \* plain documents
    Passes,         \* passwords
    EmptyPass,      \* the empty one among them
    Generated,      \* halves of keys that FillRand may draw
    GivenKeys,      \* keys a program sets
    SpinCounts,     \* spin counts a program sets
    InitialFiles    \* what may be on the disk at first

NULL == "NULL"
OddLength == [half |-> "odd length"]
BadHex == <<OddLength>>     \* a text fromHex throws at
DefaultSpin == 100000

ASSUME ApiAssumption ==
    /\ NULL \notin Names \cup Passes
    /\ EmptyPass \in Passes
    /\ SpinCounts \subseteq Int

\* What FillRand draws and fromHex returns is a key, and no text that it throws at;
\* what is drawn is whole.
IsKey(k) == Len(k) \in Nat /\ \A i \in 1 .. Len(k) : OddLength \notin {k[i], Filled(k[i])}
ASSUME KeysAssumption ==
    /\ OddLength \notin Generated /\ Generated \cap ShortHalf = {}
    /\ \A k \in GivenKeys : IsKey(k)

\* A file encode made of a document, whoever ran it: its key, of the cipher's
\* length, is enciphered with the password.
IsAgileInfo(info) ==
    LET key == info.keyValue.text
    IN  /\ info.keyBits \in {128, 256}
        /\ IsKey(key) /\ key = NormalizeKey(key, Halves(info.keyBits))
        /\ info = AgileInfo(info.keyValue.under[1].hash.pass, key, info.spinCount, info.keyBits)

IsFile(f) ==
    \/ f \in {Empty, Cut} \/ f.kind = "zip"
    \/ /\ f.kind = "cfb" /\ f.package.text.kind = "zip"
       /\ IsAgile(f) => IsAgileInfo(f.info) /\ f.package.under = f.info.keyValue.text
ASSUME FilesAssumption == \A f \in InitialFiles : IsFile(f)

VARIABLES
    file,       \* the disk
    opt,        \* the option object
    ret         \* what the last call returned

vars == <<file, opt, ret>>

NewOpt == [spinCount |-> DefaultSpin, secretKey |-> NoKey]

Init ==
    /\ file \in [Names -> InitialFiles]
    /\ opt = NewOpt
    /\ ret = "NOERR"

Fails(err) == ret' = err /\ UNCHANGED <<file, opt>>
-----------------------------------------------------------------------------
(* The option object *)

OptCall(o) == opt' = o /\ ret' = "NOERR" /\ UNCHANGED file

CreateOpt == OptCall(NewOpt)
SetSpinCount == \E v \in SpinCounts : OptCall([opt EXCEPT !.spinCount = v])
SetSecretKey == \E k \in GivenKeys \cup {NoKey, BadHex} : OptCall([opt EXCEPT !.secretKey = k])
-----------------------------------------------------------------------------
(* Keys *)

\* The key the object gives, if one is passed and holds one.
Given(withOpt) == IF withOpt THEN opt.secretKey ELSE NoKey

\* Halves no file and no object holds: FillRand draws none twice.
HalvesOf(key) == {key[i] : i \in DOMAIN key}
Undrawn ==
    Generated \ (HalvesOf(opt.secretKey) \cup
                    UNION {HalvesOf(file[n].package.under) : n \in {m \in Names : file[m].kind = "cfb"}})

FillRand(n) == {[i \in 1 .. n |-> g] : g \in Undrawn}
FillRandHalf(n) == {<<g>> : g \in Undrawn}

SecretKeysHalf(given, bits) ==
    {NormalizeKey(k, Halves(bits)) : k \in IF given = NoKey THEN FillRandHalf(Halves(bits)) ELSE {given}}
SecretKeys(given, bits) ==
    {NormalizeKey(k, Halves(bits)) : k \in IF given = NoKey THEN FillRand(Halves(bits)) ELSE {given}}
-----------------------------------------------------------------------------
(* MSOC_encryptA *)

\* openW truncates the file; it or the write may then fail.  A sync or a close
\* that fails afterwards is swallowed by File's destructor: no error is returned,
\* whatever of the content is on the disk.
Write(out, content) ==
    \/ /\ file' \in {[file EXCEPT ![out] = c] : c \in Flushed(content)}
       /\ ret' = "NOERR"
    \/ /\ file' \in {file} \cup {[file EXCEPT ![out] = c] : c \in Interrupted(content)}
       /\ ret' = "EXCEPTION"

EffectiveSpin(withOpt) == IF withOpt /\ opt.spinCount # 0 THEN opt.spinCount ELSE DefaultSpin

EncryptError(out, in, pass, withOpt) ==
    IF pass = NULL THEN "PASS_IS_EMPTY"
    ELSE IF out = NULL THEN "OUTFILE_IS_EMPTY"
    ELSE IF in = NULL THEN "INFILE_IS_EMPTY"
    ELSE IF file[in] = Empty THEN "EXCEPTION"
    ELSE IF file[in].kind # "zip" THEN "ALREADY_ENCRYPTED"
    ELSE IF Given(withOpt) = BadHex \/ TooManySpins(EffectiveSpin(withOpt)) THEN "EXCEPTION"
    ELSE "NOERR"

Encrypt(out, in, pass, withOpt) ==
    LET err == EncryptError(out, in, pass, withOpt) IN
    IF err # "NOERR" THEN Fails(err)
    ELSE /\ \E key \in SecretKeys(Given(withOpt), 256) :
              Write(out, Agile(file[in].doc, pass, key, EffectiveSpin(withOpt), 256))
         /\ UNCHANGED opt
-----------------------------------------------------------------------------
(* MSOC_decryptA: out = NULL only looks whether the file opens             *)

PassData(pass) == IF pass = NULL THEN EmptyPass ELSE pass

DecryptError(in, pass, given) ==
    IF in = NULL THEN "INFILE_IS_EMPTY"
    ELSE IF file[in] = Empty THEN "EXCEPTION"
    ELSE IF file[in].kind = "zip" THEN "ALREADY_DECRYPTED"
    ELSE IF given = BadHex \/ file[in] = Cut THEN "EXCEPTION"
    ELSE IF KeyFor(file[in], PassData(pass), given) = NoKey THEN "BAD_PASSWORD"
    ELSE IF ~ KeyFits(file[in], KeyFor(file[in], PassData(pass), given)) THEN "EXCEPTION"
    ELSE "NOERR"

\* The key a decryption leaves: decodeStandardEncryption has a copy of its own.
KeyLeftGiven(f, pass, given) == given
KeyLeft(f, pass, given) == IF IsAgile(f) THEN KeyUsed(f, KeyFor(f, pass, given)) ELSE given

SetOpt(f, pass, given, withOpt) ==
    opt' = IF withOpt THEN [spinCount |-> f.info.spinCount, secretKey |-> KeyLeft(f, pass, given)]
                      ELSE opt

\* Of a call that writes: an exception on the way leaves the object alone.
SetOptAnyway(f, pass, given, withOpt) == SetOpt(f, pass, given, withOpt)
SetOptAfterWrite(f, pass, given, withOpt) ==
    IF ret' = "NOERR" THEN SetOpt(f, pass, given, withOpt) ELSE UNCHANGED opt

Decrypt(out, in, pass, withOpt) ==
    LET given == Given(withOpt)
        err == DecryptError(in, pass, given)
        f == file[in]
        content == Deciphered(f, KeyFor(f, PassData(pass), given))
    IN  IF err # "NOERR" THEN Fails(err)
        ELSE IF out = NULL THEN ret' = "NOERR" /\ UNCHANGED file /\ SetOpt(f, PassData(pass), given, withOpt)
        ELSE IF ~ Knows(content) THEN Fails("EXCEPTION")
        ELSE /\ Write(out, content)
             /\ SetOptAfterWrite(f, PassData(pass), given, withOpt)
-----------------------------------------------------------------------------
MaybeNames == Names \cup {NULL}
MaybePasses == Passes \cup {NULL}

Next ==
    \/ CreateOpt
    \/ SetSpinCount
    \/ SetSecretKey
    \/ \E out \in MaybeNames, in \in MaybeNames, pass \in MaybePasses, withOpt \in BOOLEAN :
            Encrypt(out, in, pass, withOpt) \/ Decrypt(out, in, pass, withOpt)

Spec == Init /\ [][Next]_vars
-----------------------------------------------------------------------------
(* Properties *)


\* A call that returns an error leaves the option object as it was, and, unless
\* the error is an exception, the disk.
ErrorLeavesOpt ==
    [][ret' # "NOERR" => opt' = opt /\ (ret' # "EXCEPTION" => file' = file)]_vars

\* A decryption that returns no error has written the document, or as much of it
\* as a failed flush left: what a wrong key makes of it never reaches the disk.
DecryptGivesPlain ==
    [][ret' = "NOERR" =>
        \A out \in Names, in \in Names, pass \in MaybePasses, withOpt \in BOOLEAN :
            Decrypt(out, in, pass, withOpt) => file'[out] \in Flushed(file[in].package.text)]_vars

\* A key the program did not give is random in both its halves and no other
\* file's: the library once drew 16 bytes for AES-256 and padded them.
GeneratedKeyIsFull ==
    [][ret' = "NOERR" =>
        \A out \in Names, in \in Names, pass \in Passes, withOpt \in BOOLEAN :
            Given(withOpt) = NoKey /\ Encrypt(out, in, pass, withOpt) /\ file'[out].kind = "cfb" =>
                HalvesOf(file'[out].package.under) \subseteq Undrawn]_vars

\* What MSOC_encryptA writes, its password opens, to the key the document is
\* under, and no other password does, whatever key and spin count it was given.
OnlyPassOpens ==
    [][\A out \in Names : ret' = "NOERR" /\ file'[out] # file[out] /\ IsAgile(file'[out]) =>
        \A in \in Names, pass \in Passes, withOpt \in BOOLEAN :
            Encrypt(out, in, pass, withOpt) =>
                \A p \in Passes :
                    KeyFor(file'[out], p, NoKey) = IF p = pass THEN file'[out].package.under ELSE NoKey]_vars

\* What a decryption leaves in the object, of either kind of file and of a call
\* that only looks too.  "secretKey will be set if it is empty" (decode.hpp:186)
\* is so of an Agile file only: of an Office 2007 file the object stays without a
\* key, as decodeStandardEncryption has a copy of its own (decode.hpp:153).  A key
\* the object does hold is one fromHex reads and the cipher takes; and unless the
\* call looked at a file with a key it was given, it opens that file.
KeyInOptOpens ==
    [][ret' = "NOERR" =>
        \A out \in MaybeNames, in \in Names, pass \in MaybePasses :
            Decrypt(out, in, pass, TRUE) =>
                LET key == opt'.secretKey
                    f == file[in]
                IN  /\ key = NoKey <=> ~ IsAgile(f) /\ opt.secretKey = NoKey
                    /\ key # NoKey => key # BadHex /\ KeyFits(f, key)
                    /\ key # NoKey /\ (out # NULL \/ opt.secretKey = NoKey) =>
                            Deciphered(f, key) = f.package.text]_vars

\* "secretKey of opt is used if pass is NULL" (msoc.h): with a password, the
\* file opens by the file's password only.  A key left in the object by an
\* earlier call is used all the same, and no password is looked at.
PassDecides ==
    [][\A out \in MaybeNames, in \in Names, pass \in Passes, withOpt \in BOOLEAN :
        Decrypt(out, in, pass, withOpt) /\ ret' = "NOERR" =>
            KeyFor(file[in], pass, NoKey) # NoKey]_vars
=============================================================================
