--------------------------- MODULE MsocApiProofs ----------------------------
(***************************************************************************)
(* The library's calls for every set of files, documents, passwords, keys  *)
(* and spin counts: what an error leaves, what a key is made of, and what  *)
(* opens an encrypted file.  Then the stream these files begin with: that  *)
(* its end is missing does not go unnoticed.                               *)
(*                                                                         *)
(* The former speak of one step each.  Most need no more of the state than *)
(* that the disk has a content under every name, and no other (Disk); that *)
(* the key left in the object opens the file again needs what the files    *)
(* and the object hold as well (KInv).                                     *)
(*                                                                         *)
(* The latter is over the whole of reading: the reader is at one of the    *)
(* few places the text begins with, or inside the root's tag (Reading),    *)
(* and that tag is closed by the last token but one, which is missing.     *)
(***************************************************************************)
EXTENDS MsocApi, EncryptionInfo, FiniteSetTheorems, SequenceTheorems, WellFoundedInduction, TLAPS

Disk == file = [n \in Names |-> file[n]]

\* A call that ends without an error has written what a flush left of the content.
LEMMA WriteFacts ==
    ASSUME Disk, NEW out \in Names, NEW content, Write(out, content)
    PROVE  /\ Disk'
           /\ ret' \in {"NOERR", "EXCEPTION"}
           /\ ret' = "NOERR" => file'[out] \in Flushed(content)
  <1>1. \A c : [file EXCEPT ![out] = c] = [n \in Names |-> IF n = out THEN c ELSE file[n]]
    BY DEF Disk
  <1>2. CASE file' \in {[file EXCEPT ![out] = c] : c \in Flushed(content)} /\ ret' = "NOERR"
    <2>1. PICK c \in Flushed(content) : file' = [file EXCEPT ![out] = c]
      BY <1>2
    <2> QED
      BY <1>1, <1>2, <2>1 DEF Disk
  <1>3. CASE /\ file' \in {file} \cup {[file EXCEPT ![out] = c] : c \in Interrupted(content)}
             /\ ret' = "EXCEPTION"
    BY <1>1, <1>3 DEF Disk
  <1> QED
    BY <1>2, <1>3 DEF Write

\* The errors that stop a call before it writes.
LEMMA EncryptErrors ==
    ASSUME NEW out, NEW in, NEW pass, NEW withOpt
    PROVE  EncryptError(out, in, pass, withOpt) \in
               {"NOERR", "PASS_IS_EMPTY", "OUTFILE_IS_EMPTY", "INFILE_IS_EMPTY", "ALREADY_ENCRYPTED", "EXCEPTION"}
  BY DEF EncryptError

LEMMA EncryptFacts ==
    ASSUME Disk, NEW out \in MaybeNames, NEW in, NEW pass, NEW withOpt, Encrypt(out, in, pass, withOpt)
    PROVE  /\ Disk' /\ opt' = opt
           /\ ret' \notin {"NOERR", "EXCEPTION"} => file' = file
           /\ ret' = "NOERR" =>
                /\ out \in Names
                /\ EncryptError(out, in, pass, withOpt) = "NOERR"
                /\ \E key \in SecretKeys(Given(withOpt), 256) :
                      file'[out] \in Flushed(Agile(file[in].doc, pass, key, EffectiveSpin(withOpt), 256))
  <1>1. CASE EncryptError(out, in, pass, withOpt) # "NOERR"
    BY <1>1 DEF Encrypt, Fails, Disk
  <1>2. CASE EncryptError(out, in, pass, withOpt) = "NOERR"
    <2>1. out \in Names
      BY <1>2 DEF EncryptError, MaybeNames
    <2>2. PICK key \in SecretKeys(Given(withOpt), 256) :
             Write(out, Agile(file[in].doc, pass, key, EffectiveSpin(withOpt), 256))
      BY <1>2 DEF Encrypt
    <2>3. opt' = opt
      BY <1>2 DEF Encrypt
    <2> QED
      BY <1>2, <2>1, <2>2, <2>3, WriteFacts
  <1> QED
    BY <1>1, <1>2

LEMMA DecryptFacts ==
    ASSUME Disk, NEW out \in MaybeNames, NEW in, NEW pass, NEW withOpt, Decrypt(out, in, pass, withOpt)
    PROVE  /\ Disk'
           /\ ret' # "NOERR" => opt' = opt
           /\ ret' \notin {"NOERR", "EXCEPTION"} => file' = file
  <1> DEFINE given == Given(withOpt)
             err == DecryptError(in, pass, given)
             f == file[in]
             content == Deciphered(f, KeyFor(f, PassData(pass), given))
  <1>1. \/ err # "NOERR" /\ Fails(err)
        \/ ret' = "NOERR" /\ UNCHANGED file
        \/ Fails("EXCEPTION")
        \/ /\ out \in Names /\ Write(out, content)
           /\ ret' # "NOERR" => opt' = opt
    BY DEF Decrypt, MaybeNames, SetOptAfterWrite
  <1> HIDE DEF given, err, f, content
  <1>2. CASE Fails(err) \/ Fails("EXCEPTION")
    BY <1>2 DEF Fails, Disk
  <1>3. CASE ret' = "NOERR" /\ UNCHANGED file
    BY <1>3 DEF Disk
  <1>4. CASE out \in Names /\ Write(out, content) /\ (ret' # "NOERR" => opt' = opt)
    BY <1>4, WriteFacts
  <1> QED
    BY <1>1, <1>2, <1>3, <1>4

LEMMA OptFacts ==
    ASSUME Disk, CreateOpt \/ SetSpinCount \/ SetSecretKey
    PROVE  Disk' /\ ret' = "NOERR"
  BY DEF CreateOpt, SetSpinCount, SetSecretKey, OptCall, Disk

\* Of an encrypted file, a flush that failed leaves no compound file that opens.
LEMMA FlushedFile ==
    ASSUME NEW doc, NEW pass, NEW key, NEW spin, NEW f \in Flushed(Agile(doc, pass, key, spin, 256)), f.kind = "cfb"
    PROVE  f = Agile(doc, pass, key, spin, 256)
  <1>1. Agile(doc, pass, key, spin, 256).kind = "cfb"
    BY DEF Agile, Encoded, Cfb
  <1>2. Empty.kind = "empty" /\ Cut.kind = "cut"
    BY DEF Empty, Cut
  <1> QED
    BY <1>1, <1>2 DEF Flushed, Interrupted, Begun

\* What is whole needs no filling, and what is filled is whole.
LEMMA FilledFacts ==
    ASSUME NEW h
    PROVE  /\ Filled(h) \notin ShortHalf
           /\ Filled(Filled(h)) = Filled(h)
           /\ h \notin ShortHalf => Filled(h) = h
           /\ Padding \notin ShortHalf /\ Filled(Padding) = Padding
  <1>1. \A s \in ShortHalf : DOMAIN s = {"half", "filled"}
    BY DEF ShortHalf
  <1>2. \A x : DOMAIN [half |-> x] = {"half"}
    OBVIOUS
  <1>3. "filled" # "half"
    OBVIOUS
  <1>4. \A x : [half |-> x] \notin ShortHalf
    BY <1>1, <1>2, <1>3
  <1>5. Filled(h) \notin ShortHalf
    BY <1>4 DEF Filled
  <1> QED
    BY <1>4, <1>5 DEF Filled, Padding

LEMMA HalvesFacts == Halves(128) = 1 /\ Halves(256) = 2
  BY DEF Halves

\* The keys of AES-256: two halves, drawn or given.
LEMMA KeyFacts ==
    ASSUME NEW given, NEW key \in SecretKeys(given, 256)
    PROVE  /\ key # NoKey
           /\ given = NoKey => HalvesOf(key) \subseteq Undrawn
  <1>1. Halves(256) = 2
    BY DEF Halves
  <1>2. PICK k \in (IF given = NoKey THEN FillRand(2) ELSE {given}) : key = NormalizeKey(k, 2)
    BY <1>1 DEF SecretKeys
  <1>3. key # NoKey
    <2>1. 1 \in DOMAIN key
      BY <1>2 DEF NormalizeKey
    <2>2. 1 \notin DOMAIN << >>
      OBVIOUS
    <2> QED
      BY <2>1, <2>2 DEF NoKey
  <1>4. ASSUME given = NoKey PROVE HalvesOf(key) \subseteq Undrawn
    <2>1. PICK g \in Undrawn : k = [i \in 1 .. 2 |-> g]
      BY <1>2, <1>4 DEF FillRand
    <2>2. Len(k) = 2
      BY <2>1
    <2>3. Filled(g) = g
      BY KeysAssumption, FilledFacts DEF Undrawn
    <2>4. key = [i \in 1 .. 2 |-> g]
      BY <1>2, <2>1, <2>2, <2>3 DEF NormalizeKey
    <2> QED
      BY <2>4 DEF HalvesOf
  <1> QED
    BY <1>3, <1>4

\* Different passwords, different keys: one half tells them apart.
LEMMA SKeysDiffer ==
    ASSUME NEW p, NEW pass, NEW spin, NEW blockKey, NEW bits \in {128, 256}, p # pass
    PROVE  SKey(p, spin, blockKey, bits) # SKey(pass, spin, blockKey, bits)
  <1>2. \A x : SKey(x, spin, blockKey, bits)[1] = [hash |-> HashPassword(x, spin), blockKey |-> blockKey, half |-> 1]
    BY HalvesFacts DEF SKey, GenerateKey
  <1>3. HashPassword(p, spin) # HashPassword(pass, spin)
    <2>1. HashPassword(p, spin).pass = p /\ HashPassword(pass, spin).pass = pass
      BY DEF HashPassword
    <2> QED
      BY <2>1
  <1>4. \A h : [hash |-> h, blockKey |-> blockKey, half |-> 1].hash = h
    OBVIOUS
  <1>5. SKey(p, spin, blockKey, bits)[1] # SKey(pass, spin, blockKey, bits)[1]
    <2>1. /\ SKey(p, spin, blockKey, bits)[1] = [hash |-> HashPassword(p, spin), blockKey |-> blockKey, half |-> 1]
          /\ SKey(pass, spin, blockKey, bits)[1] = [hash |-> HashPassword(pass, spin), blockKey |-> blockKey, half |-> 1]
      BY <1>2
    <2> QED
      BY <1>3, <1>4, <2>1
  <1> QED
    BY <1>5

\* What a password makes of an Agile header: the key, if it is the one it was
\* made with, and no key if not.
LEMMA InfoOpens ==
    ASSUME NEW pass, NEW key, NEW spin, NEW bits \in {128, 256}, NEW p
    PROVE  GetAgileSecretKey(AgileInfo(pass, key, spin, bits), p) = IF p = pass THEN key ELSE NoKey
  <1> DEFINE written == AgileInfo(pass, key, spin, bits)
  <1>1. /\ written.spinCount = spin /\ written.keyBits = bits
        /\ written.verifierHashInput = Enc(Verifier, SKey(pass, spin, VerifierHashInput, bits))
        /\ written.verifierHashValue = Enc(Digest(Verifier), SKey(pass, spin, VerifierHashValue, bits))
        /\ written.keyValue = Enc(key, SKey(pass, spin, KeyValue, bits))
    BY DEF AgileInfo
  <1> HIDE DEF written
  <1>2. CASE p = pass
    <2>1. GetAgileSecretKey(written, p) = key
      BY <1>1, <1>2 DEF GetAgileSecretKey, Enc, Dec
    <2> QED
      BY <1>2, <2>1 DEF written
  <1>3. CASE p # pass
    <2>1. /\ Dec(written.verifierHashInput, SKey(p, spin, VerifierHashInput, bits)) = Noise
          /\ Dec(written.verifierHashValue, SKey(p, spin, VerifierHashValue, bits)) = Noise
      BY <1>1, <1>3, SKeysDiffer DEF Enc, Dec
    <2>2. Digest(Noise) # Noise
      BY DEF Digest, Noise
    <2>3. GetAgileSecretKey(written, p) = NoKey
      BY <1>1, <2>1, <2>2 DEF GetAgileSecretKey
    <2> QED
      BY <1>3, <2>3 DEF written
  <1> QED
    BY <1>2, <1>3

LEMMA Opens ==
    ASSUME NEW doc, NEW pass, NEW key, NEW spin, NEW p
    PROVE  KeyFor(Agile(doc, pass, key, spin, 256), p, NoKey) = IF p = pass THEN key ELSE NoKey
  <1> DEFINE f == Agile(doc, pass, key, spin, 256)
             written == AgileInfo(pass, key, spin, 256)
  <1>1. f.info = written /\ f.kind = "cfb" /\ written.version = "4.4"
    BY DEF Agile, Encoded, Cfb, AgileInfo
  <1>2. KeyFor(f, p, NoKey) = GetAgileSecretKey(written, p)
    BY <1>1 DEF KeyFor, IsAgile
  <1> QED
    BY <1>2, InfoOpens
-----------------------------------------------------------------------------
(* What the object and the files hold: keys that fromHex reads, documents, *)
(* and headers whose password opens them.                                  *)

FilesOK == \A n \in Names : IsFile(file[n])
OptOK == opt.secretKey = BadHex \/ IsKey(opt.secretKey)
KInv == Disk /\ FilesOK /\ OptOK

LEMMA NoneAreKeys == IsKey(NoKey) /\ ~ IsKey(BadHex)
  <1>1. Len(NoKey) = 0
    BY DEF NoKey
  <1>2. Len(BadHex) = 1 /\ BadHex[1] = OddLength
    BY DEF BadHex
  <1> QED
    BY <1>1, <1>2 DEF IsKey

\* normalizeKey makes a key of a key: as long as the cipher wants it, and the
\* same one if it is that long already.
LEMMA NormalizeFacts ==
    ASSUME NEW k, IsKey(k), NEW n \in {1, 2}
    PROVE  /\ IsKey(NormalizeKey(k, n))
           /\ Len(NormalizeKey(k, n)) = n
           /\ NormalizeKey(k, n) \notin {NoKey, BadHex}
           /\ NormalizeKey(NormalizeKey(k, n), n) = NormalizeKey(k, n)
           /\ IsWhole(NormalizeKey(k, n))
  <1> DEFINE key == NormalizeKey(k, n)
  <1>1. key = [i \in 1 .. n |-> IF i <= Len(k) THEN Filled(k[i]) ELSE Padding]
    BY DEF NormalizeKey
  <1> HIDE DEF key
  <1>2. Len(key) = n
    BY <1>1
  <1>3. Padding # OddLength
    BY DEF Padding, OddLength
  <1>4. ASSUME NEW i \in 1 .. n
        PROVE  key[i] # OddLength /\ key[i] \notin ShortHalf /\ Filled(key[i]) = key[i]
    <2>1. CASE i <= Len(k)
      <3>1. i \in 1 .. Len(k)
        BY <2>1 DEF IsKey
      <3>2. Filled(k[i]) # OddLength
        BY <3>1 DEF IsKey
      <3>3. key[i] = Filled(k[i])
        BY <1>1, <2>1
      <3> QED
        BY <3>2, <3>3, FilledFacts
    <2>2. CASE ~ (i <= Len(k))
      <3>1. key[i] = Padding
        BY <1>1, <2>2
      <3> QED
        BY <1>3, <3>1, FilledFacts
    <2> QED
      BY <2>1, <2>2
  <1>5. IsKey(key)
    BY <1>2, <1>4 DEF IsKey
  <1>8. IsWhole(key)
    BY <1>1, <1>4 DEF IsWhole
  <1>6. key \notin {NoKey, BadHex}
    <2>1. key # NoKey
      BY <1>2 DEF NoKey
    <2>2. key # BadHex
      BY <1>5, NoneAreKeys
    <2> QED
      BY <2>1, <2>2
  <1>7. NormalizeKey(key, n) = key
    <2>1. NormalizeKey(key, n) = [i \in 1 .. n |-> IF i <= n THEN Filled(key[i]) ELSE Padding]
      BY <1>2 DEF NormalizeKey
    <2>2. NormalizeKey(key, n) = [i \in 1 .. n |-> key[i]]
      BY <1>4, <2>1
    <2> QED
      BY <1>1, <2>2
  <1> QED
    BY <1>2, <1>5, <1>6, <1>7, <1>8 DEF key

LEMMA SecretKeyFacts ==
    ASSUME NEW given, given = NoKey \/ IsKey(given), NEW key \in SecretKeys(given, 256)
    PROVE  IsKey(key) /\ NormalizeKey(key, 2) = key
  <1>1. PICK k \in (IF given = NoKey THEN FillRand(2) ELSE {given}) : key = NormalizeKey(k, 2)
    BY HalvesFacts DEF SecretKeys
  <1>2. IsKey(k)
    <2>1. CASE given = NoKey
      <3>1. PICK g \in Undrawn : k = [i \in 1 .. 2 |-> g]
        BY <1>1, <2>1 DEF FillRand
      <3>2. g # OddLength /\ Filled(g) = g
        BY KeysAssumption, FilledFacts DEF Undrawn
      <3>3. Len(k) = 2 /\ \A i \in 1 .. 2 : k[i] = g
        BY <3>1
      <3> QED
        BY <3>2, <3>3 DEF IsKey
    <2>2. CASE given # NoKey
      BY <1>1, <2>2
    <2> QED
      BY <2>1, <2>2
  <1> QED
    BY <1>1, <1>2, NormalizeFacts

\* The header encode writes is one that its password opens.
LEMMA HeaderFacts ==
    ASSUME NEW pass, NEW key, NEW spin, NEW bits \in {128, 256},
           IsKey(key), NormalizeKey(key, Halves(bits)) = key
    PROVE  IsAgileInfo(AgileInfo(pass, key, spin, bits))
  <1> DEFINE written == AgileInfo(pass, key, spin, bits)
  <1>1. /\ written.spinCount = spin /\ written.keyBits = bits
        /\ written.keyValue.text = key
        /\ written.keyValue.under = SKey(pass, spin, KeyValue, bits)
    BY DEF AgileInfo, Enc
  <1>2. written.keyValue.under[1].hash.pass = pass
    BY <1>1, HalvesFacts DEF SKey, GenerateKey, HashPassword
  <1> QED
    BY <1>1, <1>2 DEF IsAgileInfo

LEMMA EncodedIsFile ==
    ASSUME NEW doc, NEW pass, NEW key, NEW spin, IsKey(key), NormalizeKey(key, 2) = key
    PROVE  IsFile(Agile(doc, pass, key, spin, 256))
  <1> DEFINE f == Agile(doc, pass, key, spin, 256)
  <1>1. /\ f.kind = "cfb" /\ f.info = AgileInfo(pass, key, spin, 256)
        /\ f.package.text = ZipFile(doc) /\ f.package.under = key
    BY DEF Agile, Encoded, Cfb, Enc
  <1>2. IsAgileInfo(f.info)
    <2>1. IsAgileInfo(AgileInfo(pass, key, spin, 256))
      BY HeaderFacts, HalvesFacts
    <2> QED
      BY <1>1, <2>1
  <1>3. f.info.keyValue.text = key
    BY <1>1 DEF AgileInfo, Enc
  <1> QED
    BY <1>1, <1>2, <1>3 DEF IsFile, ZipFile

\* A write, interrupted or not, leaves files.
LEMMA WriteKeepsFiles ==
    ASSUME Disk, FilesOK, NEW out \in Names, NEW content, IsFile(content), Write(out, content)
    PROVE  FilesOK'
  <1>1. \A c : [file EXCEPT ![out] = c] = [n \in Names |-> IF n = out THEN c ELSE file[n]]
    BY DEF Disk
  <1>2. \A c : IsFile(c) => \A n \in Names : IsFile([file EXCEPT ![out] = c][n])
    BY <1>1 DEF FilesOK
  <1>3. \A c \in Interrupted(content) : IsFile(c)
    BY DEF Interrupted, Begun, IsFile, ZipFile
  <1>4. CASE file' = file
    BY <1>4 DEF FilesOK
  <1>5. CASE \E c : IsFile(c) /\ file' = [file EXCEPT ![out] = c]
    BY <1>2, <1>5 DEF FilesOK
  <1> QED
    BY <1>3, <1>4, <1>5 DEF Write, Flushed

\* The key a decryption without an error starts from is a key, and of an Agile
\* file the one it leaves in the object fits the cipher.
LEMMA DecryptKey ==
    ASSUME FilesOK, OptOK, NEW in, NEW pass, NEW withOpt \in BOOLEAN, in \in MaybeNames,
           DecryptError(in, pass, Given(withOpt)) = "NOERR"
    PROVE  /\ in \in Names
           /\ file[in].kind = "cfb" /\ file[in].package.text.kind = "zip"
           /\ Given(withOpt) = NoKey \/ IsKey(Given(withOpt))
           /\ IsAgile(file[in]) => /\ IsAgileInfo(file[in].info)
                                   /\ file[in].package.under = file[in].info.keyValue.text
                                   /\ Given(withOpt) = NoKey =>
                                        KeyFor(file[in], PassData(pass), NoKey) = file[in].info.keyValue.text
                                   /\ IsKey(KeyFor(file[in], PassData(pass), Given(withOpt)))
  <1> DEFINE f == file[in]
             given == Given(withOpt)
             K == KeyFor(f, PassData(pass), given)
  <1>1. in \in Names /\ f \notin {Empty, Cut} /\ f.kind # "zip" /\ given # BadHex /\ K # NoKey
    BY DEF DecryptError, MaybeNames
  <1>2. /\ f.kind = "cfb" /\ f.package.text.kind = "zip"
        /\ IsAgile(f) => IsAgileInfo(f.info) /\ f.package.under = f.info.keyValue.text
    <2>1. IsFile(f)
      BY <1>1 DEF FilesOK
    <2> QED
      BY <1>1, <2>1 DEF IsFile
  <1>3. given = NoKey \/ IsKey(given)
    BY <1>1 DEF Given, OptOK
  <1>4. ASSUME IsAgile(f) PROVE IsKey(K) /\ (given = NoKey => K = f.info.keyValue.text)
    <2>1. CASE given # NoKey
      BY <1>3, <2>1 DEF KeyFor
    <2>2. CASE given = NoKey
      <3> DEFINE p == f.info.keyValue.under[1].hash.pass
                 key == f.info.keyValue.text
                 spin == f.info.spinCount
                 bits == f.info.keyBits
      <3>1. /\ bits \in {128, 256} /\ IsKey(key)
            /\ f.info = AgileInfo(p, key, spin, bits)
        BY <1>2, <1>4 DEF IsAgileInfo
      <3>2. K = GetAgileSecretKey(f.info, PassData(pass))
        BY <1>4, <2>2 DEF KeyFor
      <3> HIDE DEF p, key, spin, bits, K
      <3>3. GetAgileSecretKey(f.info, PassData(pass)) = IF PassData(pass) = p THEN key ELSE NoKey
        BY <3>1, InfoOpens
      <3>4. K = key
        BY <1>1, <3>2, <3>3
      <3> QED
        BY <3>1, <3>4 DEF key
    <2> QED
      BY <2>1, <2>2
  <1> QED
    BY <1>1, <1>2, <1>3, <1>4

\* The key left in the object.
LEMMA LeftIsKey ==
    ASSUME FilesOK, OptOK, NEW in, NEW pass, NEW withOpt \in BOOLEAN, in \in MaybeNames,
           DecryptError(in, pass, Given(withOpt)) = "NOERR",
           SetOpt(file[in], PassData(pass), Given(withOpt), withOpt)
    PROVE  OptOK'
  <1>1. CASE withOpt
    <2>1. opt'.secretKey = KeyLeft(file[in], PassData(pass), Given(withOpt))
      BY <1>1 DEF SetOpt
    <2>2. CASE IsAgile(file[in])
      <3>1. IsAgileInfo(file[in].info) /\ IsKey(KeyFor(file[in], PassData(pass), Given(withOpt)))
        BY <2>2, DecryptKey
      <3>2. Halves(file[in].info.keyBits) \in {1, 2}
        BY <3>1, HalvesFacts DEF IsAgileInfo
      <3>3. opt'.secretKey = NormalizeKey(KeyFor(file[in], PassData(pass), Given(withOpt)), Halves(file[in].info.keyBits))
        BY <2>1, <2>2 DEF KeyLeft, KeyUsed
      <3> QED
        BY <3>1, <3>2, <3>3, NormalizeFacts DEF OptOK
    <2>3. CASE ~ IsAgile(file[in])
      <3>1. opt'.secretKey = Given(withOpt)
        BY <2>1, <2>3 DEF KeyLeft
      <3> QED
        BY <3>1, DecryptKey, NoneAreKeys DEF OptOK
    <2> QED
      BY <2>2, <2>3
  <1>2. CASE ~ withOpt
    BY <1>2 DEF SetOpt, OptOK
  <1> QED
    BY <1>1, <1>2

LEMMA EncryptKeeps ==
    ASSUME KInv, NEW out \in MaybeNames, NEW in \in MaybeNames, NEW pass \in MaybePasses, NEW withOpt \in BOOLEAN,
           Encrypt(out, in, pass, withOpt)
    PROVE  KInv'
  <1>1. Disk' /\ opt' = opt
    BY EncryptFacts DEF KInv
  <1>2. OptOK'
    BY <1>1 DEF OptOK, KInv
  <1>3. FilesOK'
    <2>1. CASE EncryptError(out, in, pass, withOpt) # "NOERR"
      BY <2>1 DEF Encrypt, Fails, KInv, FilesOK
    <2>2. CASE EncryptError(out, in, pass, withOpt) = "NOERR"
      <3>1. out \in Names /\ Given(withOpt) # BadHex
        BY <2>2 DEF EncryptError, MaybeNames
      <3>2. PICK key \in SecretKeys(Given(withOpt), 256) :
               Write(out, Agile(file[in].doc, pass, key, EffectiveSpin(withOpt), 256))
        BY <2>2 DEF Encrypt
      <3>3. Given(withOpt) = NoKey \/ IsKey(Given(withOpt))
        BY <3>1 DEF Given, KInv, OptOK
      <3>4. IsKey(key) /\ NormalizeKey(key, 2) = key
        BY <3>3, SecretKeyFacts
      <3> QED
        BY <3>1, <3>2, <3>4, EncodedIsFile, WriteKeepsFiles DEF KInv
    <2> QED
      BY <2>1, <2>2
  <1> QED
    BY <1>1, <1>2, <1>3 DEF KInv

LEMMA DecryptKeeps ==
    ASSUME KInv, NEW out \in MaybeNames, NEW in \in MaybeNames, NEW pass \in MaybePasses, NEW withOpt \in BOOLEAN,
           Decrypt(out, in, pass, withOpt)
    PROVE  KInv'
  <1> DEFINE f == file[in]
             given == Given(withOpt)
             content == Deciphered(f, KeyFor(f, PassData(pass), given))
  <1>1. Disk'
    BY DecryptFacts DEF KInv
  <1>2. \/ UNCHANGED <<file, opt>>
        \/ /\ DecryptError(in, pass, given) = "NOERR"
           /\ \/ UNCHANGED file
              \/ out \in Names /\ Knows(content) /\ Write(out, content)
           /\ SetOpt(f, PassData(pass), given, withOpt) \/ UNCHANGED opt
    BY DEF Decrypt, Fails, MaybeNames, SetOptAfterWrite
  <1>3. CASE UNCHANGED <<file, opt>>
    BY <1>1, <1>3 DEF KInv, FilesOK, OptOK
  <1>4. CASE /\ DecryptError(in, pass, given) = "NOERR"
             /\ \/ UNCHANGED file
                \/ out \in Names /\ Knows(content) /\ Write(out, content)
             /\ SetOpt(f, PassData(pass), given, withOpt) \/ UNCHANGED opt
    <2>1. OptOK'
      <3>1. CASE SetOpt(f, PassData(pass), given, withOpt)
        BY <1>4, <3>1, LeftIsKey DEF KInv
      <3>2. CASE UNCHANGED opt
        BY <3>2 DEF KInv, OptOK
      <3> QED
        BY <1>4, <3>1, <3>2
    <2>2. FilesOK'
      <3>1. CASE UNCHANGED file
        BY <3>1 DEF KInv, FilesOK
      <3>2. CASE out \in Names /\ Knows(content) /\ Write(out, content)
        <4>1. f.package.text.kind = "zip"
          BY <1>4, DecryptKey DEF KInv
        <4>2. content \in {f.package.text, Noise}
          BY DEF Deciphered, Dec
        <4> HIDE DEF content
        <4>3. content = f.package.text
          BY <3>2, <4>2 DEF Knows, KnownKinds, Noise
        <4>4. IsFile(content)
          BY <4>1, <4>3 DEF IsFile
        <4> QED
          BY <3>2, <4>4, WriteKeepsFiles DEF KInv
      <3> QED
        BY <1>4, <3>1, <3>2
    <2> QED
      BY <1>1, <2>1, <2>2 DEF KInv
  <1> QED
    BY <1>2, <1>3, <1>4

LEMMA OptCallsKeep ==
    ASSUME KInv, CreateOpt \/ SetSpinCount \/ SetSecretKey
    PROVE  KInv'
  <1>1. Disk' /\ FilesOK'
    <2>1. UNCHANGED file
      BY DEF CreateOpt, SetSpinCount, SetSecretKey, OptCall
    <2> QED
      BY <2>1 DEF KInv, Disk, FilesOK
  <1>2. OptOK'
    <2>1. CASE CreateOpt
      BY <2>1, NoneAreKeys DEF CreateOpt, OptCall, NewOpt, OptOK
    <2>2. CASE SetSpinCount
      BY <2>2 DEF SetSpinCount, OptCall, OptOK, KInv
    <2>3. CASE SetSecretKey
      BY <2>3, NoneAreKeys, KeysAssumption DEF SetSecretKey, OptCall, OptOK, KInv
    <2> QED
      BY <2>1, <2>2, <2>3
  <1> QED
    BY <1>1, <1>2 DEF KInv

-----------------------------------------------------------------------------
(* There is a content under every name, whatever the calls do.             *)
THEOREM DiskAlways == Spec => []Disk
  <1>1. Init => Disk
    BY DEF Init, Disk
  <1>2. Disk /\ [Next]_vars => Disk'
    <2> SUFFICES ASSUME Disk, [Next]_vars PROVE Disk'
      OBVIOUS
    <2>1. CASE CreateOpt \/ SetSpinCount \/ SetSecretKey
      BY <2>1, OptFacts
    <2>2. CASE \E out \in MaybeNames, in \in MaybeNames, pass \in MaybePasses, withOpt \in BOOLEAN :
                  Encrypt(out, in, pass, withOpt) \/ Decrypt(out, in, pass, withOpt)
      BY <2>2, EncryptFacts, DecryptFacts
    <2>3. CASE UNCHANGED vars
      BY <2>3 DEF vars, Disk
    <2> QED
      BY <2>1, <2>2, <2>3 DEF Next
  <1> QED
    BY <1>1, <1>2, PTL DEF Spec

(* Whatever error a call returns, the option object is what it was; and    *)
(* unless it is an exception, the disk is too.                             *)
THEOREM ErrorsLeaveOpt == Spec => ErrorLeavesOpt
  <1>1. Disk /\ [Next]_vars => [ret' # "NOERR" => opt' = opt /\ (ret' # "EXCEPTION" => file' = file)]_vars
    <2> SUFFICES ASSUME Disk, Next, ret' # "NOERR"
                 PROVE  opt' = opt /\ (ret' # "EXCEPTION" => file' = file)
      BY DEF vars
    <2>1. CASE CreateOpt \/ SetSpinCount \/ SetSecretKey
      BY <2>1, OptFacts
    <2>2. ASSUME NEW out \in MaybeNames, NEW in \in MaybeNames, NEW pass \in MaybePasses, NEW withOpt \in BOOLEAN,
                 Encrypt(out, in, pass, withOpt) \/ Decrypt(out, in, pass, withOpt)
          PROVE  opt' = opt /\ (ret' # "EXCEPTION" => file' = file)
      BY <2>2, EncryptFacts, DecryptFacts
    <2> QED
      BY <2>1, <2>2 DEF Next
  <1> QED
    BY <1>1, DiskAlways, PTL DEF Spec, ErrorLeavesOpt

(* A key the program did not give is drawn in both its halves.             *)
THEOREM GeneratedKeysAreFull == Spec => GeneratedKeyIsFull
  <1> DEFINE A == ret' = "NOERR" =>
                    \A out \in Names, in \in Names, pass \in Passes, withOpt \in BOOLEAN :
                        Given(withOpt) = NoKey /\ Encrypt(out, in, pass, withOpt) /\ file'[out].kind = "cfb" =>
                            HalvesOf(file'[out].package.under) \subseteq Undrawn
  <1>1. Disk /\ [Next]_vars => [A]_vars
    <2> SUFFICES ASSUME Disk, ret' = "NOERR",
                        NEW out \in Names, NEW in \in Names, NEW pass \in Passes, NEW withOpt \in BOOLEAN,
                        Given(withOpt) = NoKey, Encrypt(out, in, pass, withOpt), file'[out].kind = "cfb"
                 PROVE  HalvesOf(file'[out].package.under) \subseteq Undrawn
      OBVIOUS
    <2>1. PICK key \in SecretKeys(NoKey, 256) :
             file'[out] \in Flushed(Agile(file[in].doc, pass, key, EffectiveSpin(withOpt), 256))
      BY EncryptFacts DEF MaybeNames
    <2>2. file'[out].package.under = key
      <3>1. file'[out] = Agile(file[in].doc, pass, key, EffectiveSpin(withOpt), 256)
        BY <2>1, FlushedFile
      <3> QED
        BY <3>1 DEF Agile, Encoded, Cfb, Enc
    <2> QED
      BY <2>1, <2>2, KeyFacts
  <1> QED
    BY <1>1, DiskAlways, PTL DEF Spec, GeneratedKeyIsFull

(* What a call encrypts, its password opens, and no other.                 *)
THEOREM OnlyThePassOpens == Spec => OnlyPassOpens
  <1> DEFINE A == \A out \in Names : ret' = "NOERR" /\ file'[out] # file[out] /\ IsAgile(file'[out]) =>
                    \A in \in Names, pass \in Passes, withOpt \in BOOLEAN :
                        Encrypt(out, in, pass, withOpt) =>
                            \A p \in Passes :
                                KeyFor(file'[out], p, NoKey) = IF p = pass THEN file'[out].package.under ELSE NoKey
  <1>1. Disk /\ [Next]_vars => [A]_vars
    <2> SUFFICES ASSUME Disk, ret' = "NOERR", NEW out \in Names,
                        NEW in \in Names, NEW pass \in Passes, NEW withOpt \in BOOLEAN,
                        Encrypt(out, in, pass, withOpt), IsAgile(file'[out]),
                        NEW p \in Passes
                 PROVE  KeyFor(file'[out], p, NoKey) = IF p = pass THEN file'[out].package.under ELSE NoKey
      OBVIOUS
    <2>1. PICK key \in SecretKeys(Given(withOpt), 256) :
             file'[out] \in Flushed(Agile(file[in].doc, pass, key, EffectiveSpin(withOpt), 256))
      BY EncryptFacts DEF MaybeNames
    <2>2. file'[out] = Agile(file[in].doc, pass, key, EffectiveSpin(withOpt), 256)
      BY <2>1, FlushedFile DEF IsAgile
    <2>3. file'[out].package.under = key
      BY <2>2 DEF Agile, Encoded, Cfb, Enc
    <2> QED
      BY <2>2, <2>3, Opens
  <1> QED
    BY <1>1, DiskAlways, PTL DEF Spec, OnlyPassOpens

(* A decryption that returns no error wrote the document, or what a failed *)
(* flush left of it, and never the noise a wrong key makes of it.          *)
THEOREM DecryptsToPlain == Spec => DecryptGivesPlain
  <1> DEFINE A == ret' = "NOERR" =>
                    \A out \in Names, in \in Names, pass \in MaybePasses, withOpt \in BOOLEAN :
                        Decrypt(out, in, pass, withOpt) => file'[out] \in Flushed(file[in].package.text)
  <1>1. Disk /\ [Next]_vars => [A]_vars
    <2> SUFFICES ASSUME Disk, ret' = "NOERR",
                        NEW out \in Names, NEW in \in Names, NEW pass \in MaybePasses, NEW withOpt \in BOOLEAN,
                        Decrypt(out, in, pass, withOpt)
                 PROVE  file'[out] \in Flushed(file[in].package.text)
      OBVIOUS
    <2> DEFINE f == file[in]
               content == Deciphered(f, KeyFor(f, PassData(pass), Given(withOpt)))
    <2>1. out # NULL
      BY ApiAssumption
    <2>2. DecryptError(in, pass, Given(withOpt)) = "NOERR"
      BY DEF Decrypt, Fails
    <2>3. Knows(content) /\ Write(out, content)
      BY <2>1, <2>2 DEF Decrypt, Fails
    <2>4. content \in {f.package.text, Noise}
      BY DEF Deciphered, Dec
    <2> HIDE DEF content
    <2>5. content # Noise
      BY <2>3 DEF Knows, KnownKinds, Noise
    <2>6. file'[out] \in Flushed(content)
      BY <2>3, WriteFacts
    <2> QED
      BY <2>4, <2>5, <2>6
  <1> QED
    BY <1>1, DiskAlways, PTL DEF Spec, DecryptGivesPlain

(* Every file and the key in the object are such as calls leave; what a    *)
(* later call makes of them follows from that.                             *)
THEOREM KeysAndFiles == Spec => []KInv
  <1>1. Init => KInv
    BY FilesAssumption, NoneAreKeys DEF Init, KInv, Disk, FilesOK, OptOK, NewOpt
  <1>2. KInv /\ [Next]_vars => KInv'
    <2> SUFFICES ASSUME KInv, [Next]_vars PROVE KInv'
      OBVIOUS
    <2>1. CASE CreateOpt \/ SetSpinCount \/ SetSecretKey
      BY <2>1, OptCallsKeep
    <2>2. CASE \E out \in MaybeNames, in \in MaybeNames, pass \in MaybePasses, withOpt \in BOOLEAN :
                  Encrypt(out, in, pass, withOpt) \/ Decrypt(out, in, pass, withOpt)
      BY <2>2, EncryptKeeps, DecryptKeeps
    <2>3. CASE UNCHANGED vars
      BY <2>3 DEF vars, KInv, Disk, FilesOK, OptOK
    <2> QED
      BY <2>1, <2>2, <2>3 DEF Next
  <1> QED
    BY <1>1, <1>2, PTL DEF Spec

(* What every decryption leaves in the object, of either kind of file and  *)
(* of a call that only looks too: no key, just where the file is an Office *)
(* 2007 one and none was given; else a key that fromHex reads and that is  *)
(* as long as the cipher wants it, which deciphers the package to what was *)
(* encrypted unless the call but looked at the file with a key it was      *)
(* given.                                                                  *)
THEOREM KeyInOptOpensAgain == Spec => KeyInOptOpens
  <1> DEFINE Left(out, in) ==
                LET key == opt'.secretKey
                    f == file[in]
                IN  /\ key = NoKey <=> ~ IsAgile(f) /\ opt.secretKey = NoKey
                    /\ key # NoKey => key # BadHex /\ KeyFits(f, key)
                    /\ key # NoKey /\ (out # NULL \/ opt.secretKey = NoKey) =>
                            Deciphered(f, key) = f.package.text
             A == ret' = "NOERR" =>
                    \A out \in MaybeNames, in \in Names, pass \in MaybePasses :
                        Decrypt(out, in, pass, TRUE) => Left(out, in)
  <1>1. KInv /\ [Next]_vars => [A]_vars
    <2> SUFFICES ASSUME KInv, ret' = "NOERR", NEW out \in MaybeNames, NEW in \in Names, NEW pass \in MaybePasses,
                        Decrypt(out, in, pass, TRUE)
                 PROVE  Left(out, in)
      OBVIOUS
    <2> DEFINE f == file[in]
               given == opt.secretKey
               K == KeyFor(f, PassData(pass), given)
               n == Halves(f.info.keyBits)
               content == Deciphered(f, K)
    <2>1. in \in MaybeNames /\ Given(TRUE) = given
      BY DEF MaybeNames, Given
    <2>2. DecryptError(in, pass, given) = "NOERR"
      BY <2>1 DEF Decrypt, Fails
    <2>3. /\ out # NULL => Knows(content)
          /\ SetOpt(f, PassData(pass), given, TRUE)
      BY <2>1, <2>2 DEF Decrypt, Fails, SetOptAfterWrite
    <2>4. opt'.secretKey = KeyLeft(f, PassData(pass), given)
      BY <2>3 DEF SetOpt
    <2>5. out # NULL => content = f.package.text
      <3>1. content \in {f.package.text, Noise}
        BY DEF Deciphered, Dec
      <3> HIDE DEF content
      <3> QED
        BY <2>3, <3>1 DEF Knows, KnownKinds, Noise
    <2>6. CASE IsAgile(f)
      <3>1. /\ IsAgileInfo(f.info) /\ f.package.under = f.info.keyValue.text
            /\ given = NoKey => K = f.info.keyValue.text
            /\ IsKey(K)
        BY <2>1, <2>2, <2>6, DecryptKey DEF KInv
      <3>2. n \in {1, 2} /\ NormalizeKey(f.info.keyValue.text, n) = f.info.keyValue.text
        BY <3>1, HalvesFacts DEF IsAgileInfo
      <3>3. opt'.secretKey = NormalizeKey(K, n)
        BY <2>4, <2>6 DEF KeyLeft, KeyUsed
      <3>4. content = Dec(f.package, NormalizeKey(K, n))
        BY <2>6 DEF Deciphered, KeyUsed
      <3>5. given = NoKey => content = f.package.text
        BY <3>1, <3>2, <3>4 DEF Dec
      <3> HIDE DEF K, n, content
      <3>6. /\ NormalizeKey(K, n) \notin {NoKey, BadHex}
            /\ Len(NormalizeKey(K, n)) = n
            /\ NormalizeKey(NormalizeKey(K, n), n) = NormalizeKey(K, n)
            /\ IsWhole(NormalizeKey(K, n))
        BY <3>1, <3>2, NormalizeFacts
      <3>7. KeyUsed(f, opt'.secretKey) = NormalizeKey(K, n)
        BY <2>6, <3>3, <3>6 DEF KeyUsed, n
      <3>8. KeyFits(f, opt'.secretKey)
        BY <3>6, <3>7 DEF KeyFits, n
      <3>9. Deciphered(f, opt'.secretKey) = content
        BY <3>4, <3>7 DEF Deciphered
      <3> QED
        BY <2>5, <2>6, <3>3, <3>5, <3>6, <3>8, <3>9
    <2>7. CASE ~ IsAgile(f)
      <3>1. opt'.secretKey = given
        BY <2>4, <2>7 DEF KeyLeft
      <3>2. given # NoKey => K = given
        BY DEF KeyFor
      <3>3. given # BadHex /\ KeyFits(f, K)
        BY <2>2 DEF DecryptError
      <3> HIDE DEF K
      <3> QED
        BY <2>5, <2>7, <3>1, <3>2, <3>3
    <2> QED
      BY <2>6, <2>7
  <1> QED
    BY <1>1, KeysAndFiles, PTL DEF Spec, KeyInOptOpens
-----------------------------------------------------------------------------
(* The EncryptionInfo stream: induction, and numbers counted off in a set *)

\* Induction over the naturals, of a set.
LEMMA NatSetInduction ==
    ASSUME NEW S, 0 \in S, \A n \in Nat : n \in S => n + 1 \in S
    PROVE  Nat \subseteq S
  <1> DEFINE R == OpToRel(<, Nat)
             T == Nat \ S
  <1>1. IsWellFoundedOn(R, Nat)
    BY NatLessThanWellFounded
  <1>2. \A x, y \in Nat : y < x => <<y, x>> \in R
    BY DEF OpToRel
  <1>3. CASE T # {}
    <2>1. PICK x \in T : \A y \in T : ~ (<<y, x>> \in R)
      <3>1. T \subseteq Nat
        OBVIOUS
      <3> HIDE DEF R, T
      <3> QED
        BY <1>1, <1>3, <3>1, WFMin
    <2>2. x \in Nat /\ x # 0 /\ x - 1 \in Nat /\ x - 1 < x
      OBVIOUS
    <2>3. x - 1 \in T
      BY <2>2
    <2> QED
      BY <1>2, <2>1, <2>2, <2>3
  <1> QED
    BY <1>3

LEMMA ElementsOf ==
    ASSUME NEW S, NEW s \in Seq(S)
    PROVE  /\ Len(s) \in Nat /\ DOMAIN s = 1 .. Len(s)
           /\ \A i \in 1 .. Len(s) : s[i] \in S
           /\ s = [i \in 1 .. Len(s) |-> s[i]]
  OBVIOUS

\* f is what T makes of base in m steps.
GoesBy(f, T, base, m) == f[0] = base /\ \A k \in 1 .. m : f[k] = T[<<f[k - 1], k>>]

\* A step for each of n numbers: the recursion has a solution.
LEMMA Recurs ==
    ASSUME NEW X, NEW base, base \in X, NEW n, n \in Nat, NEW T, T \in [X \X (1 .. n) -> X]
    PROVE  \E f \in [0 .. n -> X] : GoesBy(f, T, base, n)
  <1> DEFINE Goes(f, m) == f[0] = base /\ \A k \in 1 .. m : f[k] = T[<<f[k - 1], k>>]
             S == {m \in Nat : m <= n => \E f \in [0 .. m -> X] : Goes(f, m)}
  <1>1. 0 \in S
    <2> DEFINE f == [k \in 0 .. 0 |-> base]
    <2>1. f \in [0 .. 0 -> X] /\ Goes(f, 0)
      OBVIOUS
    <2> QED
      BY <2>1
  <1>2. ASSUME NEW m \in Nat, m \in S PROVE m + 1 \in S
    <2> SUFFICES ASSUME m + 1 <= n PROVE \E f \in [0 .. m + 1 -> X] : Goes(f, m + 1)
      OBVIOUS
    <2>1. PICK g \in [0 .. m -> X] : Goes(g, m)
      BY <1>2
    <2> DEFINE f == [k \in 0 .. m + 1 |-> IF k <= m THEN g[k] ELSE T[<<g[m], m + 1>>]]
    <2>2. m + 1 \in 1 .. n /\ g[m] \in X
      OBVIOUS
    <2>3. T[<<g[m], m + 1>>] \in X
      BY <2>2
    <2>4. \A k \in 0 .. m : f[k] = g[k]
      OBVIOUS
    <2>5. f[m + 1] = T[<<g[m], m + 1>>]
      OBVIOUS
    <2>6. f \in [0 .. m + 1 -> X]
      BY <2>3
    <2> HIDE DEF f
    <2>7. f[0] = base
      BY <2>1, <2>4
    <2>8. ASSUME NEW k \in 1 .. m + 1 PROVE f[k] = T[<<f[k - 1], k>>]
      <3>1. CASE k = m + 1
        BY <2>4, <2>5, <3>1
      <3>2. CASE k # m + 1
        <4>1. k \in 1 .. m /\ k - 1 \in 0 .. m
          BY <3>2
        <4> QED
          BY <2>1, <2>4, <4>1
      <3> QED
        BY <3>1, <3>2
    <2> QED
      BY <2>6, <2>7, <2>8
  <1>3. n \in S
    <2> HIDE DEF S
    <2> QED
      BY <1>1, <1>2, NatSetInduction
  <1> QED
    BY <1>3 DEF GoesBy

LEMMA LeastOf ==
    ASSUME NEW S, S \subseteq Nat, S # {}
    PROVE  Min(S) \in S /\ \A x \in S : Min(S) <= x
  <1> DEFINE R == OpToRel(<, Nat)
  <1>1. IsWellFoundedOn(R, Nat)
    BY NatLessThanWellFounded
  <1>2. \A x, y \in Nat : y < x => <<y, x>> \in R
    BY DEF OpToRel
  <1>3. PICK x \in S : \A y \in S : ~ (<<y, x>> \in R)
    <2> HIDE DEF R
    <2> QED
      BY <1>1, WFMin
  <1>4. ASSUME NEW y \in S PROVE x <= y
    <2>1. x \in Nat /\ y \in Nat
      OBVIOUS
    <2>2. ~(y < x)
      BY <1>2, <1>3, <2>1
    <2> QED
      BY <2>1, <2>2
  <1> QED
    BY <1>4 DEF Min


LEMMA GreatestOf ==
    ASSUME NEW n \in Nat, NEW S, S \subseteq 0 .. n, S # {}
    PROVE  Max(S) \in S
  <1> DEFINE D == {n - x : x \in S}
  <1>1. D \subseteq Nat /\ D # {}
    <2>1. \A x \in S : n - x \in Nat
      OBVIOUS
    <2> QED
      BY <2>1, Zenon
  <1>2. Min(D) \in D /\ \A d \in D : Min(D) <= d
    <2> HIDE DEF D
    <2> QED
      BY <1>1, LeastOf
  <1>3. PICK x \in S : n - x = Min(D)
    BY <1>2
  <1>4. \A y \in S : n - y \in D
    OBVIOUS
  <1> HIDE DEF D
  <1>5. \A y \in S : y <= x
    BY <1>2, <1>3, <1>4
  <1> QED
    BY <1>5 DEF Max
-----------------------------------------------------------------------------
(* The text *)

\* A text in which the name of the root does not occur.
Plain(s) == \E S : s \in Seq(S) /\ "encryption" \notin S

Base64Chars == {EncChar(v) : v \in 0 .. 63} \cup {"="}

LEMMA JoinIs ==
    ASSUME NEW S, NEW s \in Seq(S), NEW t \in Seq(S)
    PROVE  /\ s \o t \in Seq(S) /\ Len(s \o t) = Len(s) + Len(t)
           /\ \A i \in 1 .. Len(s) : (s \o t)[i] = s[i]
           /\ \A i \in 1 .. Len(t) : (s \o t)[Len(s) + i] = t[i]
  OBVIOUS

LEMMA WithOne ==
    ASSUME NEW S, NEW s \in Seq(S), NEW a \in S, NEW b \in S
    PROVE  Append(s, a) \in Seq(S) /\ s \o <<a, b>> \in Seq(S)
  <1>1. <<a, b>> \in Seq(S)
    OBVIOUS
  <1> QED
    BY <1>1, JoinIs

LEMMA JoinPlain ==
    ASSUME NEW s, NEW t, Plain(s), Plain(t)
    PROVE  Plain(s \o t)
  <1>1. PICK S : s \in Seq(S) /\ "encryption" \notin S
    BY DEF Plain
  <1>2. PICK T : t \in Seq(T) /\ "encryption" \notin T
    BY DEF Plain
  <1>3. s \in Seq(S \cup T) /\ t \in Seq(S \cup T)
    BY <1>1, <1>2
  <1>4. s \o t \in Seq(S \cup T)
    BY <1>3
  <1>5. "encryption" \notin S \cup T
    BY <1>1, <1>2
  <1> QED
    BY <1>4, <1>5, Zenon DEF Plain

LEMMA CharsAre == "encryption" \notin Base64Chars
  <1>1. \A v \in 0 .. 63 : v + 1 \in 1 .. 64
    OBVIOUS
  <1>2. \A i \in 1 .. 64 : Alphabet[i] # "encryption"
    BY DEF Alphabet
  <1> QED
    BY <1>1, <1>2 DEF Base64Chars, EncChar

LEMMA EncodedIsText ==
    ASSUME NEW bytes \in Seq(0 .. 255)
    PROVE  enc64(bytes) \in Seq(Base64Chars)
  <1> DEFINE n == Len(bytes)
             base == [idx |-> 0, remain |-> 0, out |-> << >>]
             X == {s \in [idx : 0 .. 2, remain : 0 .. 63, out : Seq(Base64Chars)] :
                      (s.idx = 1 => s.remain <= 48) /\ (s.idx = 2 => s.remain <= 60)}
             T == [p \in X \X (1 .. n) |-> EncStep(p[1], bytes[p[2]])]
             After(h) == h = [k \in 0 .. n |-> IF k = 0 THEN base ELSE EncStep(h[k - 1], bytes[k])]
  <1>1. n \in Nat /\ \A k \in 1 .. n : bytes[k] \in 0 .. 255
    BY ElementsOf
  <1>2. ASSUME NEW s \in X, NEW c \in 0 .. 255 PROVE EncStep(s, c) \in X
    <2>0. /\ c \div 4 \in 0 .. 63 /\ (c % 4) * 16 \in 0 .. 48
          /\ \A r \in 0 .. 48 : r + (c \div 16) \in 0 .. 63
          /\ \A r \in 0 .. 60 : r + (c \div 64) \in 0 .. 63
          /\ (c % 16) * 4 \in 0 .. 60 /\ c % 64 \in 0 .. 63
      OBVIOUS
    <2>1. \A v \in 0 .. 63 : EncChar(v) \in Base64Chars
      BY DEF Base64Chars
    <2>2. /\ s.out \in Seq(Base64Chars) /\ s.remain \in 0 .. 63 /\ s.idx \in 0 .. 2
          /\ s.idx = 1 => s.remain \in 0 .. 48
          /\ s.idx = 2 => s.remain \in 0 .. 60
      <3>1. /\ \A r \in 0 .. 63 : r <= 48 => r \in 0 .. 48
            /\ \A r \in 0 .. 63 : r <= 60 => r \in 0 .. 60
        OBVIOUS
      <3>2. /\ s.out \in Seq(Base64Chars) /\ s.remain \in 0 .. 63 /\ s.idx \in 0 .. 2
            /\ s.idx = 1 => s.remain <= 48
            /\ s.idx = 2 => s.remain <= 60
        OBVIOUS
      <3> QED
        BY <3>1, <3>2, Zenon
    <2>3. CASE s.idx = 0
      <3>1. c \div 4 \in 0 .. 63 /\ (c % 4) * 16 \in 0 .. 48
        BY <2>0
      <3>2. EncStep(s, c) = [idx |-> 1, remain |-> (c % 4) * 16, out |-> Append(s.out, EncChar(c \div 4))]
        BY <2>3 DEF EncStep
      <3>3. Append(s.out, EncChar(c \div 4)) \in Seq(Base64Chars)
        <4>1. EncChar(c \div 4) \in Base64Chars
          BY <2>1, <3>1
        <4> QED
          BY <2>2, <4>1, WithOne
      <3> QED
        BY <3>1, <3>2, <3>3
    <2>4. CASE s.idx = 1
      <3> HIDE DEF X
      <3>1. s.remain + (c \div 16) \in 0 .. 63 /\ (c % 16) * 4 \in 0 .. 60
        BY <2>0, <2>2, <2>4
      <3>2. EncStep(s, c) = [idx |-> 2, remain |-> (c % 16) * 4,
                             out |-> Append(s.out, EncChar(s.remain + (c \div 16)))]
        BY <2>4 DEF EncStep
      <3>3. Append(s.out, EncChar(s.remain + (c \div 16))) \in Seq(Base64Chars)
        <4>1. EncChar(s.remain + (c \div 16)) \in Base64Chars
          BY <2>1, <3>1
        <4> QED
          BY <2>2, <4>1, WithOne
      <3> USE DEF X
      <3> QED
        BY <3>1, <3>2, <3>3
    <2>5. CASE s.idx = 2
      <3> HIDE DEF X
      <3>1. s.remain + (c \div 64) \in 0 .. 63 /\ c % 64 \in 0 .. 63
        BY <2>0, <2>2, <2>5
      <3>2. EncStep(s, c) = [idx |-> 0, remain |-> s.remain,
                             out |-> s.out \o <<EncChar(s.remain + (c \div 64)), EncChar(c % 64)>>]
        BY <2>5 DEF EncStep
      <3>3. s.out \o <<EncChar(s.remain + (c \div 64)), EncChar(c % 64)>> \in Seq(Base64Chars)
        <4>1. EncChar(s.remain + (c \div 64)) \in Base64Chars /\ EncChar(c % 64) \in Base64Chars
          BY <2>1, <3>1
        <4> QED
          BY <2>2, <4>1, WithOne
      <3> USE DEF X
      <3> QED
        BY <2>2, <3>2, <3>3
    <2> QED
      BY <2>2, <2>3, <2>4, <2>5
  <1>3. base \in X
    OBVIOUS
  <1>4. T \in [X \X (1 .. n) -> X]
    BY <1>1, <1>2
  <1>5. PICK f \in [0 .. n -> X] : GoesBy(f, T, base, n)
    <2> HIDE DEF T, X, base, n
    <2> QED
      BY <1>1, <1>3, <1>4, Recurs
  <1>6. After(f)
    <2>1. \A k \in 1 .. n : f[k - 1] \in X
      <3> HIDE DEF X, n
      <3> QED
        BY <1>1
    <2>2. \A x \in X, k \in 1 .. n : T[<<x, k>>] = EncStep(x, bytes[k])
      OBVIOUS
    <2> HIDE DEF T, X, base, n
    <2>0. f[0] = base /\ \A k \in 1 .. n : f[k] = T[<<f[k - 1], k>>]
      BY <1>5 DEF GoesBy
    <2>3. \A k \in 0 .. n : f[k] = IF k = 0 THEN base ELSE EncStep(f[k - 1], bytes[k])
      <3>1. \A k \in 1 .. n : f[k] = EncStep(f[k - 1], bytes[k])
        BY <2>0, <2>1, <2>2, Zenon
      <3>2. \A k \in 0 .. n : k # 0 => k \in 1 .. n
        BY <1>1
      <3> QED
        BY <2>0, <3>1, <3>2, Zenon
    <2>4. f = [k \in 0 .. n |-> f[k]]
      OBVIOUS
    <2> QED
      BY <2>3, <2>4
  <1>7. Through(EncStep, base, bytes) \in X
    <2>1. Through(EncStep, base, bytes) = (CHOOSE h : After(h))[n]
      BY DEF Through
    <2>2. ASSUME NEW h, After(h) PROVE h[n] = f[n]
      <3> HIDE DEF X, base, n
      <3> DEFINE S == {k \in Nat : k <= n => h[k] = f[k]}
      <3>1. 0 \in S
        BY <1>1, <1>6, <2>2
      <3>2. ASSUME NEW k \in Nat, k \in S PROVE k + 1 \in S
        <4> SUFFICES ASSUME k + 1 <= n PROVE h[k + 1] = f[k + 1]
          OBVIOUS
        <4>1. h[k + 1] = EncStep(h[k], bytes[k + 1])
          BY <1>1, <2>2
        <4>2. f[k + 1] = EncStep(f[k], bytes[k + 1])
          BY <1>1, <1>6
        <4>3. h[k] = f[k]
          BY <1>1, <3>2
        <4> QED
          BY <4>1, <4>2, <4>3
      <3>3. Nat \subseteq S
        <4> HIDE DEF S
        <4> QED
          BY <3>1, <3>2, NatSetInduction
      <3> QED
        BY <1>1, <3>3
    <2> HIDE DEF After, base, X, n
    <2>3. After(CHOOSE h : After(h))
      BY <1>6, Zenon
    <2>4. f[n] \in X
      BY <1>1
    <2> QED
      BY <2>1, <2>2, <2>3, <2>4
  <1> DEFINE s == Through(EncStep, base, bytes)
             end == CASE s.idx = 0 -> << >>
                      [] s.idx = 1 -> <<EncChar(s.remain), "=", "=">>
                      [] OTHER     -> <<EncChar(s.remain), "=">>
  <1>8. enc64(bytes) = s.out \o end
    BY DEF enc64
  <1> HIDE DEF s, n, base
  <1>9. s \in X
    BY <1>7 DEF s
  <1>10. EncChar(s.remain) \in Base64Chars /\ "=" \in Base64Chars
    BY <1>9 DEF Base64Chars
  <1>11. end \in Seq(Base64Chars)
    BY <1>10
  <1> HIDE DEF end
  <1> QED
    BY <1>8, <1>9, <1>11

NumberChars == {Digits[i] : i \in 1 .. 10} \cup {"-"}

LEMMA DecimalIs ==
    ASSUME NEW n \in Nat
    PROVE  Decimal(n) \in Seq(NumberChars)
  <1> DEFINE Rest(h, k) == (IF k < 10 THEN << >> ELSE h[k \div 10]) \o <<Digits[(k % 10) + 1]>>
             After(h) == h = [k \in 0 .. n |-> Rest(h, k)]
             X == Seq(NumberChars)
  <1>1. Decimal(n) = (CHOOSE h : After(h))[n]
    BY DEF Decimal
  <1>2. \A k \in Nat : k \div 10 \in Nat /\ (k >= 10 => k \div 10 < k) /\ (k % 10) + 1 \in 1 .. 10
    OBVIOUS
  <1>3. ASSUME NEW k \in Nat, NEW h, k >= 10 => h[k \div 10] \in X PROVE Rest(h, k) \in X
    <2>1. Digits[(k % 10) + 1] \in NumberChars
      BY <1>2 DEF NumberChars
    <2>2. <<Digits[(k % 10) + 1]>> \in X
      BY <2>1
    <2>3. (IF k < 10 THEN << >> ELSE h[k \div 10]) \in X
      BY <1>3
    <2> QED
      BY <2>2, <2>3, JoinIs
  <1> HIDE DEF X
  \* The recursion has a solution.
  <1> DEFINE Solves(h, m) == h \in [0 .. m -> X] /\ \A k \in 0 .. m : h[k] = Rest(h, k)
             S == {m \in Nat : \E h : Solves(h, m)}
  <1>4. 0 \in S
    <2> DEFINE e == [k \in 0 .. 0 |-> << >>]
               h == [k \in 0 .. 0 |-> Rest(e, 0)]
    <2>1. Rest(e, 0) \in X
      <3> HIDE DEF Rest, e
      <3> QED
        BY <1>3
    <2>2. \A k \in 0 .. 0 : k = 0
      OBVIOUS
    <2>3. Rest(h, 0) = Rest(e, 0)
      OBVIOUS
    <2> HIDE DEF Rest
    <2>4. Solves(h, 0)
      BY <2>1, <2>2, <2>3
    <2> QED
      BY <2>4
  <1>5. ASSUME NEW m \in Nat, m \in S PROVE m + 1 \in S
    <2>1. PICK g : Solves(g, m)
      BY <1>5
    <2> DEFINE h == [k \in 0 .. m + 1 |-> IF k <= m THEN g[k] ELSE Rest(g, m + 1)]
    <2>2. \A k \in 0 .. m + 1 : k >= 10 => k \div 10 \in 0 .. m
      BY <1>2
    <2>3. \A k \in 0 .. m : h[k] = g[k]
      OBVIOUS
    <2>4. \A k \in 0 .. m + 1 : Rest(h, k) = Rest(g, k)
      <3> SUFFICES ASSUME NEW k \in 0 .. m + 1 PROVE Rest(h, k) = Rest(g, k)
        OBVIOUS
      <3>1. k >= 10 => h[k \div 10] = g[k \div 10]
        BY <2>2, <2>3
      <3> HIDE DEF h
      <3>2. k < 10 \/ k >= 10
        OBVIOUS
      <3> QED
        BY <3>1, <3>2, Zenon
    <2>5. Rest(g, m + 1) \in X
      <3>1. m + 1 >= 10 => g[(m + 1) \div 10] \in X
        <4> HIDE DEF Rest
        <4> QED
          BY <2>1, <2>2
      <3> HIDE DEF Rest
      <3> QED
        BY <1>3, <3>1
    <2> HIDE DEF Rest
    <2>6. h \in [0 .. m + 1 -> X]
      BY <2>1, <2>5
    <2>7. \A k \in 0 .. m + 1 : h[k] = Rest(g, k)
      <3>1. \A k \in 0 .. m : g[k] = Rest(g, k)
        BY <2>1
      <3>2. \A k \in 0 .. m + 1 : k \in 0 .. m \/ k = m + 1
        OBVIOUS
      <3>3. h[m + 1] = Rest(g, m + 1)
        OBVIOUS
      <3> HIDE DEF h
      <3> QED
        BY <2>3, <3>1, <3>2, <3>3
    <2> HIDE DEF h
    <2>8. Solves(h, m + 1)
      BY <2>4, <2>6, <2>7
    <2> QED
      BY <2>8
  <1>6. PICK f : Solves(f, n)
    <2> HIDE DEF S
    <2>1. n \in S
      BY <1>4, <1>5, NatSetInduction
    <2> QED
      BY <2>1 DEF S
  <1>7. After(f)
    <2> HIDE DEF Rest
    <2>1. f = [k \in 0 .. n |-> f[k]]
      BY <1>6
    <2> QED
      BY <1>6, <2>1
  \* Every solution is of such texts.
  <1>8. ASSUME NEW h, After(h) PROVE h[n] \in X
    <2> DEFINE I == {m \in Nat : \A k \in 0 .. n : k < m => h[k] \in X}
    <2>1. 0 \in I
      OBVIOUS
    <2>2. ASSUME NEW m \in Nat, m \in I PROVE m + 1 \in I
      <3> SUFFICES ASSUME NEW k \in 0 .. n, k < m + 1 PROVE h[k] \in X
        OBVIOUS
      <3>1. h[k] = Rest(h, k)
        <4> HIDE DEF Rest
        <4> QED
          BY <1>8
      <3>2. k >= 10 => k \div 10 \in 0 .. n /\ k \div 10 < m
        BY <1>2
      <3>3. k >= 10 => h[k \div 10] \in X
        BY <2>2, <3>2
      <3> HIDE DEF Rest
      <3> QED
        BY <1>3, <3>1, <3>3
    <2>3. n + 1 \in I
      <3> HIDE DEF I
      <3> QED
        BY <2>1, <2>2, NatSetInduction
    <2> QED
      BY <2>3
  <1> HIDE DEF After
  <1>9. After(CHOOSE h : After(h))
    BY <1>7, Zenon
  <1> QED
    BY <1>1, <1>8, <1>9 DEF X

LEMMA NumbersAre == "encryption" \notin NumberChars
  <1>1. \A i \in 1 .. 10 : Digits[i] # "encryption"
    BY DEF Digits
  <1> QED
    BY <1>1 DEF NumberChars

LEMMA PrintedIsPlain == ASSUME NEW n \in Int PROVE Plain(Printed(n))
  <1>1. CASE n < 0
    <2>1. Decimal(-n) \in Seq(NumberChars)
      <3>1. -n \in Nat
        BY <1>1
      <3> QED
        BY <3>1, DecimalIs
    <2>2. <<"-">> \in Seq(NumberChars)
      <3>1. "-" \in NumberChars
        BY DEF NumberChars
      <3> QED
        BY <3>1
    <2>3. Printed(n) \in Seq(NumberChars)
      BY <1>1, <2>1, <2>2, JoinIs DEF Printed
    <2> QED
      BY <2>3, NumbersAre, Zenon DEF Plain
  <1>2. CASE ~(n < 0)
    <2>1. n \in Nat
      BY <1>2
    <2>2. Printed(n) \in Seq(NumberChars)
      BY <1>2, <2>1, DecimalIs DEF Printed
    <2> QED
      BY <2>2, NumbersAre, Zenon DEF Plain
  <1> QED
    BY <1>1, <1>2

LEMMA EncodedIsPlain == ASSUME NEW bytes \in Seq(0 .. 255) PROVE Plain(enc64(bytes))
  BY EncodedIsText, CharsAre, Zenon DEF Plain

LEMMA WordIsPlain == ASSUME NEW c, c # "encryption" PROVE Plain(<<c>>)
  <1>1. <<c>> \in Seq({c}) /\ "encryption" \notin {c}
    OBVIOUS
  <1> QED
    BY <1>1, Zenon DEF Plain

LEMMA AttributeIsPlain ==
    ASSUME NEW key, NEW value, key # "encryption", Plain(value)
    PROVE  Plain(Attribute(key, value))
  <1>1. <<" ", key, "=", "\"">> \in Seq({" ", key, "=", "\""}) /\ "encryption" \notin {" ", key, "=", "\""}
    OBVIOUS
  <1>2. Plain(<<" ", key, "=", "\"">>)
    BY <1>1, Zenon DEF Plain
  <1>3. Plain(<<"\"">>)
    BY WordIsPlain
  <1> QED
    BY <1>2, <1>3, JoinPlain, Zenon DEF Attribute

LEMMA BytesAre ==
    ASSUME NEW pattern \in Nat, NEW field \in Nat, NEW n \in Nat
    PROVE  Bytes(pattern, field, n) \in Seq(0 .. 255) /\ Len(Bytes(pattern, field, n)) = n
  <1>1. \A a \in 1 .. n : (pattern + (field * 31) + (a * a * 7)) % 256 \in 0 .. 255
    <2> TAKE a \in 1 .. n
    <2>1. field * 31 \in Nat /\ a * a * 7 \in Nat
      OBVIOUS
    <2>2. \A x, y \in Nat : (pattern + x + y) % 256 \in 0 .. 255
      OBVIOUS
    <2> QED
      BY <2>1, <2>2
  <1> DEFINE f == [a \in 1 .. n |-> (pattern + (field * 31) + (a * a * 7)) % 256]
  <1>2. f \in [1 .. n -> 0 .. 255]
    BY <1>1
  <1>3. Bytes(pattern, field, n) = f
    BY DEF Bytes
  <1> HIDE DEF f
  <1> QED
    BY <1>2, <1>3

IsBytes(s) == s \in Seq(0 .. 255)

LEMMA ParamIsPlain ==
    ASSUME NEW cipher \in Ciphers, NEW hash \in Hashes, NEW salt \in Seq(0 .. 255)
    PROVE  Plain(ParamXml(setByName(cipher, hash, salt)))
  <1> DEFINE p == setByName(cipher, hash, salt)
  <1>1. /\ p.saltSize \in Int /\ p.blockSize \in Int /\ p.keyBits \in Int /\ p.hashSize \in Int
        /\ p.saltValue \in Seq(0 .. 255)
        /\ p.hashName # "encryption"
    BY DEF setByName, BlockKeySize, KeyBits, HashSize, Hashes, Ciphers
  <1> HIDE DEF p
  <1>2. /\ Plain(Printed(p.saltSize)) /\ Plain(Printed(p.blockSize)) /\ Plain(Printed(p.keyBits))
        /\ Plain(Printed(p.hashSize)) /\ Plain(enc64(p.saltValue)) /\ Plain(<<p.hashName>>)
    BY <1>1, PrintedIsPlain, EncodedIsPlain, WordIsPlain
  <1>3. Plain(<<"AES">>) /\ Plain(<<"ChainingModeCBC">>)
    BY WordIsPlain
  <1>4. /\ Plain(Attribute("saltSize", Printed(p.saltSize)))
        /\ Plain(Attribute("blockSize", Printed(p.blockSize)))
        /\ Plain(Attribute("keyBits", Printed(p.keyBits)))
        /\ Plain(Attribute("hashSize", Printed(p.hashSize)))
        /\ Plain(Attribute("cipherAlgorithm", <<"AES">>))
        /\ Plain(Attribute("cipherChaining", <<"ChainingModeCBC">>))
        /\ Plain(Attribute("hashAlgorithm", <<p.hashName>>))
        /\ Plain(Attribute("saltValue", enc64(p.saltValue)))
    BY <1>2, <1>3, AttributeIsPlain
  <1>5. Plain(ParamXml(p))
    BY <1>4, JoinPlain, Zenon DEF ParamXml
  <1> QED
    BY <1>5 DEF p

LEMMA ContentIsPlain ==
    ASSUME NEW m \in Infos, HasXml(m)
    PROVE  Plain(Content(AgileObject(m)))
  <1> DEFINE o == AgileObject(m)
  <1>1. m.pattern \in Nat /\ m.cipher \in Ciphers /\ m.hash \in Hashes /\ m.spin \in Int
    BY InfosAssumption
  <1>2. /\ RoundUp(HashSize[m.hash]) \in Nat
        /\ KeyBits[m.cipher] \div 8 \in Nat
    BY <1>1 DEF RoundUp, BlockKeySize, HashSize, KeyBits, Hashes, Ciphers
  <1>3. /\ o.spinCount = m.spin
        /\ o.keyData = setByName(m.cipher, m.hash, Bytes(m.pattern, 1, 16))
        /\ o.encryptedKey = setByName(m.cipher, m.hash, Bytes(m.pattern, 4, 16))
        /\ o.encryptedHmacKey = Bytes(m.pattern, 2, RoundUp(HashSize[m.hash]))
        /\ o.encryptedHmacValue = Bytes(m.pattern, 3, RoundUp(HashSize[m.hash]))
        /\ o.encryptedVerifierHashInput = Bytes(m.pattern, 5, 16)
        /\ o.encryptedVerifierHashValue = Bytes(m.pattern, 6, RoundUp(HashSize[m.hash]))
        /\ o.encryptedKeyValue = Bytes(m.pattern, 7, KeyBits[m.cipher] \div 8)
    BY DEF AgileObject
  <1> HIDE DEF o
  <1>4. /\ Plain(ParamXml(o.keyData)) /\ Plain(ParamXml(o.encryptedKey))
    BY <1>1, <1>3, BytesAre, ParamIsPlain
  <1>5. /\ Plain(enc64(o.encryptedHmacKey)) /\ Plain(enc64(o.encryptedHmacValue))
        /\ Plain(enc64(o.encryptedVerifierHashInput)) /\ Plain(enc64(o.encryptedVerifierHashValue))
        /\ Plain(enc64(o.encryptedKeyValue))
    BY <1>1, <1>2, <1>3, BytesAre, EncodedIsPlain
  <1>6. Plain(Printed(o.spinCount)) /\ Plain(<<Uri.password>>)
    BY <1>1, <1>3, PrintedIsPlain, WordIsPlain DEF Uri
  <1>7. /\ Plain(Attribute("encryptedHmacKey", enc64(o.encryptedHmacKey)))
        /\ Plain(Attribute("encryptedHmacValue", enc64(o.encryptedHmacValue)))
        /\ Plain(Attribute("uri", <<Uri.password>>))
        /\ Plain(Attribute("spinCount", Printed(o.spinCount)))
        /\ Plain(Attribute("encryptedVerifierHashInput", enc64(o.encryptedVerifierHashInput)))
        /\ Plain(Attribute("encryptedVerifierHashValue", enc64(o.encryptedVerifierHashValue)))
        /\ Plain(Attribute("encryptedKeyValue", enc64(o.encryptedKeyValue)))
    BY <1>5, <1>6, AttributeIsPlain
  <1> DEFINE C == {"<", "/", ">", "keyData", "dataIntegrity", "keyEncryptors", "keyEncryptor", "p:encryptedKey"}
  <1>8. /\ <<"<", "keyData">> \in Seq(C) /\ <<"/", ">", "<", "dataIntegrity">> \in Seq(C)
        /\ <<"/", ">", "<", "keyEncryptors", ">", "<", "keyEncryptor">> \in Seq(C)
        /\ <<">", "<", "p:encryptedKey">> \in Seq(C)
        /\ <<"/", ">", "<", "/", "keyEncryptor", ">", "<", "/", "keyEncryptors", ">">> \in Seq(C)
        /\ "encryption" \notin C
    OBVIOUS
  <1>9. /\ Plain(<<"<", "keyData">>) /\ Plain(<<"/", ">", "<", "dataIntegrity">>)
        /\ Plain(<<"/", ">", "<", "keyEncryptors", ">", "<", "keyEncryptor">>)
        /\ Plain(<<">", "<", "p:encryptedKey">>)
        /\ Plain(<<"/", ">", "<", "/", "keyEncryptor", ">", "<", "/", "keyEncryptors", ">">>)
    <2> HIDE DEF C
    <2> QED
      BY <1>8, Zenon DEF Plain
  <1>10. Plain(Content(o))
    BY <1>4, <1>7, <1>9, JoinPlain, Zenon DEF Content
  <1> QED
    BY <1>10 DEF o
-----------------------------------------------------------------------------
(* What the reader meets first *)

\* SMT does not read these three.
Space == " "
Quote == "\""
Nothing == ""

LEMMA SpaceAndQuote ==
    /\ \A c \in {"<", ">", "?", "xml", "encryption", "\n", "\t", "\r", "=", "/", "'"} :
          Space # c /\ Quote # c /\ Nothing # c
    /\ Space # Quote /\ Space # Nothing /\ Quote # Nothing
    /\ \A c \in {"version", "1.0", "encoding", "UTF-8", "standalone", "yes", "xmlns", "xmlns:p", "xmlns:c"} :
          Space # c /\ Quote # c /\ Nothing # c
    /\ \A c : isSpace(c) <=> c \in {Space, "\t", "\r", "\n"}
    /\ \A c : isQuote(c) <=> c \in {Quote, "'"}
    /\ \A key, value : Attribute(key, value) = <<Space, key, "=", Quote>> \o value \o <<Quote>>
  BY Zenon DEF Space, Quote, Nothing, isSpace, isQuote, Attribute

Words ==
    {"<", ">", "?", "xml", "encryption", "\n", Space, "=", Quote, "/",
     "version", "1.0", "encoding", "UTF-8", "standalone", "yes", "xmlns", "xmlns:p", "xmlns:c",
     Uri.encryption, Uri.password, Uri.certificate}

LEMMA WordsAre ==
    /\ "<" \in Words /\ ">" \in Words /\ "?" \in Words /\ "xml" \in Words /\ "encryption" \in Words
    /\ "\n" \in Words /\ Space \in Words /\ "=" \in Words /\ Quote \in Words /\ "/" \in Words
    /\ "version" \in Words /\ "1.0" \in Words /\ "encoding" \in Words /\ "UTF-8" \in Words
    /\ "standalone" \in Words /\ "yes" \in Words /\ "xmlns" \in Words /\ "xmlns:p" \in Words
    /\ "xmlns:c" \in Words /\ Uri.encryption \in Words /\ Uri.password \in Words
    /\ Uri.certificate \in Words
  BY DEF Words

\* w is the n tokens of s and then the m of t.
Joined(w, s, n, t, m) ==
    Len(w) = n + m /\ \A i \in 1 .. n + m : w[i] = IF i <= n THEN s[i] ELSE t[i - n]

LEMMA JoinAt ==
    ASSUME NEW S, NEW s \in Seq(S), NEW t \in Seq(S), NEW n \in Nat, NEW m \in Nat, Len(s) = n, Len(t) = m
    PROVE  s \o t \in Seq(S) /\ Joined(s \o t, s, n, t, m)
  BY DEF Joined

\* An attribute of one token begins at p.
Keys == {"version", "encoding", "standalone", "xmlns", "xmlns:p", "xmlns:c"}
HasAttribute(w, p) ==
    /\ w[p] = Space /\ w[p + 1] \in Keys /\ w[p + 2] = "=" /\ w[p + 3] = Quote
    /\ w[p + 4] \notin {Quote, "encryption"} /\ w[p + 5] = Quote

LEMMA AttributeIs ==
    ASSUME NEW key \in Keys, NEW v \in Words, v \notin {Quote, "encryption"}
    PROVE  /\ Attribute(key, <<v>>) \in Seq(Words) /\ Len(Attribute(key, <<v>>)) = 6
           /\ HasAttribute(Attribute(key, <<v>>), 1)
  <1> DEFINE b == <<Space, key, "=", Quote>>
             c == b \o <<v>>
             a == c \o <<Quote>>
  <1>0. key \in Words
    BY WordsAre DEF Keys
  <1>1. b \in Seq(Words) /\ <<v>> \in Seq(Words) /\ <<Quote>> \in Seq(Words)
    BY <1>0, WordsAre
  <1>2. /\ Len(b) = 4 /\ b[1] = Space /\ b[2] = key /\ b[3] = "=" /\ b[4] = Quote
        /\ Len(<<v>>) = 1 /\ <<v>>[1] = v /\ Len(<<Quote>>) = 1 /\ <<Quote>>[1] = Quote
    OBVIOUS
  <1> HIDE DEF b
  <1>3. c \in Seq(Words) /\ Joined(c, b, 4, <<v>>, 1)
    BY <1>1, <1>2, JoinAt
  <1> HIDE DEF c
  <1>4. Len(c) = 5 /\ c[1] = b[1] /\ c[2] = b[2] /\ c[3] = b[3] /\ c[4] = b[4] /\ c[5] = <<v>>[1]
    BY <1>3 DEF Joined
  <1>9. a \in Seq(Words) /\ Joined(a, c, 5, <<Quote>>, 1)
    BY <1>1, <1>2, <1>3, <1>4, JoinAt
  <1>5. Attribute(key, <<v>>) = a
    BY SpaceAndQuote DEF a, b, c
  <1> HIDE DEF a
  <1>10. /\ Len(a) = 6 /\ a[1] = c[1] /\ a[2] = c[2] /\ a[3] = c[3] /\ a[4] = c[4] /\ a[5] = c[5]
         /\ a[6] = <<Quote>>[1]
    BY <1>9 DEF Joined
  <1>6. /\ a[1] = Space /\ a[2] = key /\ a[3] = "=" /\ a[4] = Quote /\ a[5] = v /\ a[6] = Quote
    BY <1>2, <1>4, <1>10
  <1>7. 1 + 1 = 2 /\ 1 + 2 = 3 /\ 1 + 3 = 4 /\ 1 + 4 = 5 /\ 1 + 5 = 6
    OBVIOUS
  <1>8. HasAttribute(a, 1)
    BY <1>6, <1>7, Zenon DEF HasAttribute
  <1> QED
    BY <1>5, <1>8, <1>9, <1>10

\* w is the n tokens of s and then an attribute.
WithAttribute(w, s, n) ==
    Len(w) = n + 6 /\ (\A i \in 1 .. n : w[i] = s[i]) /\ HasAttribute(w, n + 1)

LEMMA JoinAttribute ==
    ASSUME NEW s \in Seq(Words), NEW a \in Seq(Words), NEW n \in Nat,
           Len(s) = n, Len(a) = 6, HasAttribute(a, 1)
    PROVE  s \o a \in Seq(Words) /\ WithAttribute(s \o a, s, n)
  <1> DEFINE w == s \o a
  <1>0. 6 \in Nat
    OBVIOUS
  <1>1. w \in Seq(Words) /\ Joined(w, s, n, a, 6)
    BY <1>0, JoinAt
  <1> HIDE DEF w
  <1>2. Len(w) = n + 6 /\ \A i \in 1 .. n + 6 : w[i] = IF i <= n THEN s[i] ELSE a[i - n]
    BY <1>1 DEF Joined
  <1>3. \A i \in 1 .. n : w[i] = s[i]
    BY <1>1, <1>2
  <1>4. \A k \in 1 .. 6 : w[n + k] = a[k]
    <2> TAKE k \in 1 .. 6
    <2>1. n + k \in 1 .. n + 6 /\ ~(n + k <= n) /\ (n + k) - n = k
      BY <1>1
    <2> QED
      BY <1>2, <2>1
  <1>8. 1 + 1 = 2 /\ 1 + 2 = 3 /\ 1 + 3 = 4 /\ 1 + 4 = 5 /\ 1 + 5 = 6
    OBVIOUS
  <1>5. /\ w[n + 1] = a[1] /\ w[n + 2] = a[2] /\ w[n + 3] = a[3] /\ w[n + 4] = a[4]
        /\ w[n + 5] = a[5] /\ w[n + 6] = a[6]
    BY <1>4
  <1>6. /\ (n + 1) + 1 = n + 2 /\ (n + 1) + 2 = n + 3 /\ (n + 1) + 3 = n + 4
        /\ (n + 1) + 4 = n + 5 /\ (n + 1) + 5 = n + 6
    BY <1>1
  <1>7. HasAttribute(w, n + 1)
    BY <1>8, <1>5, <1>6, Zenon DEF HasAttribute
  <1> QED
    BY <1>1, <1>2, <1>3, <1>7 DEF w, WithAttribute

\* The first n tokens are the same.
Same(w, x, n) == \A i \in 1 .. n : w[i] = x[i]

\* The tokens of an attribute stay where they are.
LEMMA AttributeStays ==
    ASSUME NEW w, NEW x, NEW p \in Nat \ {0}, NEW n \in Nat, p + 5 <= n, Same(w, x, n), HasAttribute(x, p)
    PROVE  HasAttribute(w, p)
  <1>1. \A k \in 0 .. 5 : p + k \in 1 .. n
    OBVIOUS
  <1>2. \A k \in 0 .. 5 : w[p + k] = x[p + k]
    BY <1>1 DEF Same
  <1>3. /\ w[p + 0] = x[p + 0] /\ w[p + 1] = x[p + 1] /\ w[p + 2] = x[p + 2] /\ w[p + 3] = x[p + 3]
        /\ w[p + 4] = x[p + 4] /\ w[p + 5] = x[p + 5]
    BY <1>2
  <1>4. p + 0 = p
    OBVIOUS
  <1> QED
    BY <1>3, <1>4, Zenon DEF HasAttribute

LEMMA DeclarationIs ==
    /\ Declaration \in Seq(Words) /\ Len(Declaration) = 24
    /\ Declaration[1] = "<" /\ Declaration[2] = "?" /\ Declaration[3] = "xml"
    /\ HasAttribute(Declaration, 4)
    /\ HasAttribute(Declaration, 10)
    /\ HasAttribute(Declaration, 16)
    /\ Declaration[22] = "?" /\ Declaration[23] = ">" /\ Declaration[24] = "\n"
  <1> DEFINE d0 == <<"<", "?", "xml">>
             a1 == Attribute("version", <<"1.0">>)
             a2 == Attribute("encoding", <<"UTF-8">>)
             a3 == Attribute("standalone", <<"yes">>)
             d1 == d0 \o a1
             d2 == d1 \o a2
             d3 == d2 \o a3
             e == <<"?", ">", "\n">>
             d == d3 \o e
  <1>0. Declaration = d
    BY DEF Declaration
  <1>1. /\ d0 \in Seq(Words) /\ Len(d0) = 3 /\ d0[1] = "<" /\ d0[2] = "?" /\ d0[3] = "xml"
        /\ e \in Seq(Words) /\ Len(e) = 3 /\ e[1] = "?" /\ e[2] = ">" /\ e[3] = "\n"
    BY WordsAre
  <1>2. /\ a1 \in Seq(Words) /\ Len(a1) = 6 /\ HasAttribute(a1, 1)
        /\ a2 \in Seq(Words) /\ Len(a2) = 6 /\ HasAttribute(a2, 1)
        /\ a3 \in Seq(Words) /\ Len(a3) = 6 /\ HasAttribute(a3, 1)
    <2>1. "version" \in Keys /\ "encoding" \in Keys /\ "standalone" \in Keys
      BY DEF Keys
    <2>2. \A v \in {"1.0", "UTF-8", "yes"} : v \in Words /\ v \notin {Quote, "encryption"}
      BY SpaceAndQuote, WordsAre
    <2> QED
      BY <2>1, <2>2, AttributeIs
  <1> HIDE DEF d0, e, a1, a2, a3
  <1>3. /\ d1 \in Seq(Words) /\ Len(d1) = 9 /\ \A i \in 1 .. 3 : d1[i] = d0[i]
        /\ HasAttribute(d1, 4)
    <2>1. d1 \in Seq(Words) /\ WithAttribute(d1, d0, 3)
      BY <1>1, <1>2, JoinAttribute
    <2>2. 3 + 6 = 9 /\ 3 + 1 = 4
      OBVIOUS
    <2> HIDE DEF d1
    <2> QED
      BY <2>1, <2>2, Zenon DEF WithAttribute
  <1> HIDE DEF d1
  <1>4. /\ d2 \in Seq(Words) /\ Len(d2) = 15 /\ \A i \in 1 .. 9 : d2[i] = d1[i]
        /\ HasAttribute(d2, 10)
    <2>1. d2 \in Seq(Words) /\ WithAttribute(d2, d1, 9)
      BY <1>2, <1>3, JoinAttribute
    <2>2. 9 + 6 = 15 /\ 9 + 1 = 10
      OBVIOUS
    <2> HIDE DEF d2
    <2> QED
      BY <2>1, <2>2, Zenon DEF WithAttribute
  <1> HIDE DEF d2
  <1>5. /\ d3 \in Seq(Words) /\ Len(d3) = 21 /\ \A i \in 1 .. 15 : d3[i] = d2[i]
        /\ HasAttribute(d3, 16)
    <2>1. d3 \in Seq(Words) /\ WithAttribute(d3, d2, 15)
      BY <1>2, <1>4, JoinAttribute
    <2>2. 15 + 6 = 21 /\ 15 + 1 = 16
      OBVIOUS
    <2> HIDE DEF d3
    <2> QED
      BY <2>1, <2>2, Zenon DEF WithAttribute
  <1> HIDE DEF d3
  <1>6. d \in Seq(Words) /\ Joined(d, d3, 21, e, 3)
    BY <1>1, <1>5, JoinAt
  <1> HIDE DEF d
  <1>7. Len(d) = 24 /\ \A i \in 1 .. 21 : d[i] = d3[i]
    BY <1>6 DEF Joined
  <1>17. d[22] = e[1] /\ d[23] = e[2] /\ d[24] = e[3]
    BY <1>6 DEF Joined
  <1>8. d[22] = "?" /\ d[23] = ">" /\ d[24] = "\n"
    BY <1>1, <1>17, Zenon
  <1>n. /\ 4 \in Nat \ {0} /\ 10 \in Nat \ {0} /\ 16 \in Nat \ {0} /\ 9 \in Nat /\ 15 \in Nat /\ 21 \in Nat
        /\ 4 + 5 <= 9 /\ 10 + 5 <= 15 /\ 16 + 5 <= 21
    OBVIOUS
  <1>9. HasAttribute(d, 16)
    <2>1. Same(d, d3, 21)
      BY <1>7 DEF Same
    <2> QED
      BY <1>5, <1>n, <2>1, AttributeStays
  <1>10. \A i \in 1 .. 15 : d[i] = d2[i]
    BY <1>5, <1>7
  <1>11. HasAttribute(d, 10)
    <2>1. Same(d, d2, 15)
      BY <1>10 DEF Same
    <2> QED
      BY <1>4, <1>n, <2>1, AttributeStays
  <1>12. \A i \in 1 .. 9 : d[i] = d1[i]
    BY <1>4, <1>10
  <1>13. HasAttribute(d, 4)
    <2>1. Same(d, d1, 9)
      BY <1>12 DEF Same
    <2> QED
      BY <1>3, <1>n, <2>1, AttributeStays
  <1>14. d[1] = "<" /\ d[2] = "?" /\ d[3] = "xml"
    BY <1>1, <1>3, <1>12
  <1> QED
    BY <1>0, <1>6, <1>7, <1>8, <1>9, <1>11, <1>13, <1>14

\* Where the root's tag ends.
RootEnd(isOffice2013) == IF isOffice2013 THEN 21 ELSE 15

LEMMA PlainAttribute ==
    ASSUME NEW w, NEW p \in Nat, HasAttribute(w, p)
    PROVE  \A i \in p .. p + 5 : w[i] # "encryption"
  <1>1. "encryption" \notin Keys \cup {Space, "=", Quote}
    BY SpaceAndQuote DEF Keys
  <1>2. /\ w[p] # "encryption" /\ w[p + 1] # "encryption" /\ w[p + 2] # "encryption"
        /\ w[p + 3] # "encryption" /\ w[p + 4] # "encryption" /\ w[p + 5] # "encryption"
    BY <1>1, Zenon DEF HasAttribute
  <1>3. \A i \in p .. p + 5 : i = p \/ i = p + 1 \/ i = p + 2 \/ i = p + 3 \/ i = p + 4 \/ i = p + 5
    OBVIOUS
  <1> QED
    BY <1>2, <1>3, Zenon

LEMMA UrisAre ==
    \A v \in {Uri.encryption, Uri.password, Uri.certificate} : v \notin {Quote, "encryption"}
  <1>1. /\ Quote # "http://schemas.microsoft.com/office/2006/encryption"
        /\ Quote # "http://schemas.microsoft.com/office/2006/keyEncryptor/password"
        /\ Quote # "http://schemas.microsoft.com/office/2006/keyEncryptor/certificate"
    BY Zenon DEF Quote
  <1> QED
    BY <1>1 DEF Uri

LEMMA RootIs ==
    ASSUME NEW b \in BOOLEAN
    PROVE  /\ Root(b) \in Seq(Words) /\ Len(Root(b)) = RootEnd(b)
           /\ Root(b)[1] = "<" /\ Root(b)[2] = "encryption"
           /\ HasAttribute(Root(b), 3) /\ HasAttribute(Root(b), 9)
           /\ b => HasAttribute(Root(b), 15)
           /\ Root(b)[RootEnd(b)] = ">"
  <1> DEFINE r0 == <<"<", "encryption">>
             a1 == Attribute("xmlns", <<Uri.encryption>>)
             a2 == Attribute("xmlns:p", <<Uri.password>>)
             a3 == Attribute("xmlns:c", <<Uri.certificate>>)
             e == <<">">>
             r1 == r0 \o a1
             r2 == r1 \o a2
             r3 == r2 \o IF b THEN a3 ELSE << >>
             n == IF b THEN 20 ELSE 14
             r == r3 \o e
  <1>0. Root(b) = r
    BY DEF Root
  <1>1. /\ r0 \in Seq(Words) /\ Len(r0) = 2 /\ r0[1] = "<" /\ r0[2] = "encryption"
        /\ e \in Seq(Words) /\ Len(e) = 1 /\ e[1] = ">"
    BY WordsAre
  <1>2. /\ a1 \in Seq(Words) /\ Len(a1) = 6 /\ HasAttribute(a1, 1)
        /\ a2 \in Seq(Words) /\ Len(a2) = 6 /\ HasAttribute(a2, 1)
        /\ a3 \in Seq(Words) /\ Len(a3) = 6 /\ HasAttribute(a3, 1)
    <2>1. "xmlns" \in Keys /\ "xmlns:p" \in Keys /\ "xmlns:c" \in Keys
      BY DEF Keys
    <2> QED
      BY <2>1, UrisAre, WordsAre, AttributeIs
  <1> HIDE DEF r0, e, a1, a2, a3
  <1>3. /\ r1 \in Seq(Words) /\ Len(r1) = 8 /\ \A i \in 1 .. 2 : r1[i] = r0[i]
        /\ HasAttribute(r1, 3)
    <2>1. r1 \in Seq(Words) /\ WithAttribute(r1, r0, 2)
      BY <1>1, <1>2, JoinAttribute
    <2>2. 2 + 6 = 8 /\ 2 + 1 = 3
      OBVIOUS
    <2> HIDE DEF r1
    <2> QED
      BY <2>1, <2>2, Zenon DEF WithAttribute
  <1> HIDE DEF r1
  <1>4. /\ r2 \in Seq(Words) /\ Len(r2) = 14 /\ \A i \in 1 .. 8 : r2[i] = r1[i]
        /\ HasAttribute(r2, 9)
    <2>1. r2 \in Seq(Words) /\ WithAttribute(r2, r1, 8)
      BY <1>2, <1>3, JoinAttribute
    <2>2. 8 + 6 = 14 /\ 8 + 1 = 9
      OBVIOUS
    <2> HIDE DEF r2
    <2> QED
      BY <2>1, <2>2, Zenon DEF WithAttribute
  <1> HIDE DEF r2
  <1>5. /\ r3 \in Seq(Words) /\ Len(r3) = n /\ \A i \in 1 .. 14 : r3[i] = r2[i]
        /\ b => HasAttribute(r3, 15)
    <2>1. CASE b
      <3> DEFINE x == r2 \o a3
      <3>1. x \in Seq(Words) /\ WithAttribute(x, r2, 14)
        BY <1>2, <1>4, JoinAttribute
      <3>2. 14 + 6 = 20 /\ 14 + 1 = 15
        OBVIOUS
      <3>3. r3 = x /\ n = 20
        BY <2>1
      <3> HIDE DEF x, r3, n
      <3> QED
        BY <3>1, <3>2, <3>3, Zenon DEF WithAttribute
    <2>2. CASE ~b
      <3>1. r3 = r2 /\ n = 14
        BY <1>4, <2>2
      <3> QED
        BY <1>4, <2>2, <3>1, Zenon
    <2> QED
      BY <2>1, <2>2
  <1>n. n \in Nat /\ n + 1 = RootEnd(b) /\ n >= 14 /\ (b => n = 20) /\ 1 \in Nat
    BY DEF RootEnd
  <1> HIDE DEF r3, n
  <1>6. r \in Seq(Words) /\ Joined(r, r3, n, e, 1)
    BY <1>1, <1>5, <1>n, JoinAt
  <1> HIDE DEF r
  <1>7. /\ Len(r) = n + 1
        /\ \A i \in 1 .. n : r[i] = r3[i]
        /\ r[n + 1] = e[1]
    <2>1. Len(r) = n + 1 /\ \A i \in 1 .. n + 1 : r[i] = IF i <= n THEN r3[i] ELSE e[i - n]
      BY <1>6 DEF Joined
    <2>2. (\A i \in 1 .. n : i \in 1 .. n + 1 /\ i <= n) /\ n + 1 \in 1 .. n + 1 /\ ~(n + 1 <= n) /\ (n + 1) - n = 1
      BY <1>n
    <2> QED
      BY <2>1, <2>2, Zenon
  <1>8. Len(r) = RootEnd(b) /\ r[RootEnd(b)] = ">"
    BY <1>1, <1>7, <1>n, Zenon
  <1>9. b => HasAttribute(r, 15)
    <2>1. 15 \in Nat \ {0} /\ (b => 15 + 5 <= n)
      BY <1>n
    <2>2. Same(r, r3, n)
      BY <1>7 DEF Same
    <2> QED
      BY <1>5, <1>n, <2>1, <2>2, AttributeStays
  <1>10. \A i \in 1 .. 14 : r[i] = r2[i]
    <2>1. \A i \in 1 .. 14 : i \in 1 .. n
      BY <1>n
    <2> QED
      BY <1>5, <1>7, <2>1, Zenon
  <1>11. \A i \in 1 .. 8 : r[i] = r1[i]
    BY <1>4, <1>10
  <1>12. HasAttribute(r, 9) /\ HasAttribute(r, 3)
    <2>1. 14 \in Nat /\ 9 \in Nat \ {0} /\ 9 + 5 <= 14 /\ 8 \in Nat /\ 3 \in Nat \ {0} /\ 3 + 5 <= 8
      OBVIOUS
    <2>2. Same(r, r2, 14) /\ Same(r, r1, 8)
      BY <1>10, <1>11 DEF Same
    <2> QED
      BY <1>3, <1>4, <2>1, <2>2, AttributeStays
  <1>13. r[1] = "<" /\ r[2] = "encryption"
    BY <1>1, <1>3, <1>11
  <1> QED
    BY <1>0, <1>6, <1>8, <1>9, <1>12, <1>13
-----------------------------------------------------------------------------
(* A word's end *)

\* The first place from p on, of a text of n tokens, where F does not hold.
EndsAt(e, p, n, F(_)) ==
    /\ e \in p .. n \cup {n + 1}
    /\ e \in p .. n => ~F(text[e])
    /\ \A q \in p .. n : q < e => F(text[q])

\* The same of a set of places.
Found(e, p, n, B) ==
    /\ e \in p .. n \cup {n + 1}
    /\ e \in p .. n => e \in B
    /\ \A q \in p .. n : q < e => q \notin B

LEMMA EndOf ==
    ASSUME NEW n \in Nat, NEW p \in Nat, NEW B, B \subseteq p .. n
    PROVE  Found(Min({n + 1} \cup B), p, n, B)
  <1> DEFINE S == {n + 1} \cup B
             e == Min(S)
  <1>1. S \subseteq Nat /\ S # {}
    OBVIOUS
  <1>2. e \in S /\ \A x \in S : e <= x
    <2> HIDE DEF S
    <2> QED
      BY <1>1, LeastOf
  <1> HIDE DEF e
  <1>3. \A q \in p .. n : q < e => q \notin B
    <2>1. \A x \in S : x \in Nat
      BY <1>1
    <2>2. \A q \in B : q \in S
      OBVIOUS
    <2> HIDE DEF S
    <2> QED
      BY <1>2, <2>1, <2>2
  <1>4. e \in p .. n \cup {n + 1} /\ (e \in p .. n => e \in B)
    BY <1>2
  <1> QED
    BY <1>3, <1>4 DEF Found, e

LEMMA WordEndIs ==
    ASSUME NEW n \in Nat, Len(text) = n, NEW p \in Nat
    PROVE  /\ EndsAt(WordEnd(p, isSpace), p, n, isSpace)
           /\ EndsAt(WordEnd(p, isName), p, n, isName)
           /\ EndsAt(WordEnd(p, isName2), p, n, isName2)
           /\ EndsAt(WordEnd(p, isContent), p, n, isContent)
           /\ EndsAt(WordEnd(p, LAMBDA c : c # "'"), p, n, LAMBDA c : c # "'")
           /\ EndsAt(WordEnd(p, LAMBDA c : c # "\""), p, n, LAMBDA c : c # "\"")
  <1>0. Past = n + 1
    BY DEF Past
  <1>1. EndsAt(WordEnd(p, isSpace), p, n, isSpace)
    <2> DEFINE B == {q \in p .. n : ~(isSpace(text[q]))}
    <2>1. WordEnd(p, isSpace) = Min({n + 1} \cup B)
      BY <1>0 DEF WordEnd
    <2>2. \A q \in p .. n : q \in B <=> ~(isSpace(text[q]))
      BY Zenon
    <2>3. B \subseteq p .. n
      BY Zenon
    <2> HIDE DEF B
    <2>4. Found(Min({n + 1} \cup B), p, n, B)
      BY <2>3, EndOf
    <2> QED
      BY <2>1, <2>2, <2>4, Zenon DEF EndsAt, Found
  <1>2. EndsAt(WordEnd(p, isName), p, n, isName)
    <2> DEFINE B == {q \in p .. n : ~(isName(text[q]))}
    <2>1. WordEnd(p, isName) = Min({n + 1} \cup B)
      BY <1>0 DEF WordEnd
    <2>2. \A q \in p .. n : q \in B <=> ~(isName(text[q]))
      BY Zenon
    <2>3. B \subseteq p .. n
      BY Zenon
    <2> HIDE DEF B
    <2>4. Found(Min({n + 1} \cup B), p, n, B)
      BY <2>3, EndOf
    <2> QED
      BY <2>1, <2>2, <2>4, Zenon DEF EndsAt, Found
  <1>3. EndsAt(WordEnd(p, isName2), p, n, isName2)
    <2> DEFINE B == {q \in p .. n : ~(isName2(text[q]))}
    <2>1. WordEnd(p, isName2) = Min({n + 1} \cup B)
      BY <1>0 DEF WordEnd
    <2>2. \A q \in p .. n : q \in B <=> ~(isName2(text[q]))
      BY Zenon
    <2>3. B \subseteq p .. n
      BY Zenon
    <2> HIDE DEF B
    <2>4. Found(Min({n + 1} \cup B), p, n, B)
      BY <2>3, EndOf
    <2> QED
      BY <2>1, <2>2, <2>4, Zenon DEF EndsAt, Found
  <1>4. EndsAt(WordEnd(p, isContent), p, n, isContent)
    <2> DEFINE B == {q \in p .. n : ~(isContent(text[q]))}
    <2>1. WordEnd(p, isContent) = Min({n + 1} \cup B)
      BY <1>0 DEF WordEnd
    <2>2. \A q \in p .. n : q \in B <=> ~(isContent(text[q]))
      BY Zenon
    <2>3. B \subseteq p .. n
      BY Zenon
    <2> HIDE DEF B
    <2>4. Found(Min({n + 1} \cup B), p, n, B)
      BY <2>3, EndOf
    <2> QED
      BY <2>1, <2>2, <2>4, Zenon DEF EndsAt, Found
  <1>5. EndsAt(WordEnd(p, LAMBDA c : c # "'"), p, n, LAMBDA c : c # "'")
    <2> DEFINE B == {q \in p .. n : ~(text[q] # "'")}
    <2>1. WordEnd(p, LAMBDA c : c # "'") = Min({n + 1} \cup B)
      BY <1>0 DEF WordEnd
    <2>2. \A q \in p .. n : q \in B <=> ~(text[q] # "'")
      BY Zenon
    <2>3. B \subseteq p .. n
      BY Zenon
    <2> HIDE DEF B
    <2>4. Found(Min({n + 1} \cup B), p, n, B)
      BY <2>3, EndOf
    <2> QED
      BY <2>1, <2>2, <2>4, Zenon DEF EndsAt, Found
  <1>6. EndsAt(WordEnd(p, LAMBDA c : c # "\""), p, n, LAMBDA c : c # "\"")
    <2> DEFINE B == {q \in p .. n : ~(text[q] # "\"")}
    <2>1. WordEnd(p, LAMBDA c : c # "\"") = Min({n + 1} \cup B)
      BY <1>0, Zenon DEF WordEnd
    <2>2. \A q \in p .. n : q \in B <=> ~(text[q] # "\"")
      BY Zenon
    <2>3. B \subseteq p .. n
      BY Zenon
    <2> HIDE DEF B
    <2>4. Found(Min({n + 1} \cup B), p, n, B)
      BY <2>3, EndOf
    <2> QED
      BY <2>1, <2>2, <2>4, Zenon DEF EndsAt, Found
  <1> QED
    BY <1>1, <1>2, <1>3, <1>4, <1>5, <1>6
-----------------------------------------------------------------------------
(* The whole text *)

\* e is where the root's tag ends.
Document(w, e) ==
    /\ e = 39 \/ e = 45
    /\ w[1] = "<" /\ w[2] = "?" /\ w[3] = "xml"
    /\ HasAttribute(w, 4) /\ HasAttribute(w, 10) /\ HasAttribute(w, 16)
    /\ w[22] = "?" /\ w[23] = ">" /\ w[24] = "\n"
    /\ w[25] = "<" /\ w[26] = "encryption"
    /\ HasAttribute(w, 27) /\ HasAttribute(w, 33) /\ (e = 45 => HasAttribute(w, 39))
    /\ w[e] = ">"

\* Of n tokens, the root's name is where its tag begins and where it is closed.
NamedTwice(w, n) == \A i \in 1 .. n : w[i] = "encryption" => i = 26 \/ i = n - 1

\* The k tokens of x follow n others.
Moved(w, x, n, k) == \A i \in 1 .. k : w[n + i] = x[i]

LEMMA AttributeMoves ==
    ASSUME NEW w, NEW x, NEW n \in Nat, NEW k \in Nat, NEW p \in Nat \ {0}, p + 5 <= k,
           Moved(w, x, n, k), HasAttribute(x, p)
    PROVE  HasAttribute(w, n + p)
  <1>1. \A j \in 0 .. 5 : p + j \in 1 .. k
    OBVIOUS
  <1>2. \A j \in 0 .. 5 : w[n + (p + j)] = x[p + j]
    BY <1>1 DEF Moved
  <1>3. \A j \in 0 .. 5 : n + (p + j) = (n + p) + j
    OBVIOUS
  <1>4. \A j \in 0 .. 5 : w[(n + p) + j] = x[p + j]
    BY <1>2, <1>3, Zenon
  <1>5. /\ w[(n + p) + 0] = x[p + 0] /\ w[(n + p) + 1] = x[p + 1] /\ w[(n + p) + 2] = x[p + 2]
        /\ w[(n + p) + 3] = x[p + 3] /\ w[(n + p) + 4] = x[p + 4] /\ w[(n + p) + 5] = x[p + 5]
    BY <1>4
  <1>6. p + 0 = p /\ (n + p) + 0 = n + p
    OBVIOUS
  <1> QED
    BY <1>5, <1>6, Zenon DEF HasAttribute

LEMMA JoinParts ==
    ASSUME NEW w, NEW s, NEW n \in Nat, NEW t, NEW m \in Nat, Joined(w, s, n, t, m)
    PROVE  Len(w) = n + m /\ Same(w, s, n) /\ Moved(w, t, n, m)
  <1>1. Len(w) = n + m /\ \A i \in 1 .. n + m : w[i] = IF i <= n THEN s[i] ELSE t[i - n]
    BY DEF Joined
  <1>2. \A i \in 1 .. n : i \in 1 .. n + m /\ i <= n
    OBVIOUS
  <1>3. \A i \in 1 .. m : n + i \in 1 .. n + m /\ ~(n + i <= n) /\ (n + i) - n = i
    OBVIOUS
  <1>4. \A i \in 1 .. n : w[i] = s[i]
    BY <1>1, <1>2
  <1>5. \A i \in 1 .. m : w[n + i] = t[i]
    BY <1>1, <1>3
  <1> QED
    BY <1>1, <1>4, <1>5 DEF Same, Moved

LEMMA EndIs ==
    /\ EndOfRoot \in Seq(Words) /\ Len(EndOfRoot) = 4
    /\ EndOfRoot[1] = "<" /\ EndOfRoot[2] = "/" /\ EndOfRoot[3] = "encryption" /\ EndOfRoot[4] = ">"
  BY WordsAre DEF EndOfRoot

LEMMA XmlIs ==
    ASSUME NEW m \in Infos, HasXml(m)
    PROVE  LET w == Xml(AgileObject(m), m.isOffice2013)
           IN  /\ \E S : w \in Seq(S)
               /\ Len(w) > 0
               /\ NamedTwice(w, Len(w))
               /\ \E e : Document(w, e)
  <1> DEFINE b == m.isOffice2013
             x1 == Declaration \o Root(b)
             c == Content(AgileObject(m))
             x2 == x1 \o c
             w == x2 \o EndOfRoot
             k == Len(c)
             e == 24 + RootEnd(b)
  <1>0. Xml(AgileObject(m), m.isOffice2013) = w
    BY DEF Xml
  <1>1. b \in BOOLEAN
    BY InfosAssumption
  <1>2. PICK T : c \in Seq(T) /\ "encryption" \notin T
    BY ContentIsPlain DEF Plain
  <1>3. k \in Nat /\ \A i \in 1 .. k : c[i] \in T
    BY <1>2, ElementsOf
  <1> DEFINE S == Words \cup T
  <1>4. \A q : (q \in Seq(Words) => q \in Seq(S)) /\ (q \in Seq(T) => q \in Seq(S))
    OBVIOUS
  <1>e. /\ 24 \in Nat /\ RootEnd(b) \in Nat /\ 4 \in Nat /\ e \in Nat /\ e + k \in Nat
        /\ (~b => e = 39 /\ RootEnd(b) = 15) /\ (b => e = 45 /\ RootEnd(b) = 21)
    BY <1>1, <1>3 DEF RootEnd
  <1> HIDE DEF S, c, k
  <1>5. x1 \in Seq(S) /\ Joined(x1, Declaration, 24, Root(b), RootEnd(b))
    BY <1>1, <1>4, <1>e, DeclarationIs, RootIs, JoinAt
  <1>6. Len(x1) = e /\ Same(x1, Declaration, 24) /\ Moved(x1, Root(b), 24, RootEnd(b))
    BY <1>5, <1>e, JoinParts
  <1> HIDE DEF x1
  <1>7. x2 \in Seq(S) /\ Joined(x2, x1, e, c, k)
    <2>1. c \in Seq(S) /\ Len(c) = k
      BY <1>2, <1>4 DEF k
    <2> HIDE DEF e
    <2> QED
      BY <1>3, <1>5, <1>6, <1>e, <2>1, JoinAt
  <1> HIDE DEF e
  <1>8. Len(x2) = e + k /\ Same(x2, x1, e) /\ Moved(x2, c, e, k)
    BY <1>3, <1>7, <1>e, JoinParts
  <1> HIDE DEF x2
  <1>9. w \in Seq(S) /\ Joined(w, x2, e + k, EndOfRoot, 4)
    BY <1>4, <1>7, <1>8, <1>e, EndIs, JoinAt
  <1>10. Len(w) = (e + k) + 4 /\ Same(w, x2, e + k) /\ Moved(w, EndOfRoot, e + k, 4)
    BY <1>9, <1>e, JoinParts
  <1> HIDE DEF w, b
  <1>11. Same(w, x1, e)
    <2>1. \A i \in 1 .. e : i \in 1 .. e + k
      BY <1>3, <1>e
    <2> QED
      BY <1>8, <1>10, <2>1, Zenon DEF Same
  <1>12. Same(w, Declaration, 24)
    <2>1. \A i \in 1 .. 24 : i \in 1 .. e
      BY <1>e, <1>1
    <2> QED
      BY <1>6, <1>11, <2>1, Zenon DEF Same
  <1>13. Moved(w, Root(b), 24, RootEnd(b))
    <2>1. \A i \in 1 .. RootEnd(b) : 24 + i \in 1 .. e
      BY <1>e, <1>1
    <2> QED
      BY <1>6, <1>11, <2>1, Zenon DEF Same, Moved
  <1>14. HasAttribute(w, 4) /\ HasAttribute(w, 10) /\ HasAttribute(w, 16)
    <2>1. /\ 4 \in Nat \ {0} /\ 10 \in Nat \ {0} /\ 16 \in Nat \ {0}
          /\ 4 + 5 <= 24 /\ 10 + 5 <= 24 /\ 16 + 5 <= 24
      OBVIOUS
    <2> QED
      BY <1>12, <1>e, <2>1, DeclarationIs, AttributeStays
  <1>15. /\ w[1] = "<" /\ w[2] = "?" /\ w[3] = "xml"
         /\ w[22] = "?" /\ w[23] = ">" /\ w[24] = "\n"
    <2>1. \A i \in {1, 2, 3, 22, 23, 24} : w[i] = Declaration[i]
      BY <1>12 DEF Same
    <2> QED
      BY <2>1, DeclarationIs
  <1>16. HasAttribute(w, 27) /\ HasAttribute(w, 33) /\ (b => HasAttribute(w, 39))
    <2>1. /\ 3 \in Nat \ {0} /\ 9 \in Nat \ {0} /\ 15 \in Nat \ {0}
          /\ 3 + 5 <= RootEnd(b) /\ 9 + 5 <= RootEnd(b) /\ (b => 15 + 5 <= RootEnd(b))
      BY <1>e, <1>1
    <2>2. HasAttribute(w, 24 + 3) /\ HasAttribute(w, 24 + 9) /\ (b => HasAttribute(w, 24 + 15))
      BY <1>1, <1>13, <1>e, <2>1, RootIs, AttributeMoves
    <2>3. 24 + 3 = 27 /\ 24 + 9 = 33 /\ 24 + 15 = 39
      OBVIOUS
    <2> QED
      BY <2>2, <2>3, Zenon
  <1>17. w[25] = "<" /\ w[26] = "encryption" /\ w[e] = ">"
    <2>1. 1 \in 1 .. RootEnd(b) /\ 2 \in 1 .. RootEnd(b) /\ RootEnd(b) \in 1 .. RootEnd(b)
      BY <1>e, <1>1
    <2>2. w[24 + 1] = Root(b)[1] /\ w[24 + 2] = Root(b)[2] /\ w[24 + RootEnd(b)] = Root(b)[RootEnd(b)]
      BY <1>13, <2>1, Zenon DEF Moved
    <2>3. 24 + 1 = 25 /\ 24 + 2 = 26
      OBVIOUS
    <2> QED
      BY <1>1, <2>2, <2>3, RootIs, Zenon DEF e
  <1>18. Document(w, e)
    <2>1. (e = 39 \/ e = 45) /\ (e = 45 => b)
      BY <1>e, <1>1
    <2> QED
      BY <1>14, <1>15, <1>16, <1>17, <2>1, Zenon DEF Document
  <1>19. ASSUME NEW i \in 1 .. (e + k) + 4, w[i] = "encryption" PROVE i = 26 \/ i = ((e + k) + 4) - 1
    <2>1. /\ \A j \in 4 .. 4 + 5 : w[j] # "encryption"
          /\ \A j \in 10 .. 10 + 5 : w[j] # "encryption"
          /\ \A j \in 16 .. 16 + 5 : w[j] # "encryption"
          /\ \A j \in 27 .. 27 + 5 : w[j] # "encryption"
          /\ \A j \in 33 .. 33 + 5 : w[j] # "encryption"
          /\ b => \A j \in 39 .. 39 + 5 : w[j] # "encryption"
      BY <1>14, <1>16, PlainAttribute
    <2>2. \A j \in {1, 2, 3, 22, 23, 24, 25, e} : w[j] # "encryption"
      BY <1>15, <1>17
    <2>3. CASE i <= e
      <3>1. \A j \in 1 .. 45 : \/ j \in {1, 2, 3, 22, 23, 24, 25, 26}
                               \/ j \in 4 .. 4 + 5 \/ j \in 10 .. 10 + 5 \/ j \in 16 .. 16 + 5
                               \/ j \in 27 .. 27 + 5 \/ j \in 33 .. 33 + 5 \/ j \in 39 .. 39 + 5 \/ j = 45
        OBVIOUS
      <3>2. i \in 1 .. 45 /\ (i \in 39 .. 39 + 5 => b \/ i = e) /\ (i = 45 => i = e)
        BY <1>1, <1>e, <2>3
      <3> QED
        BY <2>1, <2>2, <3>1, <3>2, <1>19
    <2>4. CASE e < i /\ i <= e + k
      <3>1. i - e \in 1 .. k /\ e + (i - e) = i /\ i \in 1 .. e + k
        BY <1>3, <1>e, <2>4
      <3>2. w[i] = x2[i] /\ x2[e + (i - e)] = c[i - e]
        BY <1>8, <1>10, <3>1, Zenon DEF Same, Moved
      <3>3. w[i] = c[i - e]
        BY <3>1, <3>2, Zenon
      <3> QED
        BY <1>2, <1>3, <1>19, <3>1, <3>3
    <2>5. CASE e + k < i
      <3>1. i - (e + k) \in 1 .. 4 /\ (e + k) + (i - (e + k)) = i
        BY <1>3, <1>e, <2>5
      <3>2. w[(e + k) + (i - (e + k))] = EndOfRoot[i - (e + k)]
        BY <1>10, <3>1, Zenon DEF Moved
      <3>3. w[i] = EndOfRoot[i - (e + k)]
        BY <3>1, <3>2, Zenon
      <3>4. \A j \in 1 .. 4 : j = 3 \/ EndOfRoot[j] # "encryption"
        <4>1. \A j \in 1 .. 4 : j = 1 \/ j = 2 \/ j = 3 \/ j = 4
          OBVIOUS
        <4> QED
          BY <4>1, EndIs
      <3>5. i - (e + k) = 3
        BY <1>19, <3>1, <3>3, <3>4
      <3> QED
        BY <1>3, <1>e, <3>5
    <2> QED
      BY <1>3, <1>e, <2>3, <2>4, <2>5
  <1>20. NamedTwice(w, Len(w))
    BY <1>10, <1>19 DEF NamedTwice
  <1>21. Len(w) > 0
    BY <1>3, <1>10, <1>e
  <1> QED
    BY <1>0, <1>9, <1>18, <1>20, <1>21
-----------------------------------------------------------------------------
(* The reader, on a text of n tokens that begins as w does *)

LEMMA Kinds ==
    /\ isSpace(Space) /\ ~isName(Space) /\ ~isName2(Space)
    /\ \A c \in Keys : ~isSpace(c) /\ isName(c) /\ c \notin {">", "/", "?"}
    /\ ~isSpace("=") /\ ~isName("=") /\ ~isSpace(Quote) /\ Quote # "'"
    /\ ~isSpace("?") /\ ~isSpace("<") /\ ~isSpace(">") /\ isSpace("\n")
    /\ isName("<") /\ isName("?") /\ isName("xml")
    /\ isName2("encryption") /\ ~isSpace("encryption")
    /\ ~isQuote(Nothing) /\ ~isEqual(Nothing)
  BY SpaceAndQuote DEF isName, isName2, isEqual, Keys

LEMMA TokenIs ==
    ASSUME NEW n \in Nat, Len(text) = n, NEW p \in Nat
    PROVE  /\ p <= n => Token(p) = text[p]
           /\ p > n => Token(p) = Nothing
           /\ Past = n + 1
  <1>1. Past = n + 1
    BY DEF Past
  <1>2. Token(p) = IF p < Past THEN text[p] ELSE Nothing
    BY Zenon DEF Token, Nothing
  <1> QED
    BY <1>1, <1>2

LEMMA EndsAreNat ==
    ASSUME NEW n \in Nat, Len(text) = n, NEW p \in Nat
    PROVE  /\ SkipSpace(p) \in Nat /\ WordEnd(p, isName) \in Nat /\ WordEnd(p, isName2) \in Nat
           /\ WordEnd(p, isContent) \in Nat
  <1>1. \A x \in p .. n \cup {n + 1} : x \in Nat
    OBVIOUS
  <1>2. /\ SkipSpace(p) \in p .. n \cup {n + 1} /\ WordEnd(p, isName) \in p .. n \cup {n + 1}
        /\ WordEnd(p, isName2) \in p .. n \cup {n + 1} /\ WordEnd(p, isContent) \in p .. n \cup {n + 1}
    BY WordEndIs, Zenon DEF EndsAt, SkipSpace
  <1> QED
    BY <1>1, <1>2, Zenon

\* Spaces are skipped up to the next token, or up to the end.
LEMMA SkipIs ==
    ASSUME NEW n \in Nat, Len(text) = n, NEW p \in Nat
    PROVE  /\ SkipSpace(p) \in p .. n \cup {n + 1}
           /\ SkipSpace(p) \in p .. n => ~isSpace(text[SkipSpace(p)])
           /\ \A q \in p .. n : q < SkipSpace(p) => isSpace(text[q])
  BY WordEndIs, Zenon DEF EndsAt, SkipSpace

LEMMA NameEndIs ==
    ASSUME NEW n \in Nat, Len(text) = n, NEW p \in Nat
    PROVE  /\ WordEnd(p, isName) \in p .. n \cup {n + 1}
           /\ WordEnd(p, isName) \in p .. n => ~isName(text[WordEnd(p, isName)])
           /\ \A q \in p .. n : q < WordEnd(p, isName) => isName(text[q])
  BY WordEndIs, Zenon DEF EndsAt

LEMMA Name2EndIs ==
    ASSUME NEW n \in Nat, Len(text) = n, NEW p \in Nat
    PROVE  /\ WordEnd(p, isName2) \in p .. n \cup {n + 1}
           /\ WordEnd(p, isName2) \in p .. n => ~isName2(text[WordEnd(p, isName2)])
           /\ \A q \in p .. n : q < WordEnd(p, isName2) => isName2(text[q])
  BY WordEndIs, Zenon DEF EndsAt

ValueEnd(quote) ==
    IF Token(quote) = "'" THEN WordEnd(quote + 1, LAMBDA c : c # "'")
    ELSE WordEnd(quote + 1, LAMBDA c : c # "\"")

LEMMA ValueEndIs ==
    ASSUME NEW n \in Nat, Len(text) = n, NEW quote \in Nat
    PROVE  /\ ValueEnd(quote) \in quote + 1 .. n \cup {n + 1}
           /\ Token(quote) = Quote =>
                /\ ValueEnd(quote) \in quote + 1 .. n => text[ValueEnd(quote)] = Quote
                /\ \A q \in quote + 1 .. n : q < ValueEnd(quote) => text[q] # Quote
  <1>1. quote + 1 \in Nat
    OBVIOUS
  <1> DEFINE v1 == WordEnd(quote + 1, LAMBDA c : c # "'")
             v2 == WordEnd(quote + 1, LAMBDA c : c # "\"")
  <1>2. /\ EndsAt(v1, quote + 1, n, LAMBDA c : c # "'")
        /\ EndsAt(v2, quote + 1, n, LAMBDA c : c # "\"")
    BY <1>1, WordEndIs, Zenon
  <1>3. ValueEnd(quote) = IF Token(quote) = "'" THEN v1 ELSE v2
    BY Zenon DEF ValueEnd
  <1> HIDE DEF v1, v2
  <1>4. v1 \in quote + 1 .. n \cup {n + 1}
    BY <1>2, Zenon DEF EndsAt
  <1>5. /\ v2 \in quote + 1 .. n \cup {n + 1}
        /\ v2 \in quote + 1 .. n => text[v2] = Quote
        /\ \A q \in quote + 1 .. n : q < v2 => text[q] # Quote
    BY <1>2, Zenon DEF EndsAt, Quote
  <1>6. Token(quote) = Quote => ValueEnd(quote) = v2
    BY <1>3, Kinds
  <1>7. ValueEnd(quote) = v1 \/ ValueEnd(quote) = v2
    BY <1>3
  <1>8. ValueEnd(quote) \in quote + 1 .. n \cup {n + 1}
    BY <1>4, <1>5, <1>7, Zenon
  <1> QED
    BY <1>5, <1>6, <1>8, Zenon

LEMMA ParseAttributeIs ==
    ASSUME ParseAttribute
    PROVE  LET begin == SkipSpace(at)
               keyEnd == WordEnd(begin, isName)
               equal == SkipSpace(keyEnd)
               quote == SkipSpace(equal + 1)
           IN  /\ InTag /\ ~Ends(Token(begin))
               /\ \/ Throw
                  \/ /\ keyEnd # begin /\ isEqual(Token(equal)) /\ isQuote(Token(quote))
                     /\ ~(ValueEnd(quote) >= Past)
                     /\ at' = ValueEnd(quote) + 1
                     /\ \E a : tag' = [tag EXCEPT !.attr = a]
                     /\ UNCHANGED <<text, nodes, open, mode>>
  BY Zenon DEF ParseAttribute, ValueEnd

\* Where an attribute begins no tag ends, and the reader gets past it or throws.
LEMMA AttributeStep ==
    ASSUME NEW n \in Nat, Len(text) = n, NEW w, Same(text, w, n),
           NEW p \in Nat \ {0}, at = p, HasAttribute(w, p)
    PROVE  /\ Token(SkipSpace(p)) \in Keys \cup {Nothing}
           /\ ParseAttribute =>
                \/ Throw
                \/ /\ at' = p + 6 /\ \E a : tag' = [tag EXCEPT !.attr = a]
                   /\ UNCHANGED <<text, nodes, open, mode>>
  <1>1. /\ w[p] = Space /\ w[p + 1] \in Keys /\ w[p + 2] = "=" /\ w[p + 3] = Quote
        /\ w[p + 4] # Quote /\ w[p + 5] = Quote
    BY Zenon DEF HasAttribute
  <1>2. \A i \in 1 .. n : text[i] = w[i]
    BY DEF Same
  <1> DEFINE begin == SkipSpace(p)
             keyEnd == WordEnd(begin, isName)
             equal == SkipSpace(keyEnd)
             quote == SkipSpace(equal + 1)
             valEnd == ValueEnd(quote)
  <1>3. /\ begin \in p .. n \cup {n + 1}
        /\ begin \in p .. n => ~isSpace(text[begin])
        /\ \A q \in p .. n : q < begin => isSpace(text[q])
    BY SkipIs
  <1> HIDE DEF begin
  <1>4. begin = n + 1 \/ (begin = p + 1 /\ p + 1 <= n)
    <2> SUFFICES ASSUME begin \in p .. n PROVE begin = p + 1 /\ p + 1 <= n
      BY <1>3
    <2>1. text[p] = w[p]
      BY <1>2
    <2>2. begin # p
      BY <1>1, <1>3, <2>1, Kinds
    <2>3. p + 1 \in p .. n /\ p + 1 \in 1 .. n
      BY <2>2
    <2>4. ~isSpace(text[p + 1])
      BY <1>1, <1>2, <2>3, Kinds
    <2>5. ~(p + 1 < begin)
      BY <1>3, <2>3, <2>4
    <2> QED
      BY <2>2, <2>3, <2>5
  <1>5. Token(begin) \in Keys \cup {Nothing}
    <2>1. begin \in Nat
      BY <1>4
    <2>2. CASE begin = n + 1
      BY <2>1, <2>2, TokenIs
    <2>3. CASE begin = p + 1 /\ p + 1 <= n
      <3>1. p + 1 \in 1 .. n
        BY <2>3
      <3>2. text[p + 1] \in Keys
        BY <1>1, <1>2, <3>1
      <3> QED
        BY <2>1, <2>3, <3>2, TokenIs
    <2> QED
      BY <1>4, <2>2, <2>3
  <1>6. ASSUME keyEnd # begin, isEqual(Token(equal)), isQuote(Token(quote)), ~(valEnd >= Past)
        PROVE  valEnd = p + 5
    <2>1. begin \in Nat
      BY <1>4
    <2>2. /\ keyEnd \in begin .. n \cup {n + 1}
          /\ keyEnd \in begin .. n => ~isName(text[keyEnd])
          /\ \A q \in begin .. n : q < keyEnd => isName(text[q])
      BY <2>1, NameEndIs
    <2> HIDE DEF keyEnd
    <2>3. begin = p + 1 /\ p + 1 <= n
      BY <1>4, <1>6, <2>2
    <2>4. keyEnd \in Nat
      BY <2>2, <2>3
    <2>5. /\ equal \in keyEnd .. n \cup {n + 1}
          /\ equal \in keyEnd .. n => ~isSpace(text[equal])
          /\ \A q \in keyEnd .. n : q < equal => isSpace(text[q])
      BY <2>4, SkipIs
    <2> HIDE DEF equal
    <2>6. equal \in Nat
      BY <2>4, <2>5
    <2>7. equal <= n
      BY <1>6, <2>6, TokenIs, Kinds
    <2>8. keyEnd >= p + 2 /\ p + 2 <= n
      BY <1>6, <2>2, <2>3, <2>5, <2>7
    <2>9. text[p + 2] = "="
      BY <1>1, <1>2, <2>8
    <2>10. keyEnd = p + 2
      <3>1. p + 2 \in begin .. n
        BY <2>3, <2>8
      <3>2. ~(p + 2 < keyEnd)
        BY <2>2, <2>9, <3>1, Kinds
      <3> QED
        BY <2>4, <2>8, <3>2
    <2>11. equal = p + 2
      <3>1. p + 2 \in keyEnd .. n
        BY <2>8, <2>10
      <3>2. ~(p + 2 < equal)
        BY <2>5, <2>9, <3>1, Kinds
      <3> QED
        BY <2>5, <2>6, <2>7, <2>10, <3>2
    <2>12. equal + 1 = p + 3 /\ equal + 1 \in Nat
      BY <2>11
    <2>13. /\ quote \in p + 3 .. n \cup {n + 1}
           /\ quote \in p + 3 .. n => ~isSpace(text[quote])
           /\ \A q \in p + 3 .. n : q < quote => isSpace(text[q])
      BY <2>12, SkipIs
    <2> HIDE DEF quote
    <2>14. quote \in Nat
      BY <2>13
    <2>15. quote <= n
      BY <1>6, <2>14, TokenIs, Kinds
    <2>16. p + 3 <= n /\ p + 3 \in 1 .. n
      BY <2>13, <2>15
    <2>17. text[p + 3] = Quote
      BY <1>1, <1>2, <2>16
    <2>18. quote = p + 3
      <3>1. p + 3 \in p + 3 .. n /\ ~isSpace(text[p + 3])
        BY <2>16, <2>17, Kinds
      <3>2. ~(p + 3 < quote)
        BY <2>13, <3>1
      <3> QED
        BY <2>13, <2>15, <3>2
    <2>19. Token(quote) = Quote
      BY <2>14, <2>15, <2>17, <2>18, TokenIs
    <2>20. /\ valEnd \in quote + 1 .. n \cup {n + 1}
           /\ valEnd \in quote + 1 .. n => text[valEnd] = Quote
           /\ \A q \in quote + 1 .. n : q < valEnd => text[q] # Quote
      BY <2>14, <2>19, ValueEndIs
    <2> HIDE DEF valEnd
    <2>21. quote + 1 = p + 4 /\ Past = n + 1
      <3>1. Past = n + 1
        BY <2>14, TokenIs
      <3> QED
        BY <2>18, <3>1
    <2>22. valEnd \in p + 4 .. n /\ text[valEnd] = Quote
      BY <1>6, <2>20, <2>21
    <2>23. p + 4 \in 1 .. n
      BY <2>22
    <2>24. valEnd # p + 4
      BY <1>1, <1>2, <2>22, <2>23
    <2>25. p + 5 \in 1 .. n /\ p + 5 \in quote + 1 .. n
      BY <2>21, <2>22, <2>24
    <2>26. text[p + 5] = Quote
      BY <1>1, <1>2, <2>25
    <2>27. ~(p + 5 < valEnd)
      BY <2>20, <2>25, <2>26
    <2> QED
      BY <2>22, <2>24, <2>27
  <1>7. ASSUME ParseAttribute
        PROVE  \/ Throw
               \/ /\ at' = p + 6 /\ \E a : tag' = [tag EXCEPT !.attr = a]
                  /\ UNCHANGED <<text, nodes, open, mode>>
    <2>1. \/ Throw
          \/ /\ keyEnd # begin /\ isEqual(Token(equal)) /\ isQuote(Token(quote))
             /\ ~(valEnd >= Past)
             /\ at' = valEnd + 1
             /\ \E a : tag' = [tag EXCEPT !.attr = a]
             /\ UNCHANGED <<text, nodes, open, mode>>
      BY <1>7, ParseAttributeIs, Zenon DEF begin
    <2> HIDE DEF keyEnd, equal, quote, valEnd
    <2>2. (p + 5) + 1 = p + 6
      OBVIOUS
    <2> QED
      BY <1>6, <2>1, <2>2, Zenon
  <1> QED
    BY <1>5, <1>7 DEF begin
-----------------------------------------------------------------------------
(* How far the reader can be *)

Bare == nodes = << >> /\ open = << >>
RootTag == \E a : tag = [name |-> <<"encryption">>, attr |-> a]

\* The root is open, and is the first of the open nodes.
Inside ==
    /\ at \in Nat
    /\ open \in Seq(Nat) /\ open # << >> /\ open[1] = 1
    /\ \E S : nodes \in Seq(S)
    /\ nodes # << >> /\ nodes[1].name = <<"encryption">>

\* e: where the root's tag ends.
Reading(e) ==
    \/ mode = "threw"
    \/ mode = "header" /\ at = 1 /\ Bare
    \/ mode = "declaration" /\ (at = 4 \/ at = 10 \/ at = 16 \/ at = 22) /\ Bare
    \/ mode = "root" /\ at = 24 /\ Bare
    \/ mode = "attributes" /\ (at = 27 \/ at = 33 \/ at = 39 \/ at = 45) /\ at <= e /\ Bare /\ RootTag
    \/ mode \in {"node", "attributes"} /\ Inside

LEMMA ThrowIs == ASSUME NEW e, Throw PROVE Reading(e)' /\ text' = text
  BY DEF Throw, Reading

LEMMA WordIs ==
    ASSUME NEW S, text \in Seq(S), NEW n \in Nat, Len(text) = n, NEW p \in Nat \ {0}, NEW end \in Nat, end <= n + 1
    PROVE  /\ end > p => Len(Word(p, end)) = end - p /\ Word(p, end)[1] = text[p]
           /\ ~(end > p) => Len(Word(p, end)) = 0
  BY DEF Word

LEMMA HeaderStep ==
    ASSUME NEW S, text \in Seq(S), NEW n \in Nat, Len(text) = n, NEW w, NEW e, Same(text, w, n), Document(w, e),
           mode = "header", at = 1, Bare, ReadHeader
    PROVE  Reading(e)' /\ text' = text
  <1> DEFINE begin == SkipSpace(1)
             end == WordEnd(begin, isName)
  <1>1. \/ Throw
        \/ /\ Word(begin, end) = <<"<", "?", "xml">>
           /\ at' = end /\ mode' = "declaration" /\ UNCHANGED <<text, tag, nodes, open>>
    BY Zenon DEF ReadHeader
  <1>2. /\ begin \in 1 .. n \cup {n + 1}
        /\ \A q \in 1 .. n : q < begin => isSpace(text[q])
    BY SkipIs
  <1> HIDE DEF begin
  <1>3. begin \in Nat \ {0} /\ begin <= n + 1
    BY <1>2
  <1>4. end \in begin .. n \cup {n + 1}
    BY <1>3, NameEndIs
  <1> HIDE DEF end
  <1>5. ASSUME Word(begin, end) = <<"<", "?", "xml">> PROVE end = 4
    <2>1. Len(<<"<", "?", "xml">>) = 3
      OBVIOUS
    <2>2. Len(Word(begin, end)) = 3
      BY <1>5, <2>1, Zenon
    <2>3. end \in Nat /\ end <= n + 1
      BY <1>3, <1>4
    <2>8. /\ end > begin => Len(Word(begin, end)) = end - begin
          /\ ~(end > begin) => Len(Word(begin, end)) = 0
      BY <1>3, <2>3, WordIs
    <2>4. end > begin /\ end - begin = 3
      BY <1>3, <2>2, <2>3, <2>8
    <2>5. 1 \in 1 .. n
      BY <1>3, <2>3, <2>4
    <2>6. text[1] = "<"
      BY <2>5 DEF Same, Document
    <2>7. ~(1 < begin)
      BY <1>2, <2>5, <2>6, Kinds
    <2> QED
      BY <1>3, <2>3, <2>4, <2>7
  <1>6. CASE Throw
    BY <1>6, ThrowIs
  <1>7. CASE Word(begin, end) = <<"<", "?", "xml">> /\ at' = end /\ mode' = "declaration" /\ UNCHANGED <<text, tag, nodes, open>>
    BY <1>5, <1>7 DEF Reading, Bare
  <1> QED
    BY <1>1, <1>6, <1>7

\* At a token that is no space, nothing is skipped.
LEMMA StayAt ==
    ASSUME NEW n \in Nat, Len(text) = n, NEW w, Same(text, w, n), NEW p \in Nat \ {0}, ~isSpace(w[p])
    PROVE  /\ p <= n => SkipSpace(p) = p /\ Token(SkipSpace(p)) = w[p]
           /\ p > n => SkipSpace(p) = n + 1 /\ Token(SkipSpace(p)) = Nothing
  <1>1. /\ SkipSpace(p) \in p .. n \cup {n + 1}
        /\ \A q \in p .. n : q < SkipSpace(p) => isSpace(text[q])
    BY SkipIs
  <1>2. CASE p <= n
    <2>1. p \in 1 .. n /\ p \in p .. n
      BY <1>2
    <2>2. text[p] = w[p]
      BY <2>1 DEF Same
    <2>3. ~(p < SkipSpace(p))
      BY <1>1, <2>1, <2>2
    <2>4. SkipSpace(p) = p
      BY <1>1, <1>2, <2>3
    <2> QED
      BY <1>2, <2>2, <2>4, TokenIs
  <1>3. CASE p > n
    <2>1. SkipSpace(p) = n + 1
      BY <1>1, <1>3
    <2>2. n + 1 \in Nat /\ n + 1 > n
      OBVIOUS
    <2> QED
      BY <1>3, <2>1, <2>2, TokenIs
  <1> QED
    BY <1>2, <1>3

\* There is no attribute at the end of the text.
LEMMA NoAttributeAtEnd ==
    ASSUME NEW n \in Nat, Len(text) = n, SkipSpace(at) = n + 1, ParseAttribute
    PROVE  Throw
  <1>1. n + 1 \in Nat
    OBVIOUS
  <1>2. WordEnd(n + 1, isName) \in n + 1 .. n \cup {n + 1}
    BY <1>1, NameEndIs
  <1>3. WordEnd(n + 1, isName) = n + 1
    BY <1>2
  <1> QED
    BY <1>3, ParseAttributeIs, Zenon

LEMMA DeclarationStep ==
    ASSUME NEW n \in Nat, Len(text) = n, NEW w, NEW e, Same(text, w, n), Document(w, e),
           mode = "declaration", at = 4 \/ at = 10 \/ at = 16 \/ at = 22, Bare,
           EndAttributes \/ ParseAttribute
    PROVE  Reading(e)' /\ text' = text
  <1>0. InHeader /\ \A c : Ends(c) <=> c = "?"
    BY DEF InHeader, Ends
  <1>1. CASE at = 22
    <2>1. /\ 22 <= n => SkipSpace(22) = 22 /\ Token(SkipSpace(22)) = "?"
          /\ 22 > n => SkipSpace(22) = n + 1 /\ Token(SkipSpace(22)) = Nothing
      <3>1. w[22] = "?" /\ ~isSpace(w[22])
        BY Kinds DEF Document
      <3> QED
        BY <3>1, StayAt
    <2>2. CASE 22 <= n
      <3>1. EndAttributes
        <4>1. ParseAttribute => ~Ends(Token(SkipSpace(at)))
          BY ParseAttributeIs, Zenon
        <4> QED
          BY <1>0, <1>1, <2>1, <2>2, <4>1
      <3>2. \/ Throw
            \/ at' = 22 + 2 /\ mode' = "root" /\ UNCHANGED <<text, nodes, open>>
        <4>1. Token(SkipSpace(at)) # ">" /\ SkipSpace(at) = 22
          BY <1>1, <2>1, <2>2
        <4> QED
          BY <1>0, <3>1, <4>1, Zenon DEF EndAttributes
      <3> QED
        BY <3>2, ThrowIs DEF Reading, Bare
    <2>3. CASE 22 > n
      <3>1. ~Ends(Token(SkipSpace(at)))
        BY <1>0, <1>1, <2>1, <2>3, SpaceAndQuote
      <3>2. ParseAttribute
        BY <3>1, Zenon DEF EndAttributes
      <3>3. Throw
        BY <1>1, <2>1, <2>3, <3>2, NoAttributeAtEnd
      <3> QED
        BY <3>3, ThrowIs
    <2> QED
      BY <2>2, <2>3
  <1>2. CASE at # 22
    <2>1. at \in Nat \ {0} /\ HasAttribute(w, at)
      <3>1. HasAttribute(w, 4) /\ HasAttribute(w, 10) /\ HasAttribute(w, 16)
        BY DEF Document
      <3> QED
        BY <1>2, <3>1
    <2>2. Token(SkipSpace(at)) # "?"
      BY <2>1, AttributeStep, SpaceAndQuote, Kinds
    <2>3. ParseAttribute
      BY <1>0, <2>2, Zenon DEF EndAttributes
    <2>4. \/ Throw
          \/ at' = at + 6 /\ UNCHANGED <<text, nodes, open, mode>>
      BY <2>1, <2>3, AttributeStep
    <2> QED
      BY <1>2, <2>4, ThrowIs DEF Reading, Bare
  <1> QED
    BY <1>1, <1>2

LEMMA OneOf == ASSUME NEW S, NEW s \in Seq(S), NEW i \in Nat \ {0}, i <= Len(s) PROVE SubSeq(s, i, i) = <<s[i]>>
  <1>1. SubSeq(s, i, i) \in Seq(S) /\ Len(SubSeq(s, i, i)) = 1 /\ SubSeq(s, i, i)[1] = s[i]
    BY SubSeqProperties
  <1>2. s[i] \in S
    OBVIOUS
  <1>3. <<s[i]>> \in Seq(S) /\ Len(<<s[i]>>) = 1 /\ <<s[i]>>[1] = s[i]
    BY <1>2
  <1> DEFINE u == SubSeq(s, i, i)
             v == <<s[i]>>
  <1>4. \A j \in 1 .. Len(u) : u[j] = v[j]
    BY <1>1, <1>3
  <1>5. u \in Seq(S) /\ v \in Seq(S) /\ Len(u) = Len(v)
    BY <1>1, <1>3
  <1> HIDE DEF u, v
  <1>6. u = v
    BY <1>4, <1>5, SeqEqual
  <1> QED
    BY <1>6 DEF u, v

LEMMA AppendKeepsFirst ==
    ASSUME NEW S, NEW s \in Seq(S), s # << >>, NEW a \in S
    PROVE  Append(s, a) \in Seq(S) /\ Append(s, a) # << >> /\ Append(s, a)[1] = s[1]
  <1>1. Len(s) \in Nat \ {0}
    OBVIOUS
  <1>2. Append(s, a) \in Seq(S) /\ Len(Append(s, a)) = Len(s) + 1 /\ Append(s, a)[1] = s[1]
    BY <1>1, AppendProperties
  <1> QED
    BY <1>1, <1>2

LEMMA FrontKeepsFirst ==
    ASSUME NEW S, NEW s \in Seq(S), s # << >>, Len(s) # 1
    PROVE  Front(s) \in Seq(S) /\ Front(s) # << >> /\ Front(s)[1] = s[1]
  <1> DEFINE n == Len(s) - 1
  <1>1. n \in Nat \ {0}
    OBVIOUS
  <1>2. n <= Len(s)
    OBVIOUS
  <1>3. Front(s) = SubSeq(s, 1, n)
    BY DEF Front
  <1> HIDE DEF n
  <1>4. SubSeq(s, 1, n) \in Seq(S) /\ Len(SubSeq(s, 1, n)) = n /\ SubSeq(s, 1, n)[1] = s[1]
    BY <1>1, <1>2
  <1> QED
    BY <1>1, <1>3, <1>4

LEMMA BeginTagIs ==
    ASSUME NEW begin, BeginTag(begin)
    PROVE  LET end == WordEnd(begin + 1, isName2)
           IN  \/ Throw
               \/ /\ at' = end /\ mode' = "attributes" /\ UNCHANGED <<text, nodes, open>>
                  /\ tag' = [name |-> Word(begin + 1, end), attr |-> NoAttributes]
  BY Zenon DEF BeginTag

LEMMA RootStep ==
    ASSUME NEW S, text \in Seq(S), NEW n \in Nat, Len(text) = n, NEW w, NEW e, Same(text, w, n), Document(w, e),
           mode = "root", at = 24, Bare, ParseTag
    PROVE  Reading(e)' /\ text' = text
  <1> DEFINE begin == SkipSpace(24)
  <1>1. TagAt(begin)
    BY Zenon DEF ParseTag
  <1>2. w[24] = "\n" /\ w[25] = "<" /\ w[26] = "encryption" /\ w[27] = Space
    <2>1. HasAttribute(w, 27)
      BY DEF Document
    <2> QED
      BY <2>1, Zenon DEF Document, HasAttribute
  <1>3. \A i \in 1 .. n : text[i] = w[i]
    BY DEF Same
  <1>4. /\ begin \in 24 .. n \cup {n + 1}
        /\ begin \in 24 .. n => ~isSpace(text[begin])
        /\ \A q \in 24 .. n : q < begin => isSpace(text[q])
    BY SkipIs
  <1> HIDE DEF begin
  <1>5. begin = n + 1 \/ (begin = 25 /\ 25 <= n)
    <2> SUFFICES ASSUME begin \in 24 .. n PROVE begin = 25 /\ 25 <= n
      BY <1>4
    <2>1. text[24] = "\n"
      BY <1>2, <1>3
    <2>2. begin # 24
      BY <1>4, <2>1, Kinds
    <2>3. 25 \in 24 .. n /\ 25 \in 1 .. n
      BY <2>2
    <2>4. ~isSpace(text[25])
      BY <1>2, <1>3, <2>3, Kinds
    <2>5. ~(25 < begin)
      BY <1>4, <2>3, <2>4
    <2> QED
      BY <2>2, <2>3, <2>5
  <1>6. CASE begin = n + 1
    <2>1. Token(begin) # "<"
      <3>1. n + 1 \in Nat /\ n + 1 > n
        OBVIOUS
      <3> QED
        BY <1>6, <3>1, TokenIs, SpaceAndQuote
    <2>2. Throw
      BY <1>1, <2>1, Zenon DEF TagAt
    <2> QED
      BY <2>2, ThrowIs
  <1>7. CASE begin = 25 /\ 25 <= n
    <2> DEFINE end == WordEnd(26, isName2)
    <2>0. 26 \in Nat \ {0} /\ 25 + 1 = 26
      OBVIOUS
    <2>1. CASE 26 > n
      <3>1. Past = n + 1
        BY TokenIs, <2>0
      <3>2. begin + 1 >= Past
        BY <1>7, <2>1, <3>1
      <3>3. Throw
        BY <1>1, <3>2, Zenon DEF TagAt
      <3> QED
        BY <3>3, ThrowIs
    <2>2. CASE 26 <= n
      <3>1. text[26] = "encryption" /\ Token(26) = "encryption"
        <4>1. text[26] = "encryption"
          BY <1>2, <1>3, <2>2
        <4> QED
          BY <2>2, <4>1, TokenIs
      <3>2. \/ Throw
            \/ /\ at' = end /\ mode' = "attributes" /\ UNCHANGED <<text, nodes, open>>
               /\ tag' = [name |-> Word(26, end), attr |-> NoAttributes]
        <4>1. begin + 1 = 26 /\ Token(begin + 1) # "/"
          BY <1>7, <3>1
        <4>2. Throw \/ BeginTag(begin)
          BY <1>1, <4>1, Zenon DEF TagAt
        <4> QED
          BY <4>1, <4>2, BeginTagIs, Zenon
      <3>3. end = 27
        <4>1. /\ end \in 26 .. n \cup {n + 1}
              /\ end \in 26 .. n => ~isName2(text[end])
              /\ \A q \in 26 .. n : q < end => isName2(text[q])
          BY <2>0, Name2EndIs
        <4> HIDE DEF end
        <4>2. end # 26
          BY <2>2, <3>1, <4>1, Kinds
        <4>3. 27 <= n => ~(27 < end)
          <5> SUFFICES ASSUME 27 <= n PROVE ~(27 < end)
            OBVIOUS
          <5>1. 27 \in 26 .. n /\ text[27] = Space
            BY <1>2, <1>3
          <5> QED
            BY <4>1, <5>1, Kinds
        <4> QED
          BY <2>2, <4>1, <4>2, <4>3
      <3> HIDE DEF end
      <3>4. Word(26, end) = <<"encryption">>
        <4>1. Word(26, end) = SubSeq(text, 26, 26)
          BY <3>3 DEF Word
        <4>2. SubSeq(text, 26, 26) = <<text[26]>>
          BY <2>0, <2>2, OneOf
        <4> QED
          BY <3>1, <4>1, <4>2
      <3>5. e >= 27
        BY DEF Document
      <3>6. CASE Throw
        BY <3>6, ThrowIs
      <3>7. CASE ~Throw
        <4>1. at' = 27 /\ mode' = "attributes" /\ UNCHANGED <<text, nodes, open>> /\ 27 <= e
          BY <3>2, <3>3, <3>5, <3>7
        <4>2. \E a : tag' = [name |-> <<"encryption">>, attr |-> a]
          BY <3>2, <3>4, <3>7, Zenon
        <4> QED
          BY <4>1, <4>2 DEF Reading, Bare, RootTag
      <3> QED
        BY <3>6, <3>7
    <2> QED
      BY <2>1, <2>2
  <1> QED
    BY <1>5, <1>6, <1>7

LEMMA RootAttributesStep ==
    ASSUME NEW n \in Nat, Len(text) = n, NEW w, NEW e, Same(text, w, n), Document(w, e),
           mode = "attributes", at = 27 \/ at = 33 \/ at = 39 \/ at = 45, at <= e, Bare, RootTag,
           EndAttributes \/ ParseAttribute
    PROVE  Reading(e)' /\ text' = text
  <1>0. ~InHeader /\ \A c : Ends(c) <=> c \in {">", "/"}
    BY DEF InHeader, Ends
  <1>e. e = 39 \/ e = 45
    BY DEF Document
  <1>1. CASE at = e
    <2>0. e \in Nat \ {0}
      BY <1>e
    <2>1. /\ e <= n => SkipSpace(e) = e /\ Token(SkipSpace(e)) = ">"
          /\ e > n => SkipSpace(e) = n + 1 /\ Token(SkipSpace(e)) = Nothing
      <3>1. w[e] = ">" /\ ~isSpace(w[e])
        BY Kinds DEF Document
      <3> QED
        BY <2>0, <3>1, StayAt
    <2>2. CASE e <= n
      <3>1. EndAttributes
        <4>1. ParseAttribute => ~Ends(Token(SkipSpace(at)))
          BY ParseAttributeIs, Zenon
        <4> QED
          BY <1>0, <1>1, <2>1, <2>2, <4>1
      <3>2. at' = e + 1 /\ AppendChild(FALSE) /\ text' = text
        <4>1. SkipSpace(at) = e /\ ~(Token(SkipSpace(at)) # ">")
          BY <1>1, <2>1, <2>2
        <4>2. (Token(SkipSpace(at)) # ">") = FALSE
          BY <4>1
        <4> QED
          BY <1>0, <3>1, <4>1, <4>2 DEF EndAttributes
      <3>3. nodes' = <<tag>> /\ open' = <<1>>
        <4>1. nodes' = Append(nodes, tag) /\ open' = Append(open, Len(nodes) + 1)
          BY <3>2 DEF AppendChild
        <4> QED
          BY <4>1 DEF Bare
      <3>4. mode' = "node"
        BY <3>2, <3>3 DEF AppendChild
      <3>5. tag.name = <<"encryption">>
        BY DEF RootTag
      <3>6. nodes'[1].name = <<"encryption">> /\ nodes' # << >> /\ nodes' \in Seq({tag})
        BY <3>3, <3>5
      <3>7. open'[1] = 1 /\ open' # << >> /\ open' \in Seq(Nat)
        BY <3>3
      <3>8. Inside'
        BY <2>0, <3>2, <3>6, <3>7 DEF Inside
      <3> QED
        BY <3>2, <3>4, <3>8 DEF Reading
    <2>3. CASE e > n
      <3>1. ~Ends(Token(SkipSpace(at)))
        BY <1>0, <1>1, <2>1, <2>3, SpaceAndQuote
      <3>2. ParseAttribute
        BY <3>1, Zenon DEF EndAttributes
      <3>3. Throw
        BY <1>1, <2>1, <2>3, <3>2, NoAttributeAtEnd
      <3> QED
        BY <3>3, ThrowIs
    <2> QED
      BY <2>0, <2>2, <2>3
  <1>2. CASE at # e
    <2>1. at \in Nat \ {0} /\ HasAttribute(w, at)
      <3>1. HasAttribute(w, 27) /\ HasAttribute(w, 33) /\ (e = 45 => HasAttribute(w, 39))
        BY DEF Document
      <3> QED
        BY <1>2, <1>e, <3>1
    <2>2. Token(SkipSpace(at)) \notin {">", "/"}
      BY <2>1, AttributeStep, SpaceAndQuote, Kinds
    <2>3. ParseAttribute
      BY <1>0, <2>2, Zenon DEF EndAttributes
    <2>4. \/ Throw
          \/ at' = at + 6 /\ (\E a : tag' = [tag EXCEPT !.attr = a]) /\ UNCHANGED <<text, nodes, open, mode>>
      BY <2>1, <2>3, AttributeStep
    <2>5. CASE Throw
      BY <2>5, ThrowIs
    <2>6. CASE at' = at + 6 /\ (\E a : tag' = [tag EXCEPT !.attr = a]) /\ UNCHANGED <<text, nodes, open, mode>>
      <3>1. RootTag'
        <4>1. PICK a : tag = [name |-> <<"encryption">>, attr |-> a]
          BY DEF RootTag
        <4>2. PICK c : tag' = [tag EXCEPT !.attr = c]
          BY <2>6
        <4>3. tag' = [name |-> <<"encryption">>, attr |-> c]
          BY <4>1, <4>2
        <4> QED
          BY <4>3 DEF RootTag
      <3>2. (at' = 33 \/ at' = 39 \/ at' = 45) /\ at' <= e
        BY <1>2, <1>e, <2>6
      <3> QED
        BY <2>6, <3>1, <3>2 DEF Reading, Bare
    <2> QED
      BY <2>4, <2>5, <2>6
  <1> QED
    BY <1>1, <1>2

LEMMA EndTagIs ==
    ASSUME NEW begin, EndTag(begin)
    PROVE  LET end == WordEnd(begin + 2, isName2)
           IN  \/ Throw
               \/ /\ Token(end) = ">" /\ nodes[Last(open)].name = Word(begin + 2, end)
                  /\ at' = end + 1 /\ open' = Front(open)
                  /\ mode' = IF Len(open) = 1 THEN "parsed" ELSE "node"
                  /\ UNCHANGED <<text, tag, nodes>>
  BY Zenon DEF EndTag, Closes

LEMMA InsideStep ==
    ASSUME NEW S, text \in Seq(S), NEW n \in Nat, Len(text) = n, NEW w, NEW e, Same(text, w, n), Document(w, e),
           n < Len(w), Len(w) \in Nat, NamedTwice(w, Len(w)),
           mode \in {"node", "attributes"}, Inside, XmlNext
    PROVE  Reading(e)' /\ text' = text
  <1>0. /\ at \in Nat /\ open \in Seq(Nat) /\ open # << >> /\ open[1] = 1
        /\ nodes # << >> /\ nodes[1].name = <<"encryption">>
    BY DEF Inside
  <1>s. PICK N : nodes \in Seq(N)
    BY DEF Inside
  <1>i. ASSUME at' \in Nat, UNCHANGED <<nodes, open>> PROVE Inside'
    BY <1>i DEF Inside
  <1>1. CASE ReadHeader
    BY <1>1 DEF ReadHeader
  <1>2. CASE ParseTag
    <2>0. mode = "node"
      BY <1>2 DEF ParseTag
    <2> DEFINE begin == WordEnd(SkipSpace(at), isContent)
    <2>1. TagAt(begin)
      BY <1>2, <2>0, Zenon DEF ParseTag
    <2>2. begin \in Nat
      BY <1>0, EndsAreNat
    <2> HIDE DEF begin
    <2>3. begin + 1 \in Nat /\ begin + 2 \in Nat
      BY <2>2
    <2>4. CASE Throw
      BY <2>4, ThrowIs
    <2>5. CASE BeginTag(begin)
      <3>1. \/ Throw
            \/ /\ at' = WordEnd(begin + 1, isName2) /\ mode' = "attributes" /\ UNCHANGED <<text, nodes, open>>
        BY <2>5, BeginTagIs, Zenon
      <3>2. WordEnd(begin + 1, isName2) \in Nat
        BY <2>3, EndsAreNat
      <3>3. CASE Throw
        BY <3>3, ThrowIs
      <3>4. CASE at' = WordEnd(begin + 1, isName2) /\ mode' = "attributes" /\ UNCHANGED <<text, nodes, open>>
        <4>1. Inside'
          BY <1>i, <3>2, <3>4
        <4> QED
          BY <3>4, <4>1 DEF Reading
      <3> QED
        BY <3>1, <3>3, <3>4
    <2>6. CASE EndTag(begin) /\ Token(begin + 1) = "/"
      <3> DEFINE end == WordEnd(begin + 2, isName2)
      <3>1. \/ Throw
            \/ /\ Token(end) = ">" /\ nodes[Last(open)].name = Word(begin + 2, end)
               /\ at' = end + 1 /\ open' = Front(open)
               /\ mode' = IF Len(open) = 1 THEN "parsed" ELSE "node"
               /\ UNCHANGED <<text, tag, nodes>>
        BY <2>6, EndTagIs, Zenon
      <3>2. end \in begin + 2 .. n \cup {n + 1}
        BY <2>3, Name2EndIs
      <3> HIDE DEF end
      <3>4. ASSUME Token(end) = ">", nodes[Last(open)].name = Word(begin + 2, end)
            PROVE  Len(open) # 1
        <4> SUFFICES ASSUME Len(open) = 1 PROVE FALSE
          OBVIOUS
        <4>1. Last(open) = 1
          BY <1>0 DEF Last
        <4>2. Word(begin + 2, end) = <<"encryption">>
          BY <1>0, <3>4, <4>1
        <4>3. end \in Nat /\ end <= n
          <5>1. end \in Nat
            BY <3>2, <2>2
          <5> QED
            BY <3>4, <5>1, TokenIs, SpaceAndQuote
        <4>4. begin + 2 \in Nat \ {0} /\ end <= n + 1
          BY <2>2, <4>3
        <4>5. Len(<<"encryption">>) = 1 /\ <<"encryption">>[1] = "encryption"
          OBVIOUS
        <4>6. /\ end > begin + 2 => Len(Word(begin + 2, end)) = end - (begin + 2) /\ Word(begin + 2, end)[1] = text[begin + 2]
              /\ ~(end > begin + 2) => Len(Word(begin + 2, end)) = 0
          BY <4>3, <4>4, WordIs
        <4>7. Len(Word(begin + 2, end)) = 1 /\ Word(begin + 2, end)[1] = "encryption"
          BY <4>2, <4>5, Zenon
        <4>8. end = begin + 3 /\ text[begin + 2] = "encryption"
          <5> DEFINE l == Len(Word(begin + 2, end))
                     f == Word(begin + 2, end)[1]
          <5>1. /\ l = 1 /\ f = "encryption"
                /\ end > begin + 2 => l = end - (begin + 2) /\ f = text[begin + 2]
                /\ ~(end > begin + 2) => l = 0
            BY <4>6, <4>7, Zenon
          <5> HIDE DEF l, f
          <5> QED
            BY <2>2, <4>3, <5>1
        <4>9. begin + 2 \in 1 .. n /\ begin + 1 \in 1 .. n /\ begin + 2 \in 1 .. Len(w)
          BY <2>2, <4>3, <4>8
        <4>10. w[begin + 2] = "encryption"
          BY <4>8, <4>9 DEF Same
        <4>11. begin + 2 = 26 \/ begin + 2 = Len(w) - 1
          BY <4>9, <4>10 DEF NamedTwice
        <4>12. w[begin + 1] = "/"
          <5>1. Token(begin + 1) = text[begin + 1]
            BY <2>3, <4>9, TokenIs
          <5>2. text[begin + 1] = w[begin + 1]
            BY <4>9 DEF Same
          <5> QED
            BY <2>6, <5>1, <5>2
        <4>13. begin + 1 # 25
          <5>1. w[25] = "<"
            BY DEF Document
          <5> QED
            BY <4>12, <5>1
        <4>14. begin + 2 = Len(w) - 1
          BY <2>2, <4>11, <4>13
        <4> QED
          BY <2>2, <4>3, <4>8, <4>14
      <3>5. CASE Throw
        BY <3>5, ThrowIs
      <3>6. CASE ~Throw
        <4>1. /\ at' = end + 1 /\ open' = Front(open) /\ mode' = "node" /\ text' = text /\ nodes' = nodes
          BY <3>1, <3>4, <3>6
        <4>2. Len(open) # 1
          BY <3>1, <3>4, <3>6
        <4>3. open' \in Seq(Nat) /\ open' # << >> /\ open'[1] = 1
          BY <1>0, <4>1, <4>2, FrontKeepsFirst
        <4>4. at' \in Nat
          BY <3>2, <2>2, <4>1
        <4>5. Inside'
          BY <1>0, <1>s, <4>1, <4>3, <4>4 DEF Inside
        <4> QED
          BY <4>1, <4>5 DEF Reading
      <3> QED
        BY <3>5, <3>6
    <2> QED
      BY <2>1, <2>4, <2>5, <2>6, Zenon DEF TagAt
  <1>3. CASE EndAttributes
    <2>0. mode = "attributes" /\ ~InHeader
      BY <1>3 DEF EndAttributes, InTag, InHeader
    <2> DEFINE p == SkipSpace(at)
    <2>1. p \in Nat
      BY <1>0, EndsAreNat
    <2>2. \/ Throw
          \/ /\ at' = p + 1 \/ at' = p + 2
             /\ text' = text
             /\ AppendChild(TRUE) \/ AppendChild(FALSE)
      <3>1. Token(p) # ">" \/ ~(Token(p) # ">")
        OBVIOUS
      <3>2. (Token(p) # ">") = TRUE \/ (Token(p) # ">") = FALSE
        BY <3>1
      <3> QED
        BY <1>3, <2>0, <3>2 DEF EndAttributes
    <2> HIDE DEF p
    <2>3. CASE Throw
      BY <2>3, ThrowIs
    <2>4. ASSUME NEW c \in BOOLEAN, AppendChild(c), text' = text, at' = p + 1 \/ at' = p + 2
          PROVE  Reading(e)' /\ text' = text
      <3>1. nodes' = Append(nodes, tag)
        BY <2>4 DEF AppendChild
      <3>2. open' = open \/ open' = Append(open, Len(nodes) + 1)
        BY <2>4 DEF AppendChild
      <3>3. open' \in Seq(Nat) /\ open' # << >> /\ open'[1] = 1
        <4>1. Len(nodes) + 1 \in Nat
          BY <1>s
        <4>2. Append(open, Len(nodes) + 1) \in Seq(Nat) /\ Append(open, Len(nodes) + 1) # << >> /\ Append(open, Len(nodes) + 1)[1] = 1
          BY <1>0, <4>1, AppendKeepsFirst
        <4> QED
          BY <1>0, <3>2, <4>2
      <3>4. mode' = "node"
        BY <2>4, <3>3 DEF AppendChild
      <3>5. nodes \in Seq(N \cup {tag}) /\ tag \in N \cup {tag}
        BY <1>s
      <3>6. nodes' \in Seq(N \cup {tag}) /\ nodes' # << >> /\ nodes'[1] = nodes[1]
        BY <1>0, <3>1, <3>5, AppendKeepsFirst
      <3>7. at' \in Nat
        BY <2>1, <2>4
      <3>8. Inside'
        BY <1>0, <3>3, <3>6, <3>7 DEF Inside
      <3> QED
        BY <2>4, <3>4, <3>8 DEF Reading
    <2> QED
      BY <2>2, <2>3, <2>4
  <1>4. CASE ParseAttribute
    <2> DEFINE begin == SkipSpace(at)
               keyEnd == WordEnd(begin, isName)
               equal == SkipSpace(keyEnd)
               quote == SkipSpace(equal + 1)
    <2>1. \/ Throw
          \/ at' = ValueEnd(quote) + 1 /\ UNCHANGED <<text, nodes, open, mode>>
      BY <1>4, ParseAttributeIs, Zenon
    <2>2. quote \in Nat
      <3>1. begin \in Nat
        BY <1>0, EndsAreNat
      <3> HIDE DEF begin
      <3>2. keyEnd \in Nat
        BY <3>1, EndsAreNat
      <3> HIDE DEF keyEnd
      <3>3. equal \in Nat
        BY <3>2, EndsAreNat
      <3> HIDE DEF equal
      <3>4. equal + 1 \in Nat
        BY <3>3
      <3> QED
        BY <3>4, EndsAreNat
    <2> HIDE DEF quote
    <2>3. ValueEnd(quote) \in quote + 1 .. n \cup {n + 1}
      BY <2>2, ValueEndIs
    <2>4. ValueEnd(quote) + 1 \in Nat
      BY <2>2, <2>3
    <2>5. CASE Throw
      BY <2>5, ThrowIs
    <2>6. CASE at' = ValueEnd(quote) + 1 /\ UNCHANGED <<text, nodes, open, mode>>
      <3>1. Inside'
        BY <1>i, <2>4, <2>6
      <3> QED
        BY <2>6, <3>1 DEF Reading
    <2> QED
      BY <2>1, <2>5, <2>6
  <1> QED
    BY <1>1, <1>2, <1>3, <1>4 DEF XmlNext

\* No step leaves these places, and none of them is the end of the document.
LEMMA ReadingKept ==
    ASSUME NEW S, text \in Seq(S), NEW n \in Nat, Len(text) = n, NEW w, NEW e, Same(text, w, n), Document(w, e),
           n < Len(w), Len(w) \in Nat, NamedTwice(w, Len(w)), Reading(e), XmlNext
    PROVE  Reading(e)' /\ text' = text
  <1>0. /\ ReadHeader => mode = "header"
        /\ ParseTag => mode \in {"root", "node"}
        /\ EndAttributes \/ ParseAttribute => mode \in {"declaration", "attributes"}
    BY ParseAttributeIs, Zenon DEF ReadHeader, ParseTag, EndAttributes, InTag
  <1>1. CASE mode = "threw"
    BY <1>0, <1>1 DEF XmlNext
  <1>2. CASE mode = "header" /\ at = 1 /\ Bare
    BY <1>0, <1>2, HeaderStep DEF XmlNext
  <1>3. CASE mode = "declaration" /\ (at = 4 \/ at = 10 \/ at = 16 \/ at = 22) /\ Bare
    BY <1>0, <1>3, DeclarationStep DEF XmlNext
  <1>4. CASE mode = "root" /\ at = 24 /\ Bare
    BY <1>0, <1>4, RootStep DEF XmlNext
  <1>5. CASE mode = "attributes" /\ (at = 27 \/ at = 33 \/ at = 39 \/ at = 45) /\ at <= e /\ Bare /\ RootTag
    BY <1>0, <1>5, RootAttributesStep DEF XmlNext
  <1>6. CASE mode \in {"node", "attributes"} /\ Inside
    BY <1>6, InsideStep
  <1> QED
    BY <1>1, <1>2, <1>3, <1>4, <1>5, <1>6 DEF Reading
-----------------------------------------------------------------------------
(* Office 2007's stream *)

Sized(s, n) == s \in Seq(Nat) /\ Len(s) = n

LEMMA JoinPlace ==
    ASSUME NEW s, NEW t, NEW n \in Nat, NEW m \in Nat, NEW l, l = n + m, Sized(s, n), Sized(t, m)
    PROVE  Sized(s \o t, l) /\ Same(s \o t, s, n) /\ Moved(s \o t, t, n, m)
  <1> DEFINE w == s \o t
  <1>1. w \in Seq(Nat) /\ Joined(w, s, n, t, m)
    BY JoinAt DEF Sized
  <1> HIDE DEF w
  <1>2. Len(w) = n + m /\ Same(w, s, n) /\ Moved(w, t, n, m)
    BY <1>1, JoinParts, Zenon
  <1>3. Sized(w, l)
    BY <1>1, <1>2 DEF Sized
  <1> QED
    BY <1>2, <1>3 DEF w

LEMMA MovedStays ==
    ASSUME NEW w, NEW u, NEW x, NEW n \in Nat, NEW k \in Nat, NEW l \in Nat, n + k <= l,
           Moved(u, x, n, k), Same(w, u, l)
    PROVE  Moved(w, x, n, k)
  <1>1. \A i \in 1 .. k : n + i \in 1 .. l
    OBVIOUS
  <1> QED
    BY <1>1 DEF Moved, Same

LEMMA SameStays ==
    ASSUME NEW w, NEW u, NEW x, NEW k \in Nat, NEW l \in Nat, k <= l, Same(u, x, k), Same(w, u, l)
    PROVE  Same(w, x, k)
  <1>1. \A i \in 1 .. k : i \in 1 .. l
    OBVIOUS
  <1> QED
    BY <1>1 DEF Same

LEMMA LE16Is ==
    ASSUME NEW n \in 0 .. 255
    PROVE  LE16(n) \in Seq(Nat) /\ Len(LE16(n)) = 2 /\ LE16(n)[1] = n /\ LE16(n)[2] = 0
  <1>1. n % 256 = n /\ n \div 256 = 0
    OBVIOUS
  <1>2. LE16(n) = <<n, 0>>
    BY <1>1 DEF LE16
  <1> QED
    BY <1>2

\* What two bytes can hold.
Shorts == {n \in Nat : n <= 65535}

LEMMA ShortsAre == {0, 16, 20, 24, 36, 38, 128, 192, 256, 32772} \subseteq Shorts
  BY SMT DEF Shorts

LEMMA AlgIdIs == ASSUME NEW bits \in StandardKeySizes PROVE AlgId(bits) \in Shorts
  <1>1. bits \in {128, 192, 256}
    BY DEF StandardKeySizes
  <1>2. AlgId(bits) = IF bits = 128 THEN 26126 ELSE IF bits = 192 THEN 26127 ELSE 26128
    BY <1>1, SMT DEF AlgId
  <1>3. AlgId(bits) \in Nat /\ AlgId(bits) <= 65535
    BY <1>2, SMT
  <1> QED
    BY <1>3, SMT DEF Shorts

LEMMA LE32Is ==
    ASSUME NEW n \in Shorts
    PROVE  /\ LE32(n) \in Seq(Nat) /\ Len(LE32(n)) = 4
           /\ LE32(n)[1] + (256 * LE32(n)[2]) = n /\ LE32(n)[3] = 0 /\ LE32(n)[4] = 0
           /\ LE32(n)[1] \in Nat /\ LE32(n)[2] \in Nat
  <1> DEFINE a == LE16(n)
             b == LE16(0)
  <1>1. n \in Nat /\ n % 65536 = n /\ n \div 65536 = 0
    BY SMT DEF Shorts
  <1>2. b \in Seq(Nat) /\ Len(b) = 2 /\ b[1] = 0 /\ b[2] = 0
    BY LE16Is
  <1>6. LE32(n) = a \o b
    BY <1>1, SMT DEF LE32
  <1>7a. n \in Nat
    BY <1>1
  <1>4. n % 256 \in Nat /\ n \div 256 \in Nat /\ (n % 256) + (256 * (n \div 256)) = n
    BY <1>7a, SMT
  <1>3. a = <<n % 256, n \div 256>>
    BY DEF LE16
  <1>5. a \in Seq(Nat) /\ Len(a) = 2 /\ a[1] + (256 * a[2]) = n /\ a[1] \in Nat /\ a[2] \in Nat
    BY <1>3, <1>4, SMT
  <1> HIDE DEF a, b
  <1> DEFINE w == a \o b
  <1>7. w \in Seq(Nat) /\ Len(w) = 4 /\ Same(w, a, 2) /\ Moved(w, b, 2, 2)
    <2>1. Sized(a, 2) /\ Sized(b, 2) /\ 2 \in Nat /\ 4 = 2 + 2
      BY <1>2, <1>5 DEF Sized
    <2>2. Sized(w, 4) /\ Same(w, a, 2) /\ Moved(w, b, 2, 2)
      BY <2>1, JoinPlace, Zenon
    <2> QED
      BY <2>2 DEF Sized
  <1> HIDE DEF w
  <1>8. w[1] = a[1] /\ w[2] = a[2]
    BY <1>7 DEF Same
  <1>9. w[2 + 1] = b[1] /\ w[2 + 2] = b[2]
    BY <1>7 DEF Moved
  <1>10. 2 + 1 = 3 /\ 2 + 2 = 4
    OBVIOUS
  <1>11. w[3] = 0 /\ w[4] = 0 /\ Len(w) = 4
    BY <1>2, <1>7, <1>9, <1>10, Zenon
  <1>12. LE32(n) = w
    BY <1>6 DEF w
  <1> QED
    BY <1>5, <1>7, <1>8, <1>11, <1>12

LEMMA Get32Is ==
    ASSUME NEW w, NEW p \in Nat, NEW n \in Shorts, Moved(w, LE32(n), p, 4)
    PROVE  Get32(w, p) = n
  <1> DEFINE x == LE32(n)
  <1>1. /\ x[1] + (256 * x[2]) = n /\ x[3] = 0 /\ x[4] = 0
        /\ x[1] \in Nat /\ x[2] \in Nat
    BY LE32Is
  <1>2. w[p + 1] = x[1] /\ w[p + 2] = x[2] /\ w[p + 3] = x[3] /\ w[p + 4] = x[4]
    BY DEF Moved
  <1> HIDE DEF x
  <1>3. (p + 2) + 1 = p + 3 /\ (p + 2) + 2 = p + 4
    OBVIOUS
  <1>4. Get16(w, p) = w[p + 1] + (256 * w[p + 2])
    BY Zenon DEF Get16
  <1>5. Get16(w, p + 2) = w[p + 3] + (256 * w[p + 4])
    BY <1>3, Zenon DEF Get16
  <1>6. Get16(w, p) = n /\ Get16(w, p + 2) = 0
    BY <1>1, <1>2, <1>4, <1>5
  <1>7. n \in Nat
    BY SMT DEF Shorts
  <1> QED
    BY <1>6, <1>7, SMT DEF Get32

LEMMA BytesAreSized ==
    ASSUME NEW pattern \in Nat, NEW field \in Nat, NEW n \in Nat
    PROVE  Sized(Bytes(pattern, field, n), n)
  <1> DEFINE s == Bytes(pattern, field, n)
  <1>1. s \in Seq(0 .. 255) /\ Len(s) = n
    BY BytesAre
  <1> HIDE DEF s
  <1>2. s = [i \in 1 .. n |-> s[i]] /\ \A i \in 1 .. n : s[i] \in Nat
    <2>1. /\ \A i \in 1 .. Len(s) : s[i] \in 0 .. 255
          /\ s = [i \in 1 .. Len(s) |-> s[i]]
      BY <1>1, ElementsOf, Zenon
    <2>2. s = [i \in 1 .. n |-> s[i]]
      BY <1>1, <2>1, Zenon
    <2>3. \A i \in 1 .. n : s[i] \in 0 .. 255
      BY <1>1, <2>1, Zenon
    <2>4. \A i \in 1 .. n : s[i] \in Nat
      <3> HIDE DEF s
      <3>1. \A x \in 0 .. 255 : x \in Nat
        OBVIOUS
      <3> QED
        BY <2>3, <3>1, Zenon
    <2> QED
      BY <2>2, <2>4, Zenon
  <1>3. s \in Seq(Nat)
    <2>1. [i \in 1 .. n |-> s[i]] \in Seq(Nat)
      BY <1>2, IsASeq
    <2> QED
      BY <1>2, <2>1
  <1> QED
    BY <1>1, <1>3 DEF Sized, s

\* The k elements of w after the p-th.
Slice(s, w, p, k) == s \in Seq(Nat) /\ Len(s) = k /\ \A i \in 1 .. k : s[i] = w[p + i]

LEMMA SliceIs == ASSUME NEW w \in Seq(Nat), NEW p \in Nat, NEW k \in Nat, p + k <= Len(w)
  PROVE Slice(SubSeq(w, p + 1, p + k), w, p, k)
  BY DEF Slice

LEMMA BeginningIs == ASSUME NEW w \in Seq(Nat), NEW k \in Nat, k <= Len(w)
  PROVE Slice(SubSeq(w, 1, k), w, 0, k)
  BY DEF Slice

LEMMA PartIs ==
    ASSUME NEW w \in Seq(Nat), NEW x \in Seq(Nat), NEW p \in Nat, NEW l \in Nat, NEW k \in Nat, k <= l, k <= Len(x),
           Moved(w, x, p, l), p + k <= Len(w)
    PROVE  SubSeq(w, p + 1, p + k) = SubSeq(x, 1, k)
  <1> DEFINE a == SubSeq(w, p + 1, p + k)
             b == SubSeq(x, 1, k)
  <1>1. Slice(a, w, p, k)
    BY SliceIs
  <1>2. Slice(b, x, 0, k)
    BY BeginningIs
  <1> HIDE DEF a, b
  <1>3. \A i \in 1 .. k : w[p + i] = x[i] /\ 0 + i = i
    BY DEF Moved
  <1>4. \A i \in 1 .. k : a[i] = b[i]
    BY <1>1, <1>2, <1>3 DEF Slice
  <1>5. a \in Seq(Nat) /\ Len(a) = k /\ b \in Seq(Nat) /\ Len(b) = k
    BY <1>1, <1>2 DEF Slice
  <1>6. a = b
    BY <1>4, <1>5, SeqEqual
  <1> QED
    BY <1>6 DEF a, b

LEMMA StandardHeaderIs ==
    ASSUME NEW bits \in StandardKeySizes
    PROVE  Sized(StandardHeader(bits), 38) /\ Moved(StandardHeader(bits), LE32(bits), 16, 4)
  <1> DEFINE aes == LE32(AlgId(bits))
             size == LE32(bits)
             sha1 == LE32(32772)
             u1 == LE32(36)
             u2 == u1 \o LE32(0)
             u3 == u2 \o aes
             u4 == u3 \o sha1
             u5 == u4 \o size
             u6 == u5 \o LE32(24)
             u7 == u6 \o LE32(0)
             u8 == u7 \o LE32(0)
             u9 == u8 \o CspName
  <1>0. StandardHeader(bits) = u9
    BY SMT DEF StandardHeader
  <1>a. /\ Sized(LE32(36), 4) /\ Sized(LE32(0), 4)
        /\ Sized(aes, 4) /\ Sized(sha1, 4)
        /\ Sized(size, 4) /\ Sized(LE32(24), 4)
    <2>1. bits \in Shorts /\ AlgId(bits) \in Shorts
      BY AlgIdIs, ShortsAre DEF StandardKeySizes
    <2> QED
      BY <2>1, LE32Is, ShortsAre, SMT DEF Sized
  <1> HIDE DEF aes, sha1, size
  <1>b. Sized(CspName, 6)
    <2> DEFINE v1 == LE16(77)
               v2 == v1 \o LE16(83)
               v3 == v2 \o LE16(0)
    <2>1. Sized(v1, 2) /\ Sized(LE16(83), 2) /\ Sized(LE16(0), 2)
      BY LE16Is DEF Sized
    <2> HIDE DEF v1
    <2>n. 2 \in Nat /\ 4 \in Nat /\ 4 = 2 + 2 /\ 6 = 4 + 2
      OBVIOUS
    <2>2. Sized(v2, 4)
      BY <2>1, <2>n, JoinPlace, Zenon
    <2> HIDE DEF v2
    <2>4. Sized(v3, 6)
      BY <2>1, <2>2, <2>n, JoinPlace, Zenon
    <2>5. CspName = v3
      BY DEF CspName, v3, v2, v1
    <2> HIDE DEF v3
    <2> QED
      BY <2>4, <2>5
  <1>n. /\ 4 \in Nat /\ 8 \in Nat /\ 12 \in Nat /\ 16 \in Nat
        /\ 8 = 4 + 4 /\ 12 = 8 + 4 /\ 16 = 12 + 4 /\ 20 = 16 + 4
    OBVIOUS
  <1>1. Sized(u1, 4)
    BY <1>a
  <1> HIDE DEF u1
  <1>2. Sized(u2, 8)
    BY <1>1, <1>a, <1>n, JoinPlace, Zenon
  <1> HIDE DEF u2
  <1>3. Sized(u3, 12)
    BY <1>2, <1>a, <1>n, JoinPlace, Zenon
  <1> HIDE DEF u3
  <1>4. Sized(u4, 16)
    BY <1>3, <1>a, <1>n, JoinPlace, Zenon
  <1> HIDE DEF u4
  <1>5. Sized(u5, 20) /\ Moved(u5, size, 16, 4)
    BY <1>4, <1>a, <1>n, JoinPlace, Zenon
  <1> HIDE DEF u5
  <1>6. Sized(u6, 24) /\ Same(u6, u5, 20)
    BY <1>5, <1>a, JoinPlace
  <1> HIDE DEF u6
  <1>7. Sized(u7, 28) /\ Same(u7, u6, 24)
    BY <1>6, <1>a, JoinPlace
  <1> HIDE DEF u7
  <1>8. Sized(u8, 32) /\ Same(u8, u7, 28)
    BY <1>7, <1>a, JoinPlace
  <1> HIDE DEF u8
  <1>9. Sized(u9, 38) /\ Same(u9, u8, 32)
    BY <1>8, <1>b, JoinPlace
  <1> HIDE DEF u9
  <1>10. Moved(u6, size, 16, 4)
    BY <1>5, <1>6, MovedStays
  <1>11. Moved(u7, size, 16, 4)
    BY <1>10, <1>7, MovedStays
  <1>12. Moved(u8, size, 16, 4)
    BY <1>11, <1>8, MovedStays
  <1>13. Moved(u9, size, 16, 4)
    BY <1>12, <1>9, MovedStays
  <1> QED
    BY <1>0, <1>9, <1>13 DEF size

\* Where the fields are that the reader takes.
LEMMA StandardStreamIs ==
    ASSUME NEW m \in Infos, ~HasXml(m)
    PROVE  LET w == StandardStream(m)
               o == StandardObject(m)
           IN  /\ Sized(w, 122)
               /\ Moved(w, LE16(m.major), 0, 2) /\ Moved(w, LE16(2), 2, 2) /\ Moved(w, LE32(38), 8, 4)
               /\ Moved(w, LE32(m.bits), 28, 4)
               /\ Moved(w, o.salt, 54, 16) /\ Moved(w, o.encryptedVerifier, 70, 16)
               /\ Moved(w, o.encryptedVerifierHash, 90, 32)
  <1> DEFINE o == StandardObject(m)
             w1 == LE16(m.major)
             w2 == w1 \o LE16(2)
             w3 == w2 \o LE32(36)
             w4 == w3 \o LE32(38)
             w5 == w4 \o StandardHeader(m.bits)
             w6 == w5 \o LE32(16)
             w7 == w6 \o o.salt
             w8 == w7 \o o.encryptedVerifier
             w9 == w8 \o LE32(20)
             w == w9 \o o.encryptedVerifierHash
  <1>h. /\ m.bits \in StandardKeySizes
        /\ Sized(StandardHeader(m.bits), 38) /\ Moved(StandardHeader(m.bits), LE32(m.bits), 16, 4)
    BY InfosAssumption, StandardHeaderIs
  <1>0. StandardStream(m) = w
    <2>1. Len(StandardHeader(m.bits)) = 38
      BY <1>h DEF Sized
    <2> QED
      BY <2>1, Zenon DEF StandardStream
  <1>a. /\ Sized(LE32(36), 4) /\ Sized(LE32(38), 4)
        /\ Sized(LE32(16), 4) /\ Sized(LE32(20), 4)
    BY LE32Is, ShortsAre, SMT DEF Sized
  <1>b. Sized(LE16(2), 2)
    BY LE16Is DEF Sized
  <1>c. m.pattern \in Nat /\ m.major \in {3, 4}
    BY InfosAssumption
  <1>d. Sized(o.salt, 16) /\ Sized(o.encryptedVerifier, 16) /\ Sized(o.encryptedVerifierHash, 32)
    <2>1. /\ o.salt = Bytes(m.pattern, 1, 16) /\ o.encryptedVerifier = Bytes(m.pattern, 2, 16)
          /\ o.encryptedVerifierHash = Bytes(m.pattern, 3, 32)
      BY DEF StandardObject
    <2> HIDE DEF o
    <2> QED
      BY <1>c, <2>1, BytesAreSized
  <1> HIDE DEF o
  <1>1. Sized(w1, 2)
    <2>1. m.major \in 0 .. 255
      BY <1>c
    <2> QED
      BY <2>1, LE16Is, Zenon DEF Sized
  <1>1a. Moved(w1, LE16(m.major), 0, 2)
    BY DEF Moved, w1
  <1> HIDE DEF w1
  <1>2. Sized(w2, 4) /\ Same(w2, w1, 2) /\ Moved(w2, LE16(2), 2, 2)
    BY <1>1, <1>b, JoinPlace
  <1> HIDE DEF w2
  <1>3. Sized(w3, 8) /\ Same(w3, w2, 4)
    BY <1>2, <1>a, JoinPlace
  <1> HIDE DEF w3
  <1>4. Sized(w4, 12) /\ Same(w4, w3, 8) /\ Moved(w4, LE32(38), 8, 4)
    BY <1>3, <1>a, JoinPlace
  <1> HIDE DEF w4
  <1>5. Sized(w5, 50) /\ Same(w5, w4, 12) /\ Moved(w5, StandardHeader(m.bits), 12, 38)
    BY <1>4, <1>h, JoinPlace
  <1> HIDE DEF w5
  <1>6. Sized(w6, 54) /\ Same(w6, w5, 50)
    BY <1>5, <1>a, JoinPlace
  <1> HIDE DEF w6
  <1>7. Sized(w7, 70) /\ Same(w7, w6, 54) /\ Moved(w7, o.salt, 54, 16)
    BY <1>6, <1>d, JoinPlace
  <1> HIDE DEF w7
  <1>8. Sized(w8, 86) /\ Same(w8, w7, 70) /\ Moved(w8, o.encryptedVerifier, 70, 16)
    BY <1>7, <1>d, JoinPlace
  <1> HIDE DEF w8
  <1>9. Sized(w9, 90) /\ Same(w9, w8, 86)
    BY <1>8, <1>a, JoinPlace
  <1> HIDE DEF w9
  <1>10. Sized(w, 122) /\ Same(w, w9, 90) /\ Moved(w, o.encryptedVerifierHash, 90, 32)
    BY <1>9, <1>d, JoinPlace
  <1> HIDE DEF w
  <1>11. Same(w, w8, 86)
    BY <1>9, <1>10, SameStays
  <1>12. Same(w, w7, 70)
    BY <1>8, <1>11, SameStays
  <1>13. Same(w, w6, 54)
    BY <1>7, <1>12, SameStays
  <1>14. Same(w, w5, 50)
    BY <1>6, <1>13, SameStays
  <1>15. Same(w, w4, 12)
    BY <1>5, <1>14, SameStays
  <1>16. Same(w, w3, 8)
    BY <1>4, <1>15, SameStays
  <1>17. Same(w, w2, 4)
    BY <1>3, <1>16, SameStays
  <1>18. Same(w, w1, 2)
    BY <1>2, <1>17, SameStays
  <1>19. Moved(w, LE16(m.major), 0, 2) /\ Moved(w, LE16(2), 2, 2) /\ Moved(w, LE32(38), 8, 4)
    BY <1>1a, <1>2, <1>4, <1>15, <1>17, <1>18, MovedStays
  <1>20. Moved(w, LE32(m.bits), 28, 4)
    <2>1. \A i \in 1 .. 4 : 28 + i = 12 + (16 + i) /\ 16 + i \in 1 .. 38
      OBVIOUS
    <2>2. \A i \in 1 .. 4 : StandardHeader(m.bits)[16 + i] = LE32(m.bits)[i]
      BY <1>h DEF Moved
    <2>3. Moved(w, StandardHeader(m.bits), 12, 38)
      BY <1>5, <1>14, MovedStays
    <2>4. \A i \in 1 .. 38 : w[12 + i] = StandardHeader(m.bits)[i]
      BY <2>3 DEF Moved
    <2>5. \A i \in 1 .. 4 : w[28 + i] = LE32(m.bits)[i]
      BY <2>1, <2>2, <2>4
    <2> QED
      BY <2>5 DEF Moved
  <1>21. Moved(w, o.salt, 54, 16) /\ Moved(w, o.encryptedVerifier, 70, 16)
    BY <1>7, <1>8, <1>11, <1>12, MovedStays
  <1> QED
    BY <1>0, <1>10, <1>19, <1>20, <1>21 DEF o
-----------------------------------------------------------------------------
(* The stream that lost its end *)

XmlOf(m) == Xml(AgileObject(m), m.isOffice2013)

\* The tokens there are are the first of w, and the last of w is not among them.
CutOf(w) ==
    /\ \E S : text \in Seq(S)
    /\ Len(text) \in Nat /\ Len(text) < Len(w)
    /\ Same(text, w, Len(text))

CutAgile ==
    /\ CutOf(XmlOf(made))
    /\ head = AgileVersion \o Reserved \/ Len(head) < 8
    /\ pc \in {"stored", "xml", "refused"}
    /\ \E e : Document(XmlOf(made), e) /\ Reading(e)

\* What is read of Office 2007's: all but the end of the verifier's hash.
AllButHash(m) ==
    \E n \in 0 .. 31 :
        info = [StandardObject(m) EXCEPT !.encryptedVerifierHash = SubSeq(@, 1, n)]

CutStandard ==
    /\ \E n \in 0 .. 121 : head = SubSeq(StandardStream(made), 1, n)
    /\ pc \in {"stored", "standard", "refused", "read", "past the end"}
    /\ pc = "read" => AllButHash(made)
    /\ pc = "past the end" => Len(head) \in Len(StandardHeader(made.bits)) .. VerifierAt - 1

\* What is stored: nothing has been read of it.
Untouched ==
    /\ head = IF HasXml(made) THEN AgileVersion \o Reserved ELSE StandardStream(made)
    /\ text = IF HasXml(made) THEN toXml(AgileObject(made), made.isOffice2013) ELSE << >>

CutInv ==
    /\ made \in Infos /\ wasCut \in BOOLEAN
    /\ pc = "stored" => at = 1 /\ mode = "header" /\ Bare
    /\ pc = "stored" /\ ~wasCut => Untouched
    /\ wasCut => IF HasXml(made) THEN CutAgile ELSE CutStandard

\* The text that was written is the document, or its first tokens.
LEMMA WrittenIs ==
    ASSUME NEW m \in Infos, HasXml(m)
    PROVE  \E S : /\ XmlOf(m) \in Seq(S)
                  /\ \E n \in 0 .. Len(XmlOf(m)) :
                        toXml(AgileObject(m), m.isOffice2013) = SubSeq(XmlOf(m), 1, n)
  <1> DEFINE w == XmlOf(m)
             S == {n \in 0 .. Len(w) : Size(SubSeq(w, 1, n)) < BufSize}
  <1>1. PICK T : w \in Seq(T)
    BY XmlIs, Zenon DEF XmlOf
  <1>2. toXml(AgileObject(m), m.isOffice2013) = IF Size(w) < BufSize THEN w ELSE SubSeq(w, 1, Max(S))
    BY Zenon DEF toXml, XmlOf
  <1> HIDE DEF w
  <1>3. Len(w) \in Nat /\ SubSeq(w, 1, Len(w)) = w
    BY <1>1
  <1>4. Max(S) \in S
    <2>1. 0 \in S
      <3>1. SubSeq(w, 1, 0) = << >>
        BY <1>1
      <3>2. Size(<< >>) = 0
        <4>1. UNION {{a} \X (1 .. Len(<< >>[a])) : a \in DOMAIN << >>} = {}
          OBVIOUS
        <4>2. Cardinality({}) = 0
          BY FS_EmptySet
        <4> QED
          BY <4>1, <4>2, Zenon DEF Size
      <3>3. 0 < BufSize
        BY InfosAssumption
      <3>4. 0 \in 0 .. Len(w)
        BY <1>3
      <3> QED
        BY <3>1, <3>2, <3>3, <3>4, Zenon
    <2>2. S \subseteq 0 .. Len(w)
      OBVIOUS
    <2> HIDE DEF S
    <2> QED
      BY <1>3, <2>1, <2>2, GreatestOf
  <1>5. Max(S) \in 0 .. Len(w)
    BY <1>4
  <1> HIDE DEF S
  <1>6. \E n \in 0 .. Len(w) : toXml(AgileObject(m), m.isOffice2013) = SubSeq(w, 1, n)
    <2>1. CASE Size(w) < BufSize
      <3>1. Len(w) \in 0 .. Len(w)
        BY <1>3
      <3> QED
        BY <1>2, <1>3, <2>1, <3>1, Zenon
    <2>2. CASE ~(Size(w) < BufSize)
      BY <1>2, <1>5, <2>2, Zenon
    <2> QED
      BY <2>1, <2>2
  <1> QED
    BY <1>1, <1>6, Zenon DEF w

\* The first n of the first k.
LEMMA FirstOf ==
    ASSUME NEW S, NEW w \in Seq(S), NEW k \in 0 .. Len(w), NEW n \in 0 .. k, NEW t, t = SubSeq(SubSeq(w, 1, k), 1, n)
    PROVE  t \in Seq(S) /\ Len(t) = n /\ Same(t, w, n)
  <1> DEFINE u == SubSeq(w, 1, k)
  <1>1. u \in Seq(S) /\ Len(u) = k /\ \A i \in 1 .. k : u[i] = w[i]
    OBVIOUS
  <1>2. t = SubSeq(u, 1, n)
    OBVIOUS
  <1> HIDE DEF u
  <1>3. t \in Seq(S) /\ Len(t) = n /\ \A i \in 1 .. n : t[i] = u[i]
    BY <1>1, <1>2
  <1>4. \A i \in 1 .. n : i \in 1 .. k
    OBVIOUS
  <1> QED
    BY <1>1, <1>3, <1>4 DEF Same

LEMMA AgileHeadIs ==
    ASSUME head = AgileVersion \o Reserved
    PROVE  Len(head) = 8 /\ Version = <<4, 4>>
  <1>n. 2 \in Nat /\ 4 \in Nat /\ 4 = 2 + 2 /\ 8 = 4 + 4
    OBVIOUS
  <1>1. Sized(LE16(4), 2) /\ LE16(4)[1] = 4 /\ LE16(4)[2] = 0
    BY LE16Is DEF Sized
  <1> DEFINE v == LE16(4) \o LE16(4)
             h == v \o Reserved
  <1>2. Sized(v, 4) /\ Same(v, LE16(4), 2) /\ Moved(v, LE16(4), 2, 2)
    BY <1>n, <1>1, JoinPlace, Zenon
  <1>3. Sized(Reserved, 4)
    <2>1. 64 \in Shorts
      BY SMT DEF Shorts
    <2> QED
      BY <2>1, LE32Is, SMT DEF Reserved, Sized
  <1>4. head = h
    BY DEF AgileVersion
  <1> HIDE DEF v
  <1>5. Sized(h, 8) /\ Same(h, v, 4)
    BY <1>n, <1>2, <1>3, JoinPlace, Zenon
  <1> HIDE DEF h
  <1>6. h[1] = 4 /\ h[2] = 0 /\ h[3] = 4 /\ h[4] = 0
    <2>1. v[1] = LE16(4)[1] /\ v[2] = LE16(4)[2]
      BY <1>2 DEF Same
    <2>2. v[2 + 1] = LE16(4)[1] /\ v[2 + 2] = LE16(4)[2]
      BY <1>2 DEF Moved
    <2>3. 2 + 1 = 3 /\ 2 + 2 = 4
      OBVIOUS
    <2>4. v[3] = LE16(4)[1] /\ v[4] = LE16(4)[2]
      BY <2>2, <2>3, Zenon
    <2>5. h[1] = v[1] /\ h[2] = v[2] /\ h[3] = v[3] /\ h[4] = v[4]
      BY <1>5 DEF Same
    <2> QED
      BY <1>1, <2>1, <2>4, <2>5, Zenon
  <1>7. Get16(h, 0) = 4 /\ Get16(h, 2) = 4
    <2>1. 0 + 1 = 1 /\ 0 + 2 = 2 /\ 2 + 1 = 3 /\ 2 + 2 = 4
      OBVIOUS
    <2>2. Get16(h, 0) = h[1] + (256 * h[2]) /\ Get16(h, 2) = h[3] + (256 * h[4])
      BY <2>1, Zenon DEF Get16
    <2>3. 4 + (256 * 0) = 4
      OBVIOUS
    <2> QED
      BY <1>6, <2>2, <2>3, Zenon
  <1> QED
    BY <1>4, <1>5, <1>7 DEF Version, Sized

LEMMA InitCut == InfoInit => CutInv
  <1> SUFFICES ASSUME InfoInit PROVE CutInv
    OBVIOUS
  <1>1. wasCut = FALSE /\ pc = "stored" /\ made \in Infos /\ at = 1 /\ mode = "header" /\ nodes = << >> /\ open = << >>
    BY DEF InfoInit, XmlInit
  <1>2. Untouched
    BY Zenon DEF InfoInit, XmlInit, Untouched
  <1> QED
    BY <1>1, <1>2 DEF CutInv, Bare

\* What is left of the text has not all of the document.
LEMMA LosesText ==
    ASSUME CutInv, HasXml(made), pc = "stored", ~wasCut,
           NEW n \in 0 .. Len(text) - 1, NEW t, t = SubSeq(text, 1, n)
    PROVE  /\ \E S : t \in Seq(S)
           /\ Len(t) \in Nat /\ Len(t) < Len(XmlOf(made)) /\ Same(t, XmlOf(made), Len(t))
  <1> DEFINE w == XmlOf(made)
  <1>1. made \in Infos /\ text = toXml(AgileObject(made), made.isOffice2013)
    BY Zenon DEF CutInv, Untouched
  <1>2. PICK S : w \in Seq(S) /\ \E k \in 0 .. Len(w) : toXml(AgileObject(made), made.isOffice2013) = SubSeq(w, 1, k)
    BY <1>1, WrittenIs, Zenon
  <1>3. PICK k \in 0 .. Len(w) : text = SubSeq(w, 1, k)
    BY <1>1, <1>2, Zenon
  <1> HIDE DEF w
  <1>4. Len(w) \in Nat /\ Len(text) = k
    BY <1>2, <1>3
  <1>5. n \in 0 .. k /\ n < Len(w) /\ n \in Nat
    BY <1>4
  <1>6. t = SubSeq(SubSeq(w, 1, k), 1, n)
    BY <1>3
  <1>7. t \in Seq(S) /\ Len(t) = n /\ Same(t, w, n)
    BY <1>2, <1>5, <1>6, FirstOf
  <1> QED
    BY <1>5, <1>7 DEF w

LEMMA LosesAll ==
    ASSUME NEW m \in Infos, HasXml(m), NEW t, t = << >>
    PROVE  /\ \E S : t \in Seq(S)
           /\ Len(t) \in Nat /\ Len(t) < Len(XmlOf(m)) /\ Same(t, XmlOf(m), Len(t))
  <1> DEFINE w == XmlOf(m)
  <1>1. PICK S : w \in Seq(S) /\ \E k \in 0 .. Len(w) : toXml(AgileObject(m), m.isOffice2013) = SubSeq(w, 1, k)
    BY WrittenIs, Zenon
  <1>2. Len(w) > 0
    BY XmlIs, Zenon DEF XmlOf
  <1> HIDE DEF w
  <1>3. t \in Seq(S) /\ Len(t) = 0
    OBVIOUS
  <1> QED
    BY <1>2, <1>3 DEF Same, w

LEMMA LoseEndCut == ASSUME CutInv, LoseEnd PROVE CutInv'
  <1>0. made \in Infos /\ pc = "stored" /\ ~wasCut /\ at = 1 /\ mode = "header" /\ Bare /\ Untouched
    BY DEF CutInv, LoseEnd
  <1>1. wasCut' = TRUE /\ made' = made /\ pc' = pc /\ at' = at /\ nodes' = nodes /\ open' = open /\ mode' = mode
    BY DEF LoseEnd
  <1>2. CASE HasXml(made)
    <2>0. head = AgileVersion \o Reserved
      BY <1>0, <1>2, Zenon DEF Untouched
    <2>1. /\ \E S : text' \in Seq(S)
          /\ Len(text') \in Nat /\ Len(text') < Len(XmlOf(made)) /\ Same(text', XmlOf(made), Len(text'))
      <3>1. CASE \E n \in 0 .. Len(text) - 1 : text' = SubSeq(text, 1, n)
        BY <1>0, <1>2, <3>1, LosesText, Zenon
      <3>2. CASE text' = << >>
        BY <1>0, <1>2, <3>2, LosesAll, Zenon
      <3> QED
        BY <3>1, <3>2, Zenon DEF LoseEnd
    <2>2. head' = AgileVersion \o Reserved \/ Len(head') < 8
      <3>1. CASE head' = head
        BY <2>0, <3>1
      <3>2. CASE \E n \in 0 .. Len(head) - 1 : head' = SubSeq(head, 1, n)
        <4>1. PICK n \in 0 .. Len(head) - 1 : head' = SubSeq(head, 1, n)
          BY <3>2
        <4>2. Len(head) = 8
          BY <2>0, AgileHeadIs
        <4>3. Len(SubSeq(head, 1, n)) = n
          BY <4>2
        <4> QED
          BY <4>1, <4>2, <4>3
      <3> QED
        BY <3>1, <3>2, Zenon DEF LoseEnd
    <2>3. XmlOf(made') = XmlOf(made) /\ HasXml(made')
      BY <1>1, <1>2
    <2>4. CutOf(XmlOf(made))'
      BY <2>1, <1>1 DEF CutOf
    <2>5. (\E e : Document(XmlOf(made), e) /\ Reading(e))'
      <3>1. PICK e : Document(XmlOf(made), e)
        BY <1>0, <1>2, XmlIs, Zenon DEF XmlOf
      <3>2. Reading(e)'
        BY <1>0, <1>1 DEF Reading, Bare
      <3> QED
        BY <1>1, <3>1, <3>2, Zenon
    <2>6. CutAgile'
      BY <1>0, <1>1, <2>2, <2>4, <2>5 DEF CutAgile
    <2> QED
      BY <1>0, <1>1, <2>3, <2>6 DEF CutInv, Bare
  <1>3. CASE ~HasXml(made)
    <2>0. head = StandardStream(made) /\ text = << >>
      BY <1>0, <1>3, Zenon DEF Untouched
    <2>1. Len(head) = 122
      BY <1>0, <1>3, <2>0, StandardStreamIs, Zenon DEF Sized
    <2>2. ~\E n \in 0 .. Len(text) - 1 : text' = SubSeq(text, 1, n)
      <3>1. Len(text) = 0
        BY <2>0
      <3> QED
        BY <3>1
    <2>3. \E n \in 0 .. Len(head) - 1 : head' = SubSeq(head, 1, n)
      BY <2>2, Zenon DEF LoseEnd
    <2>4. \E n \in 0 .. 121 : head' = SubSeq(StandardStream(made), 1, n)
      <3>1. 0 .. Len(head) - 1 = 0 .. 121
        BY <2>1
      <3> QED
        BY <2>0, <2>3, <3>1, Zenon
    <2>5. CutStandard'
      BY <1>0, <1>1, <2>4 DEF CutStandard
    <2> QED
      BY <1>0, <1>1, <1>3, <2>5 DEF CutInv, Bare
  <1> QED
    BY <1>2, <1>3

LEMMA PrefixIs ==
    ASSUME NEW S, NEW w \in Seq(S), NEW n \in 0 .. Len(w), NEW t, t = SubSeq(w, 1, n)
    PROVE  t \in Seq(S) /\ Len(t) = n /\ Same(t, w, n)
  BY DEF Same

\* What 16 and 32 bits of the cut stream hold, as far as it goes.
LEMMA StandardHeadIs ==
    ASSUME made \in Infos, ~HasXml(made), NEW n \in 0 .. 121, head = SubSeq(StandardStream(made), 1, n)
    PROVE  /\ Sized(head, n) /\ Same(head, StandardStream(made), n)
           /\ n >= 8 => Version \in {<<3, 2>>, <<4, 2>>}
           /\ n >= 12 => HeaderSize = 38 /\ VerifierAt = 50
  <1> DEFINE w == StandardStream(made)
  <1>1. /\ Sized(w, 122)
        /\ Moved(w, LE16(made.major), 0, 2) /\ Moved(w, LE16(2), 2, 2) /\ Moved(w, LE32(38), 8, 4)
    BY StandardStreamIs, Zenon
  <1> HIDE DEF w
  <1>2. Sized(head, n) /\ Same(head, w, n)
    <2>1. Len(w) = 122 /\ w \in Seq(Nat) /\ head = SubSeq(w, 1, n)
      BY <1>1 DEF Sized, w
    <2>2. n \in 0 .. Len(w)
      BY <2>1
    <2>3. head \in Seq(Nat) /\ Len(head) = n /\ Same(head, w, n)
      BY <2>1, <2>2, PrefixIs, Zenon
    <2> QED
      BY <2>3 DEF Sized
  <1>3. ASSUME n >= 8 PROVE Version \in {<<3, 2>>, <<4, 2>>}
    <2>1. Moved(head, LE16(made.major), 0, 2) /\ Moved(head, LE16(2), 2, 2)
      BY <1>1, <1>2, <1>3, MovedStays
    <2>2. made.major \in {3, 4} /\ made.major \in 0 .. 255 /\ 2 \in 0 .. 255
      BY InfosAssumption
    <2>3. LE16(made.major)[1] = made.major /\ LE16(made.major)[2] = 0 /\ LE16(2)[1] = 2 /\ LE16(2)[2] = 0
      BY <2>2, LE16Is, Zenon
    <2>4. head[0 + 1] = made.major /\ head[0 + 2] = 0 /\ head[2 + 1] = 2 /\ head[2 + 2] = 0
      <3>1. 1 \in 1 .. 2 /\ 2 \in 1 .. 2
        OBVIOUS
      <3> QED
        BY <2>1, <2>3, <3>1, Zenon DEF Moved
    <2>5. made.major + (256 * 0) = made.major /\ 2 + (256 * 0) = 2
      BY <2>2
    <2>6. Get16(head, 0) = made.major /\ Get16(head, 2) = 2
      BY <2>4, <2>5, Zenon DEF Get16
    <2> QED
      BY <2>2, <2>6 DEF Version
  <1>4. ASSUME n >= 12 PROVE HeaderSize = 38 /\ VerifierAt = 50
    <2>1. Moved(head, LE32(38), 8, 4)
      BY <1>1, <1>2, <1>4, MovedStays
    <2>2. Get32(head, 8) = 38
      BY <2>1, ShortsAre, Get32Is
    <2> QED
      BY <2>2, SMT DEF HeaderSize, VerifierAt, HeaderAt
  <1> QED
    BY <1>2, <1>3, <1>4 DEF w

LEMMA OpenCut == ASSUME CutInv, Open PROVE CutInv'
  <1>0. made \in Infos /\ wasCut \in BOOLEAN /\ pc = "stored" /\ (wasCut => IF HasXml(made) THEN CutAgile ELSE CutStandard)
    BY Zenon DEF CutInv, Open
  <1>1. made' = made /\ head' = head /\ wasCut' = wasCut /\ info' = info /\ text' = text /\ xml' = xml
    BY DEF Open, xml
  <1>2. /\ Len(head) < 8 => pc' = "refused"
        /\ Version = <<4, 4>> => pc' \in {"xml", "refused"}
        /\ pc' \in {"xml", "refused", "standard"}
        /\ Version \in {<<3, 2>>, <<4, 2>>} => pc' \in {"standard", "refused"}
    <2>1. <<4, 4>> \notin {<<3, 2>>, <<4, 2>>}
      OBVIOUS
    <2>2. \/ pc' = "refused"
          \/ ~(Len(head) < 8) /\ Version = <<4, 4>> /\ pc' = "xml"
          \/ ~(Len(head) < 8) /\ Version # <<4, 4>> /\ pc' = "standard"
      <3> HIDE DEF Version
      <3>1. CASE Len(head) < 8
        BY <3>1, Zenon DEF Open
      <3>2. CASE ~(Len(head) < 8) /\ Version = <<4, 4>>
        <4> DEFINE c == CASE Version = <<4, 4>> -> IF Get32(head, 4) = 64 THEN "xml" ELSE "refused"
                          [] Version \in {<<3, 2>>, <<4, 2>>} -> "standard"
                          [] OTHER -> "refused"
        <4>1. c = IF Get32(head, 4) = 64 THEN "xml" ELSE "refused"
          BY <2>1, <3>2, Zenon
        <4>2. pc' = c
          BY <3>2, Zenon DEF Open
        <4> HIDE DEF c
        <4> QED
          BY <3>2, <4>1, <4>2, Zenon
      <3>3. CASE ~(Len(head) < 8) /\ Version # <<4, 4>>
        <4> DEFINE c == CASE Version = <<4, 4>> -> IF Get32(head, 4) = 64 THEN "xml" ELSE "refused"
                          [] Version \in {<<3, 2>>, <<4, 2>>} -> "standard"
                          [] OTHER -> "refused"
        <4>1. c = "standard" \/ c = "refused"
          BY <3>3, Zenon
        <4>2. pc' = c
          BY <3>3, Zenon DEF Open
        <4> HIDE DEF c
        <4> QED
          BY <3>3, <4>1, <4>2, Zenon
      <3> QED
        BY <3>1, <3>2, <3>3, Zenon
    <2> QED
      BY <2>1, <2>2, Zenon
  <1>3. CASE wasCut /\ HasXml(made)
    <2>1. CutAgile
      BY <1>0, <1>3, Zenon
    <2>2. pc' \in {"xml", "refused"}
      <3>1. CASE head = AgileVersion \o Reserved
        BY <1>2, <3>1, AgileHeadIs, Zenon
      <3>2. CASE Len(head) < 8
        BY <1>2, <3>2, Zenon
      <3> QED
        BY <2>1, <3>1, <3>2, Zenon DEF CutAgile
    <2>3. CutOf(XmlOf(made))'
      BY <1>1, <2>1, Zenon DEF CutAgile, CutOf
    <2>4. at' = at /\ nodes' = nodes /\ open' = open /\ mode' = mode /\ tag' = tag
      BY DEF Open, xml
    <2>5. (\E e : Document(XmlOf(made), e) /\ Reading(e))'
      <3>1. PICK e : Document(XmlOf(made), e) /\ Reading(e)
        BY <2>1, Zenon DEF CutAgile
      <3>2. Reading(e)'
        BY <2>4, <3>1, Zenon DEF Reading, Bare, Inside, RootTag
      <3> QED
        BY <1>1, <3>1, <3>2, Zenon
    <2>6. CutAgile'
      <3>1. (head = AgileVersion \o Reserved \/ Len(head) < 8)'
        BY <1>1, <2>1, Zenon DEF CutAgile
      <3> QED
        BY <2>2, <2>3, <2>5, <3>1, Zenon DEF CutAgile
    <2> QED
      BY <1>0, <1>1, <1>2, <1>3, <2>6 DEF CutInv
  <1>4. CASE wasCut /\ ~HasXml(made)
    <2>1. CutStandard
      BY <1>0, <1>4, Zenon
    <2>2. PICK n \in 0 .. 121 : head = SubSeq(StandardStream(made), 1, n)
      BY <2>1, Zenon DEF CutStandard
    <2>3. pc' \in {"standard", "refused"}
      <3>1. Sized(head, n) /\ (n >= 8 => Version \in {<<3, 2>>, <<4, 2>>})
        BY <1>0, <1>4, <2>2, StandardHeadIs, Zenon
      <3>2. Len(head) < 8 \/ Version \in {<<3, 2>>, <<4, 2>>}
        BY <3>1 DEF Sized
      <3> QED
        BY <1>2, <3>2, Zenon
    <2>4. CutStandard'
      BY <1>1, <2>2, <2>3 DEF CutStandard
    <2> QED
      BY <1>0, <1>1, <1>2, <1>4, <2>4 DEF CutInv
  <1>5. CASE ~wasCut
    BY <1>0, <1>1, <1>2, <1>5 DEF CutInv
  <1> QED
    BY <1>0, <1>3, <1>4, <1>5

LEMMA ReadXmlCut == ASSUME CutInv, ReadXml PROVE CutInv'
  <1>1. /\ pc = "xml" /\ pc' = pc /\ XmlNext
        /\ made' = made /\ head' = head /\ wasCut' = wasCut /\ info' = info
    BY Zenon DEF ReadXml
  <1>2. CASE wasCut /\ HasXml(made)
    <2>1. CutAgile
      BY <1>2, Zenon DEF CutInv
    <2>2. PICK e : Document(XmlOf(made), e) /\ Reading(e)
      BY <2>1, Zenon DEF CutAgile
    <2> DEFINE w == XmlOf(made)
               n == Len(text)
    <2>3. PICK S : text \in Seq(S)
      BY <2>1, Zenon DEF CutAgile, CutOf
    <2>4. n \in Nat /\ n < Len(w) /\ Same(text, w, n)
      BY <2>1, Zenon DEF CutAgile, CutOf
    <2>5. Len(w) \in Nat /\ NamedTwice(w, Len(w))
      <3>1. made \in Infos
        BY Zenon DEF CutInv
      <3>2. PICK T : w \in Seq(T)
        BY <1>2, <3>1, XmlIs, Zenon DEF XmlOf
      <3>3. NamedTwice(w, Len(w))
        BY <1>2, <3>1, XmlIs, Zenon DEF XmlOf
      <3> HIDE DEF w
      <3>4. Len(w) \in Nat
        BY <3>2
      <3> QED
        BY <3>3, <3>4
    <2>6. Document(w, e) /\ Len(text) = n
      BY <2>2
    <2> HIDE DEF w, n
    <2>7. Reading(e)' /\ text' = text
      BY <1>1, <2>2, <2>3, <2>4, <2>5, <2>6, ReadingKept
    <2>8. CutOf(XmlOf(made))'
      <3>1. XmlOf(made)' = XmlOf(made)
        BY <1>1, Zenon
      <3> QED
        BY <2>1, <2>7, <3>1, Zenon DEF CutAgile, CutOf
    <2>9. CutAgile'
      <3>1. (head = AgileVersion \o Reserved \/ Len(head) < 8)'
        BY <1>1, <2>1, Zenon DEF CutAgile
      <3>2. (\E d : Document(XmlOf(made), d) /\ Reading(d))'
        BY <1>1, <2>2, <2>7, Zenon
      <3>3. pc' \in {"stored", "xml", "refused"}
        BY <1>1
      <3> QED
        BY <2>8, <3>1, <3>2, <3>3, Zenon DEF CutAgile
    <2> QED
      BY <1>1, <1>2, <2>9 DEF CutInv
  <1>3. CASE wasCut /\ ~HasXml(made)
    BY <1>1, <1>3 DEF CutInv, CutStandard
  <1>4. CASE ~wasCut
    BY <1>1, <1>4 DEF CutInv
  <1> QED
    BY <1>2, <1>3, <1>4 DEF CutInv

LEMMA SetAgileCut == ASSUME CutInv, SetAgileEncryptionInfo PROVE CutInv'
  <1>1. /\ pc = "xml" /\ mode \in {"parsed", "threw"} /\ pc' \in {"read", "refused"}
        /\ mode = "threw" => pc' = "refused"
        /\ made' = made /\ head' = head /\ wasCut' = wasCut /\ xml' = xml
    BY Zenon DEF SetAgileEncryptionInfo
  <1>2. CASE wasCut /\ HasXml(made)
    <2>1. CutAgile
      BY <1>2, Zenon DEF CutInv
    <2>2. PICK e : Document(XmlOf(made), e) /\ Reading(e)
      BY <2>1, Zenon DEF CutAgile
    <2>3. mode # "parsed"
      BY <2>2 DEF Reading
    <2>4. pc' = "refused"
      BY <1>1, <2>3
    <2>5. at' = at /\ nodes' = nodes /\ open' = open /\ mode' = mode /\ tag' = tag /\ text' = text
      BY <1>1 DEF xml
    <2>6. Reading(e)'
      BY <2>2, <2>5, Zenon DEF Reading, Bare, Inside, RootTag
    <2>7. CutOf(XmlOf(made))'
      BY <1>1, <2>1, <2>5, Zenon DEF CutAgile, CutOf
    <2>8. CutAgile'
      <3>1. (head = AgileVersion \o Reserved \/ Len(head) < 8)'
        BY <1>1, <2>1, Zenon DEF CutAgile
      <3>2. (\E d : Document(XmlOf(made), d) /\ Reading(d))'
        BY <1>1, <2>2, <2>6, Zenon
      <3>3. pc' \in {"stored", "xml", "refused"}
        BY <2>4
      <3> QED
        BY <2>7, <3>1, <3>2, <3>3, Zenon DEF CutAgile
    <2> QED
      BY <1>1, <1>2, <2>4, <2>8 DEF CutInv
  <1>3. CASE wasCut /\ ~HasXml(made)
    BY <1>1, <1>3 DEF CutInv, CutStandard
  <1>4. CASE ~wasCut
    BY <1>1, <1>4 DEF CutInv
  <1> QED
    BY <1>2, <1>3, <1>4 DEF CutInv

LEMMA WholeIs == ASSUME NEW s, NEW n, Sized(s, n) PROVE SubSeq(s, 1, n) = s
  BY DEF Sized

\* Of a sequence of n, what begins after p, of k: it is the first k of l.
Fits(n, p, k, l, first, last) ==
    /\ n \in Nat /\ p \in Nat /\ k \in Nat /\ l \in Nat
    /\ k <= l /\ p + k <= n /\ first = p + 1 /\ last = p + k

Takes(w, first, last, x, k) == SubSeq(w, first, last) = SubSeq(x, 1, k)

LEMMA PlaceIs ==
    ASSUME NEW w, NEW x, NEW n, NEW p, NEW k, NEW l, NEW first, NEW last, Fits(n, p, k, l, first, last),
           Sized(w, n), Sized(x, l), Moved(w, x, p, k)
    PROVE  Takes(w, first, last, x, k)
  <1>1. /\ p \in Nat /\ k \in Nat /\ l \in Nat /\ w \in Seq(Nat) /\ x \in Seq(Nat)
        /\ k <= l /\ k <= Len(x) /\ p + k <= Len(w)
        /\ first = p + 1 /\ last = p + k
    BY DEF Fits, Sized
  <1>2. SubSeq(w, p + 1, p + k) = SubSeq(x, 1, k)
    BY <1>1, PartIs
  <1> QED
    BY <1>1, <1>2, Zenon DEF Takes

\* What is taken of a stream that goes on past the verifier's size.
LEMMA StandardTakes ==
    ASSUME made \in Infos, ~HasXml(made), NEW n \in 90 .. 121, head = SubSeq(StandardStream(made), 1, n)
    PROVE  [keySize |-> Header(4),
            salt |-> SubSeq(head, VerifierAt + 5, VerifierAt + 20),
            encryptedVerifier |-> SubSeq(head, VerifierAt + 21, VerifierAt + 36),
            encryptedVerifierHash |-> SubSeq(head, VerifierAt + 41, Len(head))]
           = [StandardObject(made) EXCEPT !.encryptedVerifierHash = SubSeq(@, 1, n - 90)]
  <1> DEFINE w == StandardStream(made)
             o == StandardObject(made)
             k == n - 90
  <1>0. n \in 0 .. 121 /\ n >= 12 /\ k \in Nat /\ k <= 32 /\ 90 + k = n /\ 90 \in Nat
    OBVIOUS
  <1>1. Sized(head, n) /\ Same(head, w, n) /\ VerifierAt = 50
    BY <1>0, StandardHeadIs, Zenon
  <1>2. /\ Moved(w, LE32(made.bits), 28, 4)
        /\ Moved(w, o.salt, 54, 16) /\ Moved(w, o.encryptedVerifier, 70, 16)
        /\ Moved(w, o.encryptedVerifierHash, 90, 32)
    BY StandardStreamIs, Zenon
  <1>3. /\ \A h : [o EXCEPT !.encryptedVerifierHash = h]
                  = [keySize |-> made.bits, salt |-> o.salt, encryptedVerifier |-> o.encryptedVerifier,
                     encryptedVerifierHash |-> h]
        /\ o.salt = Bytes(made.pattern, 1, 16) /\ o.encryptedVerifier = Bytes(made.pattern, 2, 16)
        /\ o.encryptedVerifierHash = Bytes(made.pattern, 3, 32)
    BY DEF StandardObject
  <1>4. Sized(o.salt, 16) /\ Sized(o.encryptedVerifier, 16) /\ Sized(o.encryptedVerifierHash, 32)
    <2>1. made.pattern \in Nat
      BY InfosAssumption
    <2>2. 1 \in Nat /\ 2 \in Nat /\ 3 \in Nat /\ 16 \in Nat /\ 32 \in Nat
      OBVIOUS
    <2>3. /\ Sized(Bytes(made.pattern, 1, 16), 16) /\ Sized(Bytes(made.pattern, 2, 16), 16)
          /\ Sized(Bytes(made.pattern, 3, 32), 32)
      BY <2>1, <2>2, BytesAreSized, Zenon
    <2>4. /\ o.salt = Bytes(made.pattern, 1, 16) /\ o.encryptedVerifier = Bytes(made.pattern, 2, 16)
          /\ o.encryptedVerifierHash = Bytes(made.pattern, 3, 32)
      BY <1>3, Zenon
    <2> QED
      BY <2>3, <2>4, Zenon
  <1> HIDE DEF w, o
  <1>5. Header(4) = made.bits
    <2>1. Moved(head, LE32(made.bits), 28, 4)
      BY <1>1, <1>2, MovedStays
    <2>2. Get32(head, 28) = made.bits
      <3>1. made.bits \in Shorts
        BY InfosAssumption, ShortsAre DEF StandardKeySizes
      <3> QED
        BY <2>1, <3>1, Get32Is
    <2>3. HeaderAt + (4 * 4) = 28
      BY DEF HeaderAt
    <2> QED
      BY <2>2, <2>3, Zenon DEF Header
  <1>6. SubSeq(head, 55, 70) = o.salt
    <2>1. Moved(head, o.salt, 54, 16)
      BY <1>1, <1>2, MovedStays
    <2>2. Fits(n, 54, 16, 16, 55, 70)
      BY DEF Fits
    <2>3. Takes(head, 55, 70, o.salt, 16)
      BY <1>1, <1>4, <2>1, <2>2, PlaceIs
    <2> QED
      BY <1>4, <2>3, WholeIs, Zenon DEF Takes
  <1>7. SubSeq(head, 71, 86) = o.encryptedVerifier
    <2>1. Moved(head, o.encryptedVerifier, 70, 16)
      BY <1>1, <1>2, MovedStays
    <2>2. Fits(n, 70, 16, 16, 71, 86)
      BY DEF Fits
    <2>3. Takes(head, 71, 86, o.encryptedVerifier, 16)
      BY <1>1, <1>4, <2>1, <2>2, PlaceIs
    <2> QED
      BY <1>4, <2>3, WholeIs, Zenon DEF Takes
  <1>8. SubSeq(head, 91, Len(head)) = SubSeq(o.encryptedVerifierHash, 1, k)
    <2>1. Moved(head, o.encryptedVerifierHash, 90, k)
      <3>1. \A i \in 1 .. k : i \in 1 .. 32
        BY <1>0
      <3>2. Moved(w, o.encryptedVerifierHash, 90, k)
        BY <1>2, <3>1, Zenon DEF Moved
      <3>3. 90 + k <= n
        BY <1>0
      <3> QED
        BY <1>0, <1>1, <3>2, <3>3, MovedStays
    <2>2. Fits(n, 90, k, 32, 91, n)
      BY <1>0 DEF Fits
    <2>3. Len(head) = n
      BY <1>1 DEF Sized
    <2> HIDE DEF k
    <2>4. Takes(head, 91, n, o.encryptedVerifierHash, k)
      BY <1>1, <1>4, <2>1, <2>2, PlaceIs
    <2> QED
      BY <2>3, <2>4, Zenon DEF Takes
  <1>9. VerifierAt + 5 = 55 /\ VerifierAt + 20 = 70 /\ VerifierAt + 21 = 71 /\ VerifierAt + 36 = 86 /\ VerifierAt + 41 = 91
    BY <1>1
  <1>10. [o EXCEPT !.encryptedVerifierHash = SubSeq(@, 1, k)]
         = [keySize |-> made.bits, salt |-> o.salt, encryptedVerifier |-> o.encryptedVerifier,
            encryptedVerifierHash |-> SubSeq(o.encryptedVerifierHash, 1, k)]
    <2>1. [o EXCEPT !.encryptedVerifierHash = SubSeq(@, 1, k)]
          = [o EXCEPT !.encryptedVerifierHash = SubSeq(o.encryptedVerifierHash, 1, k)]
      OBVIOUS
    <2> QED
      BY <1>3, <2>1, Zenon
  <1> HIDE DEF k
  <1>11. [keySize |-> Header(4),
          salt |-> SubSeq(head, VerifierAt + 5, VerifierAt + 20),
          encryptedVerifier |-> SubSeq(head, VerifierAt + 21, VerifierAt + 36),
          encryptedVerifierHash |-> SubSeq(head, VerifierAt + 41, Len(head))]
         = [o EXCEPT !.encryptedVerifierHash = SubSeq(@, 1, k)]
    BY <1>5, <1>6, <1>7, <1>8, <1>9, <1>10, Zenon
  <1> QED
    BY <1>11, Zenon DEF o, k

LEMMA SetStandardCut == ASSUME CutInv, SetStandardEncryptionInfo PROVE CutInv'
  <1> DEFINE taken ==
                [keySize |-> Header(4),
                 salt |-> SubSeq(head, VerifierAt + 5, VerifierAt + 20),
                 encryptedVerifier |-> SubSeq(head, VerifierAt + 21, VerifierAt + 36),
                 encryptedVerifierHash |-> SubSeq(head, VerifierAt + 41, Len(head))]
  <1>1. /\ pc = "standard" /\ made' = made /\ head' = head /\ wasCut' = wasCut /\ xml' = xml
        /\ \/ pc' = "refused"
           \/ /\ pc' = "past the end" /\ ~(Len(head) < HeaderAt) /\ ~(HeaderSize > Len(head)) /\ VerifierAt > Len(head)
           \/ /\ pc' = "read" /\ ~(Len(head) < HeaderAt) /\ IsVerifier
              /\ info' = taken
    BY Zenon DEF SetStandardEncryptionInfo
  <1> HIDE DEF taken
  <1>2. CASE wasCut /\ HasXml(made)
    BY <1>1, <1>2 DEF CutInv, CutAgile
  <1>3. CASE wasCut /\ ~HasXml(made)
    <2>0. made \in Infos /\ CutStandard
      BY <1>3, Zenon DEF CutInv
    <2>1. PICK n \in 0 .. 121 : head = SubSeq(StandardStream(made), 1, n)
      BY <2>0, Zenon DEF CutStandard
    <2>2. Sized(head, n) /\ (n >= 12 => HeaderSize = 38 /\ VerifierAt = 50)
      BY <1>3, <2>0, <2>1, StandardHeadIs, Zenon
    <2>3. Len(head) = n
      BY <2>2 DEF Sized
    <2>4. HeaderAt = 12 /\ HeaderAt' = 12
      BY DEF HeaderAt
    <2>5. ASSUME pc' = "read" PROVE AllButHash(made)'
      <3>1. n >= 12 /\ VerifierAt = 50 /\ IsVerifier /\ info' = taken
        BY <1>1, <2>2, <2>3, <2>4, <2>5
      <3>2. Len(head) - VerifierAt >= 40
        BY <3>1, Zenon DEF IsVerifier
      <3>3. n \in 90 .. 121 /\ n - 90 \in 0 .. 31
        BY <2>3, <3>1, <3>2
      <3>4. taken = [StandardObject(made) EXCEPT !.encryptedVerifierHash = SubSeq(@, 1, n - 90)]
        BY <1>3, <2>0, <2>1, <3>3, StandardTakes, Zenon DEF taken
      <3>5. info' = [StandardObject(made') EXCEPT !.encryptedVerifierHash = SubSeq(@, 1, n - 90)]
        BY <1>1, <3>1, <3>4, Zenon
      <3> QED
        BY <3>3, <3>5, Zenon DEF AllButHash
    <2>6. ASSUME pc' = "past the end" PROVE (Len(head) \in Len(StandardHeader(made.bits)) .. VerifierAt - 1)'
      <3>1. ~(HeaderSize > Len(head)) /\ VerifierAt > Len(head) /\ n >= 12
          <4>1. ~(HeaderSize > Len(head)) /\ VerifierAt > Len(head) /\ ~(Len(head) < HeaderAt)
          BY <1>1, <2>6
        <4> QED
          BY <2>3, <2>4, <4>1
      <3>2. HeaderSize = 38 /\ VerifierAt = 50
        BY <2>2, <3>1
      <3>3. Len(StandardHeader(made.bits)) = 38
        BY <1>3, <2>0, InfosAssumption, StandardHeaderIs DEF Sized
      <3>4. Len(head) \in Len(StandardHeader(made.bits)) .. VerifierAt - 1
        BY <2>3, <3>1, <3>2, <3>3
      <3>5. VerifierAt' = VerifierAt /\ Len(head') = Len(head) /\ made' = made
        BY <1>1, Zenon DEF VerifierAt, HeaderSize, HeaderAt
      <3> QED
        BY <3>4, <3>5, Zenon
    <2>7. CutStandard'
      <3>1. (\E i \in 0 .. 121 : head = SubSeq(StandardStream(made), 1, i))'
        BY <1>1, <2>1, Zenon
      <3>2. pc' \in {"stored", "standard", "refused", "read", "past the end"}
        BY <1>1
      <3> QED
        BY <2>5, <2>6, <3>1, <3>2, Zenon DEF CutStandard
    <2>8. pc' # "stored"
      BY <1>1
    <2> QED
      BY <1>1, <1>3, <2>0, <2>7, <2>8, Zenon DEF CutInv
  <1>4. CASE ~wasCut
    BY <1>1, <1>4 DEF CutInv
  <1> QED
    BY <1>2, <1>3, <1>4 DEF CutInv

LEMMA CutSteps == CutInv /\ [InfoNext]_infoVars => CutInv'
  <1> SUFFICES ASSUME CutInv, [InfoNext]_infoVars PROVE CutInv'
    OBVIOUS
  <1>1. CASE LoseEnd
    BY <1>1, LoseEndCut
  <1>2. CASE Open
    BY <1>2, OpenCut
  <1>3. CASE ReadXml
    BY <1>3, ReadXmlCut
  <1>4. CASE SetAgileEncryptionInfo
    BY <1>4, SetAgileCut
  <1>5. CASE SetStandardEncryptionInfo
    BY <1>5, SetStandardCut
  <1>6. CASE UNCHANGED infoVars
    <2>1. /\ made' = made /\ head' = head /\ wasCut' = wasCut /\ info' = info /\ pc' = pc
          /\ text' = text /\ at' = at /\ tag' = tag /\ nodes' = nodes /\ open' = open /\ mode' = mode
      BY <1>6 DEF infoVars, xml
    <2> QED
      BY <2>1, Zenon DEF CutInv, CutAgile, CutStandard, CutOf, AllButHash, Untouched, Reading, Bare, Inside,
            RootTag, VerifierAt, HeaderSize, HeaderAt
  <1> QED
    BY <1>1, <1>2, <1>3, <1>4, <1>5, <1>6, Zenon DEF InfoNext, Stop

\* A stream that lost its end is refused, or read without the end of the hash.
LEMMA CutIsSeen == CutInv => CutIsNoticed
  <1> SUFFICES ASSUME CutInv, wasCut
               PROVE  /\ pc = "read" => /\ ~HasXml(made)
                                        /\ \E n \in 0 .. 31 :
                                              info = [Written EXCEPT !.encryptedVerifierHash = SubSeq(@, 1, n)]
                      /\ pc = "past the end" => Len(head) \in Len(StandardHeader(made.bits)) .. VerifierAt - 1
    BY Zenon DEF CutIsNoticed
  <1>1. CASE HasXml(made)
    BY <1>1 DEF CutInv, CutAgile
  <1>2. CASE ~HasXml(made)
    <2>1. CutStandard
      BY <1>2, Zenon DEF CutInv
    <2>2. Written = StandardObject(made)
      BY <1>2, Zenon DEF Written
    <2> QED
      BY <1>2, <2>1, <2>2, Zenon DEF CutStandard, AllButHash
  <1> QED
    BY <1>1, <1>2

\* Whatever was written, and whatever the cipher, the digest and the buffer, a
\* stream that lost its end is refused, but for the end of Office 2007's hash.
THEOREM CutsAreNoticed == InfoSpec => []CutIsNoticed
  <1>1. InfoInit => CutInv
    BY InitCut
  <1>2. CutInv /\ [InfoNext]_infoVars => CutInv'
    BY CutSteps
  <1>3. CutInv => CutIsNoticed
    BY CutIsSeen
  <1> QED
    BY <1>1, <1>2, <1>3, PTL DEF InfoSpec
=============================================================================
