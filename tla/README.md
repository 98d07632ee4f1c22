# Verification of msoffice

TLA+ models of the encryptor, decryptor and password search for MS Office files
in this repository, the TLC runs that check them on small instances, and proofs
of the facts that hold for every size. A module's header says which functions
it stands for; this file says how the modules fit together and what is known.

Paths are relative to `src/`: `include/cfb.hpp` is `src/include/cfb.hpp`.

## 1. The system

An encrypted Office document is a *compound file* (a small file system in a
file) with two streams that matter: `EncryptionInfo`, which says how the key is
protected by the password, and `EncryptedPackage`, the enciphered document.

```
 msoffice-crypt.cpp   attack.cpp            a program using libmsoc
        |                  |                        |
        |             attack.hpp  --threads--  msocdll.cpp (option object)
        |                  |                        |
        +--------> encode.hpp / decode.hpp <--------+
                     |             |
           make_dataspace.hpp   cfb.hpp          crypto_util.hpp, standard_encryption.hpp
           (layout, tables)     (reader, records) (keys, cipher, EncryptionInfo)
                                                    |
                                            custom_sha1.hpp,
                             cybozu/* (digests, AES, XML, options, UTF, parallel_for)
```

### Inventory

| Component | State | Operations | What is hard | What makes it correct |
|---|---|---|---|---|
| Sector counts, `detectSectorNum` | two counts, a round counter | one round | the counts feed each other; the guard `max loop` builds an exception and does not throw it | it stops, at the least pair that describes the file |
| DIFAT, `makeDifat`, `addExtraDifat` | words on disk; the list collected | write an entry, fill, link; read a word, follow a link | ends of lists, exact fits, a link followed without a check for cycles | the list read is the list written, and the links lead on |
| Chains, `FatSectors::makeChains` | the table, destroyed while it is read; the chains | start, follow, end, refuse | any table may come from a file: cycles, joins, back links; a walk reads what earlier walks have left | chains follow the table; the walk ends; no chain is cut |
| Layout and read-back, `makeLayout`, `CompoundFile` | directory, tables, data area; the reader's entries and contents | place, count, write tables, directory, contents; read the same | two tables with different units, decided by size; counts computed before what they count; positions of bytes kept by hand on both sides; a search tree written by hand | every stream comes back as it went in, for this reader and for one that descends the tree |
| Library calls, `MSOC_*`, `encode`, `decode` | files; an option object carried from call to call | create and set the object, encrypt, decrypt, view | a decryption writes what a later call reads; writes that fail half-way, flushes that fail unseen; keys of wrong length | no noise on disk, errors change nothing, the password given decides |
| Package codec, `EncContent`, `DecContent`, `cipher` | the stream, block by block | encipher, digest, verify, decipher, cut | the two sides count blocks differently | what goes in comes out, and no false alarm |
| `EncryptionInfo` codec, `EncryptionInfo`, `CipherParam`, minixml, base64 | the text, the tree of tags, the fields | print, cut, parse, convert | a buffer of fixed size; an end that is missing; two layouts | the fields come back, and a cut is noticed |
| Dictionary search, `Attack`, `parallel_for` | batch, chunks, `quit`, `correctPass` shared by the threads | begin a batch, divide, begin threads, test, verify, store, announce, join | threads race for `correctPass`; errors with and without a text, threads that do not begin, empty passwords, SIMD groups of words | every word is tried once, no thread outlives what it uses, the end is conclusive |
| Command lines, `msoffice-crypt.cpp`, `attack.cpp`, option.hpp | arguments, option values, files | parse an argument, choose password, key and output, run, return; search by length | the order of the checks; four spellings of a password; a character table shorter than the password | what is typed reaches the program; all spellings agree; the return code tells what happened to the disk |
| Digests and HMAC, `Sha1`, `Sha256`, `Sha512`, `Hash`, `Hmac` | chain value, buffer, length, mode; a provider shared by threads | update, digest, clear; open the provider | the last block; four builds with different libraries; an object used again; an exchange without a lock | a digest is that of the bytes asked for, in every build; one provider stays open |
| Password hash, `CustomSha1`, `hashPassword` | 16 slots for 80 words | one round | words are overwritten in place, zero terms left out by hand, locals not initialised | each round takes SHA-1's word |
| AES, `AesNi`, `Cipher` | round keys; vector, open cell, counter | expand, convert; set up, update, finalize | key sizes with different schedules; a counter that wraps; an object set up again | FIPS 197's keys; any cut of a text gives the mode's text and its way back |
| `uint32vec.hpp`, `resource.hpp`, samples, tests | none of interest here | | | |
| `sha1.cpp` | none that outlives a run | decipher two extracted streams with a fixed password | an experiment apart from the rest (section 6) | |

Components interact by calls only, with four exceptions that the models are
built around: the threads of the search share two variables, the threads of a
Windows build share the provider of a digest, the calls of the library share the
option object, and the writer and the reader of a file share the file.

## 2. Modules

| Module | Models | Uses |
|---|---|---|
| `CfbWords` | the words of a table, markers, `getBlockNum` | |
| `CfbGeometry` | one round of the two counts; the geometry's constants | `CfbWords` |
| `SectorNum` | `detectSectorNum` | `CfbGeometry` |
| `DifatTable`, `DifatTableProofs` (also of `SectorNum`) | `makeDifat`, header slots, `addDifat`, `addExtraDifat` | `CfbGeometry` |
| `FatChains`, `FatChainsProofs` | `FatSectors::makeChains` | `CfbWords` |
| `CfbRecords` | header and directory entry, byte by byte, written and read | `CfbGeometry` |
| `StreamStore` | the promise of a compound file | |
| `CfbFile`, `CfbFileProofs` | `makeDataSpace`, `makeLayout`, `makeFat`, `CompoundFile::analyze`, `DirectoryEntryVec` | `CfbRecords`, `StreamStore` |
| `OfficeCrypto` | keys, verifiers and ciphers of the two encryptions, symbolically | |
| `OfficeFiles` | what a file is to a program: its kind, what opens it, what an interrupted write leaves | `OfficeCrypto` |
| `MsocApi`, `MsocApiProofs` (with `EncryptionInfo`'s proof) | `msocdll.cpp`, `encode`, `decode` | `OfficeFiles` |
| `PackageCodec`, `PackageCodecProofs` | `EncContent`, `DecContent`, integrity, `cipher` | `CfbWords` |
| `MiniXml` | `cybozu/minixml.hpp` | |
| `Base64` | `enc64`, `dec64`, `%d` and `atoi` | |
| `EncryptionInfo` | `toXml`, `addHeader`, `setAgileEncryptionInfo`, `setStandardEncryptionInfo` | `Base64`, `MiniXml` |
| `Utf` | UTF-8 and UTF-16 of `cybozu/string.hpp`, `fromHex`, `fromUniHex`, `Char16toChar8` | `Base64` |
| `CommandLine` | `cybozu::Option::parse` | `Utf` |
| `CryptCli` | `msoffice-crypt.cpp` | `OfficeFiles`, `CommandLine` |
| `AttackCli` | `attack.cpp`, `setPass` and the search by length | `CryptCli`, `CommandLine` |
| `Tools`, `ToolsProofs` | both programs on one disk, one command after the other | `AttackCli` |
| `Attack`, `AttackProofs` | `Attack`, `parallel_for` | |
| `ShaRounds` | the rounds of SHA-1, SHA-256 and SHA-512, bit by bit | |
| `HashObject` | the objects of `cybozu/sha1.hpp` and `sha2.hpp` in four builds | |
| `CustomSha1` | the message schedule of `CustomSha1` | `HashObject` |
| `BCryptAlg` | the provider shared by threads | |
| `AesRounds` | key expansion, conversion and rounds of `AesNi` | |
| `CipherObject` | `crypto::Cipher` with `AesNi` or bcrypt | |
| `Crypto`, `CryptoProofs` | the last six at work: streams, HMAC, `hashPassword`, ciphers, by several threads | those |

`MC<module>` holds the values of the constants for TLC. Operators whose comment
begins with *Mutation* are wrong variants of the operator they precede, kept to
show that each property can fail.

### State and actions, module by module

**`SectorNum`.** `difatNum`, `fatNum` and `count` are the locals `difatSectorNum`, `fatSectorNum`
and `count` of `detectSectorNum` (`include/make_dataspace.hpp:161-176`); `Round` is one pass of its
`for (;;)`. `count` saturates at ten, the only value the code compares it with. The comparison does
nothing: the exception is built and not thrown, so a round that changes nothing is the only exit,
and `Terminates` asks for it before that guard. `CfbFile` has of the loop what it returns
(`SectorCounts`: the pair of a round without a change, none if there is none).

**`DifatTable`.** `WriteEntry`, `FillRest` and `WriteLink` are `makeDifat`'s inner
loop, its tail, and the link after a full sector; `ReadHeader`, `ReadWord` and
`ReadLink` are `addDifat` and `addExtraDifat`. The reader reads what the writer left
on disk, so a wrong link leads it into the FAT, whose words are modelled too.

**`FatChains`.** One action per branch of `makeChains` (`include/cfb.hpp:316-337`).
The table is arbitrary. `fatIdx` is the table the code overwrites, `fat` a copy
of what was read, which only properties use.

**`CfbRecords`, `CfbFile`.** The whole way from contents to contents.
`PlaceMiniStreams`, `CountSectors`, `WriteTables`, `WriteDirectory` and `WriteContents`
(one entry a step) are the parts of `makeLayout` in order; `ReadHeader`, `ReadFat`,
`ReadMiniFat`, `ReadEntries`, and then per entry `LoadMiniData`, `SkipStorage` or
`LoadContent` are `CompoundFile::analyze` and `setContents`. The header and the
entries of the directory are functions from positions to bytes, and a byte is
a place in a value: writer and reader each have the table of positions of
their own code, so a field read from a wrong place or at a wrong width is no
value. The tables are words; in the data area every unit remembers which stream
wrote it. The list of FAT sectors past the header is `DifatTable`'s subject and
arrives unless it fits exactly (`ListReadBack`); chains are complete because the
writer's ascend (`CompleteOrBackLink`). Character 6, which begins two of the
names, is written `~`.

**`OfficeCrypto`, `OfficeFiles`, `MsocApi`.** Keys are sequences of 16-byte halves,
ciphertexts remember their key, a wrong key gives noise, a digest determines what
it is made of. `file`, `opt` and `ret` are the disk, the `msoc_opt` and the return
code; an action is a whole call with its early returns in the code's order.
A write may fail at opening, leaving the file as it was or empty, or on the way,
leaving its beginning. The sync and the close after it are in `File`'s destructor, which swallows
what they throw (`include/cybozu/file.hpp:161-172`): the call returns no error and the file is
whole, empty or cut (`Flushed`). The last half of a key may be short (`ShortHalf`): `encode_in` and
`decodeAgile` fill it up (`Filled`), and the path of Office 2007 hands it to the cipher, which
throws (`IsWhole`).

**`PackageCodec`.** `EncBlock` and `DecBlock` are the bodies of the two loops;
`GenerateIntegrityParameter`, `VerifyIntegrity`, `GetEncodedData` and `CutToSize` what
happens before and after. `Encipher` and `Decipher` are `cipher()` with CBC's
chaining: a cell deciphers only after the one it was enciphered after.

**`EncryptionInfo`, `MiniXml`, `Base64`.** The writer prints header and XML into a
buffer of `BufSize`, losing what does not fit. Then the stream may lose its end.
The reader checks the version, and either walks the XML (one tag or one attribute
a step, with the tree and the stack of open tags) and looks its attributes up, or
reads Office 2007's binary fields. Attribute values are characters, since base64
and numbers are converted there; words that no reader tells apart are tokens.

**`Tools`, `CommandLine`, `Utf`, `CryptCli`, `AttackCli`.** A script is a disk and one or two
commands, each a list of items that says what is typed *and* what is meant. `Parse` is one pass of
`Option::parse`'s loop over the arguments; `RunCrypt` and `RunAttack` are the two `main`s, with the
conversions of the password from bytes or hexadecimal to UTF-16, the key, the output's name and the
order of the checks. A search of a dictionary is one step (`SearchDictionary`), taken for what
`Attack` shows of it in the build the sources select (`include/crypto_util.hpp:12-14` leaves
`USE_CUSTOM_SHA1` out: no SIMD, the file's own hash), and every exception there is taken to have a
text, as those of the author's library do: it ends with what it has found; or it throws, for an
error or a thread that cannot be begun or joined, having found something or not, and threads left
behind may end the program; and what is printed may be `Garbled` if two threads found two equal
lines. The dictionary is any file: one that is no text has some lines, too (`RawLines`), and an
empty one none. The search by length goes password by password (`TryNext`) with `setPass`'s buffer.
A write before its beginning goes to the string's length, to its place or to the heap: the string
that is tried next may be any (`Garbled`), match or not, the string may throw, and the program may
end there or when the string is freed (`Leave`).

**`Attack`.** `main` is where the constructor and `parallel_for` are, `pc[t]` where thread `t` is in
`threadEntry` and `operator()`. `store` is the time a thread is inside the assignment to
`correctPass`; two at once may leave a torn string. Hashing may throw in any thread at any word,
with a text or without: `parallel_for` takes an error without one for none
(`include/cybozu/parallel.hpp:83`), and `hushed` remembers it. `lanes` and `hashing` are the build
and the file: one word a call or a group of them with SIMD, and a word hashed with the file's own
hash, with SHA-1 although the file has another (`sha1PasswordX`, SIMD only), or refused
(`hashPassword` with `USE_CUSTOM_SHA1`). Threads are begun one after the other; if one cannot be
begun or joined, `parallel_for` throws with the others running (`Abandon`). What they use is then
destroyed, and the first step such a thread takes is its last in the model (`Outlive`, pc "lost").

**`Crypto` and its parts.** A job says what a thread does: digest a message in pieces
and another with the same object, make an HMAC, hash a password in either build,
digest a published example, expand a key, encipher and decipher piece by piece.
Bytes are symbols (the b-th byte of a message, a byte of a digest, xored with a
pad), and a digest is known by the list of blocks that went through the rounds:
equal blocks, equal digests. The rounds themselves are functions on words as sets
of bits (`ShaRounds`) and run on the examples of FIPS 180-4. `CustomSha1`'s schedule
is linear over xor, so a word is the set of input words and rotations it is the
xor of; what holds of these sets holds of all inputs. `AesRounds` treats a word as
the set of terms it is the xor of, with a substitution of which only the inverse
is known. `BCryptAlg` splits `open` (`include/cybozu/sha2.hpp:162-182`) at every
access to the shared handle, and lets a thread read the size of the work area
that another wrote or the zero from before it.

## 3. Runs

| Run | Question | Properties |
|---|---|---|
| `SectorNum_real` | Does the fixpoint loop end, at the least adequate pair? | `ResultAdequate`, `NeverOvershoots`, `Terminates` |
| `DifatTable_small` | Is the list of FAT sectors read back, by links that lead on, and when is it refused? | `DifatReadBack` |
| `FatChains_all` | What does `makeChains` make of any table? | `ChainsFollowFat`, `WalksBounded`, `CompleteUnlessBackLink`, `Terminates` |
| `CfbFile_all` | Does every stream come back, and is the directory a search tree? | `Accounted`, `OtherStreamsSurvive`, `RefusesOnly`, `DirectoryIsTree`, `IsStreamStore` |
| `CfbFile_small` | A package below the cutoff too? **No** | `PackageSurvives` |
| `MsocApi_all` | What may any sequence of calls do? | `ErrorLeavesOpt`, `DecryptGivesPlain`, `GeneratedKeyIsFull`, `OnlyPassOpens`, `KeyInOptOpens` |
| `MsocApi_pass` | Does the password passed decide? **No** | `PassDecides` |
| `PackageCodec_all` | Does a document of any length survive the blocks? | `RoundTrip`, `NoFalseWarning` |
| `EncryptionInfo_all` | Do all fields come back from the stream, and is a missing end noticed? | `InfoSurvives`, `CutIsNoticed` |
| `Tools_all` | Does what is typed happen, and does the return code say so? What do the searches find? | `ReadsWhatWasTyped`, `PasswordsAgree`, `ReturnSaysWhatHappened`, `OutputBeside`, `SearchFinds`, `LengthSearch` |
| `Attack_all` | Does the search try every word once and end conclusively? | `Partition`, `LostOnlyIfAbandoned`, `EndIsConclusive`, `RaceNeedsDuplicate`, `OverreadsOnlyTail`, `Terminates` |
| `Crypto_all` | Is every digest, HMAC, password hash, key schedule and enciphered text the one its standard asks for, in every build and cut? | `DigestOfItsBytes`, `PathsAgree`, `DigestsAreFips`, `AlgSafe`, `KeysAreFips197`, `CipherIsItsMode` |

Conditions in the properties are facts about the code, not conveniences: `DifatReadBack` and
`RefusesOnly` except an exactly full DIFAT, `CompleteUnlessBackLink` chains that link back,
`RaceNeedsDuplicate` dictionaries with equal lines, `SearchFinds` words that are not ASCII or end in
`\r` and equal lines with several threads, `LengthSearch` passwords longer or shorter than the
character table, `OutputBeside` names without a dot in a directory with one, `EndIsConclusive`
errors without a text and builds that do not compute the file's hash, `LostOnlyIfAbandoned` threads
that cannot be begun or joined, `DecryptGivesPlain` and `ReturnSaysWhatHappened` flushes that fail,
`KeyInOptOpens` Office 2007 files, of which it says what the code does with the key, and calls that
only look (section 4).

### Refinement

`IsStreamStore` states that `CfbFile` implements `StreamStore`: with
`stored <- ` the contents and `retrieved <- ` what the reader has once it is done,
initial states map to initial states and every step of the file, of the writer
as well as the reader, to `Retrieve` or to a stutter. It is restricted to packages
above the cutoff, because below it it is false (`CfbFile_small`).

### Bounds, and why they suffice

* `SectorNum_real` uses the real geometry (128 words, 109 slots). The counts
  change only at multiples of 127 content sectors (FAT) and of 127 FAT sectors
  (DIFAT): those up to 480 FAT sectors, the DIFAT boundaries beyond, and sizes
  up to 4 GB, the largest file the 32-bit sizes admit, are tried with their
  neighbours. The proofs cover all the others.
* `DifatTable_small` has sectors of 4 words and 2 header slots, and every F up to
  20: no DIFAT, a part of one, a full one, six chained. The proof covers every
  other F and the real geometry.
* `FatChains_all` has every table of 4 sectors over sectors, markers and a
  word outside: 9^4 tables. Shortest back link that cuts a chain, cycles with a
  tail, joins and self links fit in 4. Its safety properties are proved for all.
* `CfbFile`: 8 units a sector, 4 mini sectors a sector, 16 words a table sector, one header slot,
  cutoff 16. Package sizes: all below the cutoff, all up to 34 (five sectors), the multiples of 8
  and their neighbours, and sizes that need one and two DIFAT sectors or fill one exactly. A real
  package is always 8 bytes longer than a multiple of 16, hence never exactly at the cutoff or at
  the end of a sector; the sizes tried are a superset of that except for the cutoff, which is left
  out. The proofs cover every other size and geometry. `EncryptionInfo` is at most 2056 bytes
  (`toXml`'s buffer), half the cutoff, and so are `InfoSizes`. The records keep their real 512 and
  128 bytes, except for the number of slots in the header.
* `MsocApi`: two files, one object, one document, two passwords (one empty), two
  keys to draw, one known to the program and one that is too short, a spin count beyond the limit. Every
  call reads one file and writes one, so two suffice for a key carried from one
  to another. Drawn keys are interchangeable (symmetry); no action reads `ret`
  (view).
* `PackageCodec`: a unit is 4 bytes, a cell 4 units, a block 16, digests of 5 units (SHA-1) and 16
  (SHA-512); all documents of 2 to 54 units, that is 8 bytes, the least `DetectFormat` lets pass, up
  to three blocks and a part of a fourth. The proof covers every other size.
* `EncryptionInfo_all`: every pair of cipher and digest, both forms of the root tag,
  spin counts at the ends of what `encode_in` and `%d` give, two patterns of bytes
  (so that base64 has every padding and both ends of its alphabet), the real buffer of 2048
  characters. The longest text, a text of the other form and both Office 2007 layouts
  are cut at every place; Office 2007's have keys of its three sizes.
* `Tools_all`: scripts from lists: every pair of spellings for code points on both
  sides of every border of UTF-8 and UTF-16; every kind of file with every mode,
  right and wrong passwords, keys and key files; ill-formed options in every
  order of two; every kind of dictionary line, equal lines, and dictionaries that are
  empty or no text. The search by length has a table of
  two characters and lengths 0 to 3: below, at and beyond the table's size. `RawLines` is one list of
  lines and `Garbled` one string for TLC; the proofs have any.
* `Attack_all`: three threads, batches of four, dictionaries up to five words over
  three strings: two batches, fewer words than threads, remainders 0 to 2, the
  password nowhere, anywhere, twice, or empty, in a build that computes the file's hash and in one
  that does not. A batch is a multiple of the lanes, as 100000 is of 4 and 8.
* `Crypto_all`: messages in up to two pieces and a last one, each empty, one byte, or of a
  length at either side of where the padding takes a second block, at a block, and
  beyond what a library is handed at once (`MaxUpdate` 50; the messages of more than
  4 GB it stands for cannot be enumerated). HMAC keys on both sides of both
  block sizes. Three iterations of the password hash: after the second a slot
  holds what it holds after any. A cell has 4 bytes and a byte of a counter 3 values:
  a counter wraps in one byte and in all. Three threads open the provider at once.

### Fairness

`SectorNum` and `FatChains` assume weak fairness of their step: they are
single loops in one thread, which the processor keeps running. `Attack` assumes
weak fairness of the constructor and of each thread: they are operating system
threads without priorities, none waits for a lock, and the join waits for each. Nothing
says that a thread must fail to begin or to join (`Abandon` is not fair).
No other run needs fairness. Liveness is checked where the code has a loop that
is not counted (`Terminates`). `addExtraDifat`, the remaining one, ends because
`DifatReadBack` leads it from each sector to the next of finitely many.

## 4. What was found

Two statements of the repository are not what the code does, each with a run that finds it.

1. **Small documents** (`CfbFile_small`). A content of at most 4096 bytes is written
   at 64 times its start, into the mini stream (`include/make_dataspace.hpp:307`);
   the start of `EncryptedPackage` is always a sector. A document of up to 4080
   bytes does not come back. The other streams do (`OtherStreamsSurvive`).
2. **A key left in the option object** (`MsocApi_pass`). `include/msoc.h:83` says that
   the key is used if `pass` is NULL; `decrypt` uses it whenever it is there
   (`src/msocdll.cpp:237`), so the password of the next call is not looked at.

A third one is part of a property that holds:

3. **The key of an Office 2007 file** (`KeyInOptOpens`). `include/decode.hpp:186` says of `decode`
   that "secretKey will be set if it is empty", and `include/msoc.h:84` of `MSOC_decryptA` that "opt
   is set by the value of inFile if opt is not NULL"; `decodeStandardEncryption`
   (`include/decode.hpp:153`) takes the key by value, so that an object without a key is left
   without one. The property states just that: no key is left if and only if the file is an Office
   2007 one and the object had none.

Further facts that no line of the repository speaks about are conditions of
properties that hold, and marked there:

* `makeDifat` ends its list one entry too late, `v > difatSectorNum + fatSectorNum`
  (`include/make_dataspace.hpp:121`). When the FAT sectors fill the DIFAT exactly, at
  236 FAT sectors first, a document of about 15 MB, the last link is not
  `ENDOFCHAIN` and the reader throws `large pos` (`DifatReadBack`, `ExactFit`).
* A chain that continues in a lower sector has been entered there before and
  comes out cut short (`CompleteUnlessBackLink`). Files of this writer ascend.
* Two equal lines of a dictionary may be found by two threads, which then assign
  one string at once (`RaceNeedsDuplicate`).
* `setPass` writes as many characters as the character table has (`include/attack.hpp:28`): with a
  shorter password it writes before the string's characters, over its length, its place or the heap,
  and what it answers after that is worth nothing; of a longer one it leaves the first characters
  unset (`LengthSearch`).
* Of an error in a thread only the text is kept, so that an exception without one is none: the batch
  goes on with the words of that thread not checked (`include/cybozu/parallel.hpp:83`,
  `EndIsConclusive`).
* The SIMD build hashes with SHA-1 whatever hash the file names (`include/attack.hpp:135`): it ends
  with nothing found after all the words (`EndIsConclusive`). `USE_CUSTOM_SHA1` alone refuses such
  files.
* A thread that cannot be begun or joined leaves the others with a target that is destroyed
  (`include/cybozu/parallel.hpp:76`, `:79`; `LostOnlyIfAbandoned`).
* The search takes any `EncryptionInfo` (`include/attack.hpp:155`): of an Office 2007 file it finds
  nothing, or throws (`SearchFinds`, `LengthSearch`).
* A sync or a close that fails is swallowed (`include/cybozu/file.hpp:161-172`): `msoffice-crypt`
  returns 0 and the document is not on the disk (`ReturnSaysWhatHappened`).
* A key given with `-k` that is too short is filled up for an Agile file (`include/decode.hpp:132`)
  and an exception for an Office 2007 one (`include/cybozu/aes.hpp:293`).
* Words of a dictionary are widened byte by byte (`src/attack.cpp:31`): only ASCII words
  are the passwords they spell (`SearchFinds`). Of a line that ends in `\r` only what is
  before it is tried (`src/attack.cpp:24`): a password that ends in one is never found.

## 5. Proofs

All proofs are for every value of the constants, from the constants' named
assumptions alone: no bound of section 3 is used.

**`DifatTableProofs`** (for every geometry of at least 2 words a sector). First, for every number
of FAT sectors: writer and reader count words by sector and place, the list counts them
through; `Row(s)` is where sector s begins in that count. `Room` says what rounding up gives:
the list's last word is in the last sector. `IInv` has where the writer is and that its
next value is the list's (`Writing`), what it has written (`Written`), what the finished
disk holds in every place, `LastLink` included (`Finished`), and that the reader has a prefix of
the list as long as the words it has passed (`Reading`). The word too many that
the writer's test allows is in `Writing` ("fill" stands on the word after the list);
`LastSector` shows that it is then in the last sector and that this is not an exact
fit. From it: `ListReadBack`, all of `DifatReadBack`.

Second, the counts, `SectorNum` for every n: the proofs of the two are in one module because they
share the lemmas about rounding up (`DivMod`, `BlockNumLeast`); their variables are
disjoint. Why the loop cannot overshoot is an argument about monotone
functions: one round is monotone in both counts (`FatForMonotone`, `DifatForMonotone`), an
adequate pair bounds the round of any pair below it (`RoundStaysBelow`), and the
loop starts at (0, 0). The inductive invariant `CountsInv` is `CountsTypeOK` with `Growing` (the next
round's counts are at least the present ones, without which monotonicity says nothing
of the new pair), `Least` (every adequate pair is above the pair held) and
`Fixpoint` (a returned pair is its own round). From it: `TypeCorrect`, `NoOvershoot`,
`ReturnsAdequate` (a fixpoint of rounding up is adequate) and the action property
`OnlyGrow`. `CountsAreTheTables` joins the halves: what is returned is a pair that the DIFAT
may begin with.

**`FatChainsProofs`** (for every table of any size, well-formed or not). `WalksBounded`
is a pigeonhole argument: the sectors of a walk after the second are distinct
because each was freed when it was followed. `IInv` therefore adds `Freed` (a word of
the code's table is as it was read, or FREESECT), `Walking` (the word to follow is
that of the chain's last sector, or FREESECT), and `Entered` (the sectors this walk
has entered are freed, and distinct unless it is about to stop). `DistinctPlaces` turns
distinctness into a length with the library's facts on cardinalities. From it:
`TypeCorrect`, `FollowsFat`, `Bounded`, `RefusesBadOnly`. `Bounded` is the measure behind
the inner loop's termination. `CompleteOrBackLink` compares the chain with the walk that no word
is freed in, and needs the second invariant `Ends`: every walk begins at its head
(`Started`), what it has passed is consumed (`Consumed`), a finished one stopped at an
end of chain or at a freed word (`Stopped`), different walks share no sector (`Apart`),
and one that runs into another of a well-formed table does so only where both link
to one sector (`Merge`). The n-th sector of a chain is a recursive function, and
what holds of it is shown by induction over a set of naturals (`NatSetInduction`, from
the library's well-founded minimum).

**`CfbFileProofs`** (for every geometry, every length of the five small streams below the
cutoff and every length of the package). The two sides are followed phase by phase,
and the invariant `FileInv` has a conjunct for each, "once `pc` is past it ...": the
mini sectors are placed one stream after the other (`Placed`), the counts fit each other
and header and directory have the positions (`Counted`), the tables are `makeFat`'s with
room for their chains (`Tabled`), the data area has every content written so far
where its entry says (`Written`); the reader's list of FAT sectors (`Listed`), header
(`HeaderKnown`), tables (`FatKnown`, `MiniFatKnown`), entries (`EntriesKnown`), mini stream
(`MiniKnown`) and contents loaded so far (`ContentsKnown`) are the writer's. It is one invariant
because each of the reader's rests on all of the writer's: a content comes back only
if its chain does, which needs the FAT's words, hence the list, hence the header's
bytes. Below it are: what a field is after it was written and read at the places
of its table (`EntryPlaces` and the like: no two fields overlap), that an ascending chain
is the run of its sectors (`ChainOfRun`), that a list filtered by `Keep` is the one without
the empty places, and that the areas of the contents do not overlap (`Areas`), whatever
the package does to its wrong place. From it: `AccountedAlways`, `OthersAlwaysSurvive`,
`FileIsStreamStore` (the refinement: only the reader's last step changes `retrieved`, and it makes it
`stored`), and, with `Settable` (the names and ids the writer's own checks let pass are
those the reader asserts), `ReaderAccepts`, the second half of `RefusesOnly`.

The first half, that the writer never gives up, is `Roomy`: `pc` is never "writer refused", and once
the counts are made the FAT has a word for every sector (`CountsFit`, of any pair that settles).
That there is such a pair is `CountsSettle`; the loop of `detectSectorNum` has no other exit, and
without one it would run forever. A round is monotone, and if one moves the pair by at most 2 *
`Farther(e)` sectors the next moves it by at most 2 * e (`NarrowsTotal`, from `BlockNumStep` and
`DifatStep`); so up to `Reach` sectors, eight rounds narrow the move to two, and two rounds later
nothing changes (`Settles`). `MiniRoom` adds the five small streams up. With both halves and
`ContentReach` (what there is to count stays within `Reach`): `RefusesNothingElse`, which is
`RefusesOnly` and that the counts settle whenever the writer comes to them.

`DirectoryIsAlwaysTree` follows from `FileInv`'s `entries = dirs` and the links of `InfoTbl`
(`InfoTblIs`): `LookUpUnfolds` gives a look-up as a function of the steps left, `FoundBehind` a name
at an entry, behind one turn and behind two, which is the depth of the deepest tree, and
`Turns` the order at the entries that have siblings: the lengths of the names decide all of them
but one, `DataSpaceInfo` before `TransformInfo` (`TransformAfterData`).

The assumptions are `GeometryAssumption` (no size is 0), `SizesAssumption` (what `encode` passes: no
stream is empty, only the package reaches the cutoff), `NamesAssumption` (the
directory's names are valid texts, distinct, of the lengths they have in `make_dataspace.hpp`,
and D is before T), `MiniFatAssumption` (the small streams take at most the words of one
sector: of the real 128 they take nine and at most 64) and `ReachAssumption` (a sector has at least
four words, and the contents are at most `Reach` sectors, which is 2^49 for the real 128
words, where a sector's number has 32 bits).

**`MsocApiProofs`** (for every set of files, documents, passwords, keys and spin counts). Four
action properties, each from the facts about one call (`WriteFacts`, `EncryptFacts`, `DecryptFacts`)
and the invariant `Disk`, that the disk has a content under every name: `ErrorsLeaveOpt`;
`GeneratedKeysAreFull` (both halves of the key are drawn, `KeyFacts`); `OnlyThePassOpens` (the keys
of different passwords differ in their first half, `SKeysDiffer`, hence the verifiers do not match,
`Opens`); `DecryptsToPlain` (noise is of no known format). `KeyInOptOpensAgain` needs a stronger
invariant, `KInv`: besides `Disk`, every file is one the calls may leave (`FilesOK`: empty, cut, a
document, or encrypted under a key that can be read back), and so is the key in the object
(`OptOK`), for a key that `fromHex` throws at would open nothing. It is about both kinds of files
and about calls that only look: `DecryptKey` and `LeftIsKey` say which key is left by which path,
`FilledFacts` that a short key once filled up stays as it is, and `FlushedFile` that what a failed
flush leaves is a file of the invariant. `KeysAssumption` says that keys drawn or handed in are well
formed unless they are the ill-formed text, and that drawn ones are whole; `FilesAssumption` that
the disk begins with such files.

The second half of the module is `CutsAreNoticed`, about the stream these files begin with
(`EncryptionInfo`), for every cipher, digest, spin count and salt, and every size of `toXml`'s
buffer. Of the XML text the proof needs only how it begins, token by token as far as the end of the
root's tag (`Document`), and that the root's name occurs twice, in its tag and in the last token but
one (`NamedTwice`): no attribute's value is that word, since base64, numbers and the names of
digests are other characters (`Plain`). `Reading` says where the reader of such a text can be: at
one of the ten places the declaration and the root's tag have, or behind them with the root as the
first of the open nodes. A step leads from such a state to another or throws (`ReadingKept`),
because only the root's end tag closes the root (`InsideStep`), and its name is not there. So the
document never ends, and the reader throws when the text does. `CutInv` has this for Agile, whether
the cut is in the text or in the eight bytes before it; for Office 2007 it has that what there is
are the first n bytes of the 122, whose fields are where the reader looks (`StandardStreamIs`):
below 38 bytes it refuses, below 50 it reads past the end, below 90 it refuses again, and from there
on what it takes is what was written, but for the hash's end (`StandardTakes`). The sets that say
where a word ends and what fits the buffer have a least and a greatest number by well-foundedness
(`LeastOf`, `GreatestOf`). `InfosAssumption` says what kind of values are written.

**`PackageCodecProofs`** (for every size of a document, a cell, a block and a digest). A
sequence is taken for a function on 1 .. n (`IsSeq`), with lemmas about appending,
cutting and resizing. `DecipherEncipher`: deciphered after the vector it was
enciphered after, a text is itself and the zeros that filled up its last cell;
`DigestComesBack` for the two digests. `BlockFacts`: the reader's length of a block
(the smaller of the block and the rest) is the writer's (a block, or the rest for
the last), and each is whole cells. `IInv` has that the stream holds the pieces
written so far, each enciphered by itself (`Written`), the integrity values (`Guarded`)
and what the reader has deciphered so far (`Reading`). From it: `RoundTrip` and
`NoFalseWarning`.

**`AttackProofs`** (for any number of threads, batch size, dictionary). That the chunks tile a batch
needs where the division stands in the middle: `Cursor` says that after k chunks the cursor is `k *
q + min(k, r)`, with q and r the quotient and remainder; `CursorStep` and `DivMod` give that the
last chunk ends at the batch's length. `Tiles` carries cover and disjointness from chunk to chunk.
`Threads` says that threads run only between their start and the join, unless the search was
abandoned. From it: `ChunksTile` and `LostOnlyWhereAbandoned`, the latter over all interleavings of
thread steps: whoever ends the batch, by a find, an error or the last word, has waited for every
thread. The outcome of a search needs a second invariant, `SearchInv`, that relates the number of
times each word was checked to where the batch and every thread are: nothing behind the batch, once
before a thread's place, not at all after it (`Marks`, over the groups of lanes that start at a
thread's place, `Places`); a thread past its check has a word that matches (`Found`); `quit` and
`correctPass` speak of a find and a find is told or about to be (`Told`); without one, and without
an error that nobody sees (`hushed`), everything before the batch was checked once (`Searched`).
What a find is depends on the build (`Recognised`): one that does not compute the file's hash has
none. From it: `SearchIsConclusive`, `OnlyDuplicatesRace` (two writers are two indices of one hash)
and `OverreadIsTail` (a batch begins at a multiple of the lanes, and only its last group can be
short). `TornAssumption` makes a torn string a mark of its own, neither a password nor none.

**`CryptoProofs`** (for any number of threads, and every message, cut, key, number of
iterations and size the libraries take at once). `DigestsAreOfTheirBytes`: the four builds
have different objects, so the proof goes by what each knows of the bytes it was given.
The portable object has digested q whole blocks and keeps r bytes (`Part`); an update that
fills the open block, digests whole blocks and keeps the rest leads from one such state
to the next (`Places`, `BlocksOfBoth`), and what it appends at the end is FIPS 180's padding, in
one block or two. The libraries get the same bytes in pieces of their own, which together are
all of them (`AbsorbedIsAll`). `Holds` covers both, and `UpdateFacts` and `DigestFacts` are all that the
threads need. `CryptoInv` then says that an object is clear whenever its thread begins
something new, that hmac's key is RFC 2104's (`KeyOK`), and of each digest which bytes it is
of (`OutOK`); equal blocks have one place in `known`, so a place, once given, stays.

`SafeInUse`: which handles are open depends on who lost the exchange. `AlgInv` says that the shared
provider's handle is open and its thread has left `open` (`Shared`), that whoever is inside
`open` has an open handle of its own (`Owned`), and that a thread past the exchange finds a
provider (`HandleStays`). It holds of the provider alone (`AlgSafety`) and of the threads that digest
with it, over all interleavings.

`SchedulesAgree`: 16 slots stand for 80 words. `Slotted` says that before round r the slots
hold, at its number modulo 16, each word of SHA-1's schedule that a later round
still needs, except the eight locals, for which the schedule has zeros. A round
that leaves terms out is the xor of the four terms (`XorSame`: a place left out has a zero word,
and the others are different slots), for the 15 rounds written out by hand
one by one and for the rest by arithmetic modulo 16. Which words are zero follows from the bytes of
the block (`IteratedBytes`: number, digest, padding, length), and that the words 1 to 5 of
the next block are the digest from `PathInv`, through any interleaving with other threads.

`CiphersAreTheirModes`: the invariant is over everything since `setup`, however it was cut. In CBC
and ECB what the object has made is whole cells, each the mode's of the text's cell and the one
before it (`Passed`), `iv_` is the last of them, and what is left of the text is the open cell
(`InCells`); an update that fills the open cell and then runs over whole cells leads from one such
state to the next (`CellSteps`). In CTR what was made is the text under the stream of
`Number(counter)` and its successors (`InStream`): the counter's bytes are the digits of the next
number (`IncIsNext`: the carry of `incCtr` is addition modulo Radix^CellSize, said without the
power, digit by digit), and the part of the last cell's stream not yet used is `CellSize - ksPos`
bytes long (`CounterSteps`). `ComesBack` gives the second half: a beginning of what was enciphered
deciphers to a beginning of the text. `CipherInv` has both for the thread that uses the object,
through the call of `cipher` and through pieces, and says that no other thread does. What an earlier
use left in the object does not appear in it: `setup` leads to such a state from any (`SetUpMade`).

`RoundKeysAreFips197`: FIPS 197 defines the words of the expanded key by one recursion; the code
makes registers of four words with the processor's instructions, in three ways. `IsWords` is that
recursion as an equation; it has a solution (`WordsExist`), so that the standard's words are one
(`WordsAre`), and by induction over the rounds each register of the code is four of them in a row
(`RegOf`): for 128 and 256 bits a register follows from one or two before it (`NextKeyOf`,
`Expanded128`, `Expanded256`). A 192 bit key has six words, a register and a half: the pairs of
registers the code keeps (`IsTemps`) hold the words 6n to 6n + 5, and the shuffles put the round
keys together of the halves of two of them (`Expanded192`); what the last pair has beyond the words
of the standard is not used. `Deciphers` is by induction over the rounds, from the last of
enciphering back: a round of deciphering with a converted key undoes the round of enciphering
opposite to it (`RoundUndone`), which is why the first and last key stay as they are and those
between are passed through `InvMixColumns`. What SubBytes and MixColumns do to a byte stays out of
it: that one undoes the other is the processor's contract.

Assumptions: `JobsAssumption` (a job is one of the kinds the library has, `CustomSha1` is
SHA-1, a counter's bytes are bytes), `OneCustomAssumption` and `OneCipherAssumption` (the model
has the slots of one `CustomSha1` and the state of one `Cipher`; in the code each thread has its own),
and those of `BCryptAlg`, `HashObject` and `CipherObject`.

**`ToolsProofs`** (for every script of commands whose arguments are texts, and every set of
directories). `ReturnCodesSay` needs no invariant: `MainIs` sorts what `main` of msoffice-crypt does
into four outcomes (`Encrypts`, `Views`, `Decrypts`, `Refuses`), and each is looked at; that a
document deciphered with a wrong key is not written as the right one is `KnownIsText` (what another
key makes of it is no format). For `OutputGoesBeside` the input has to be a text (`InputIsText`):
parse gives it an argument and nothing else, whatever options stand around it, and keeps the set of
the variables (`CryptPass`). The name made of it is longer by the tag, and by a dot if it had none
(`DerivedIs`), so it is never the input's; its last slash is where the input's is (`LastIs`,
`SameDirectory`) unless a slash comes after the last dot.

What `File`'s destructor swallows is in `WriteIs` and `FlushedIs`: a write that returned 0 has
left the document, or nothing that could be taken for one.

`DictionaryFinds`: what is tried of a line and what opens the file are put together of different
functions, `toUtf8` of `attack.cpp` byte by byte and the UTF-16LE form of a password: for bytes they
are the same (`WideIs`), and what is printed is the line again (`NarrowedIs`). Of a line `trim`
takes off a last `\r` and nothing else, as no line has a `\n` in it (`TrimmedIs`). `DictInv` says
that a dictionary stays one, whatever msoffice-crypt writes beside it (`MainKeepsLined`), and that a
search that ended has found some of what it may print, and nothing only if nothing opens the file
(`HitsAre`: the words of the dictionary that open the file).

`LengthSearches`: the invariant `SearchInv` says of a search by length (`Tries`, `Finds`, `Ends`)
that the words of all indices below `idx` have been tried, that none of them opens the file unless
one is found, and, of a password longer than the table, that the first character never was written.
It is silent on shorter passwords, for which the first write is outside of the string and any may
follow. It rests on two things. Every word over the table is the one of some index (`EveryWord`),
which is the uniqueness of digits the other way: the digits of `v * c + e` are `e` and then those of
`v` (`Shifted`), and so, by induction over the number of digits, any are those of a number below the
power (`EveryNumber`). And `-l` is a natural number (`ValueIsSize`): `convert` takes no sign for a
`size_t`, not in front of a factor either, so that the loop over the digits never comes back from -1
(`UnsignedIs`, `HextoiIs`, `SizeIsNat`). The recursions of the model are functions on intervals;
that each has a value is one lemma (`Recurs`).

Assumptions: `ScriptsAssumption` (the arguments of a command are texts; a line, which `getline` has
ended at a `\n`, is bytes without one), `RawLinesAssumption` (so are the lines of a file that is no
text), `GarbledAssumption` (what may be in a string after a race or a write outside of it is
characters) and `PassCharTblAssumption` (the table has a character, all of its characters are bytes,
and 0 is not among them).

**Model-checked only.** Liveness under fairness (three `Terminates`). `DigestsAreFips`, which is the
published examples. `InfoSurvives`, `ReadsWhatWasTyped` and `PasswordsAgree`: what these compute by
recursive functions over data (base64 and numbers there and back, the loop over the options, UTF-8)
is an induction for each of them, and has not been done.

## 6. Not modelled

* Raw input that this writer did not make, except in `FatChains` and the cut streams of
  `EncryptionInfo`. `CfbFile` reads only files it wrote.
* The arithmetic of the processor's AES instructions and of the libraries a build may
  use instead of its own code (OpenSSL, CommonCrypto, bcrypt): external, and known
  only by their contract. The wrappers of Apple's and OpenSSL's ciphers hand everything on.
* The lanes of `uint32vec.hpp`: each is one computation of `CustomSha1`.
* Random numbers: a draw is fresh.
* Office 2007 encryption is read, not written, by the code; `OfficeCrypto` has its
  128-bit form. Of a longer key, which `EncryptionInfo` reads, the cipher refuses SHA-1's 20 bytes
  (`include/decode.hpp:144`).
* What becomes of threads after one could not be begun or joined: the model ends them at their first
  step. What the destructors do is decided by `cybozu/thread.hpp` and `array.hpp`, which are not in
  the repository.
* Failures of the calls of bcrypt and OpenSSL inside a digest: each call succeeds, and only opening the
  provider is modelled step by step.
* The programs use neither the CTR mode nor an object of `Cipher` set up twice; `CipherObject`
  has both because the library offers them.
* What is printed: usage, dumps, debug files, a file time as text.
* `sha1.cpp`: a stand-alone decryptor of Agile files (lines 77-231) that shares no function with the
  library. It reads the extracted streams `EncryptionInfo` and `EncryptedPackage` from two files,
  derives the key from the fixed password "test" with SHA-1 and AES-128 by its own `hashPassword`
  and `cipher`, and writes `dec.pptx`. The class `cybozu::Aes` it needs (`aes.hpp`) is not in the
  repository.
* Samples, tests and project files.
* The parts of `cybozu/string.hpp` and `file.hpp` that no program here calls: trimming,
  splitting, searching, case, directories.

## 7. What could follow

1. Reading foreign compound files: `CfbFile`'s reader over arbitrary tables, composed
   with `FatChains`.
2. Two searches of `Tools` with `Attack`'s steps in the place of one, if the state
   space allows it.
3. Proofs: that base64 and numbers come back (`InfoSurvives`); what parse reads (`ReadsWhatWasTyped`).
