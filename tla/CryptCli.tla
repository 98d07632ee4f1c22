------------------------------ MODULE CryptCli ------------------------------
(***************************************************************************)
(* msoffice-crypt.cpp: from the arguments to the file it writes and the    *)
(* code it returns.                                                        *)
(*                                                                         *)
(* Paths are sequences too, their "/" and "." tokens of their own.  What   *)
(* is printed is left out.  Every document is longer than the mini stream  *)
(* cutoff, as in MsocApi; of an empty file, which -force encrypts, only    *)
(* the writing is modelled.                                                *)
(***************************************************************************)
EXTENDS OfficeFiles, Utf

CONSTANTS
    Dirs            \* the directories: <<>> and paths that end in "/"

VARIABLES
    argv, pos, value, isSet, parsing,   \* see CommandLine
    files,          \* a function from the paths of the files there are
    nth,            \* which run of a program this is
    ret             \* what main returned; Running

typedLine == <<argv, pos, value, isSet, parsing>>

Running == -1
Crashed == -2
-----------------------------------------------------------------------------
(* The options *)

CryptFlags == {"pep", "e", "d", "force", "psk", "info", "v", "vv"}
CryptTexts == {"p", "ph8", "ph16", "k", "by"}
CryptInts == {"encMode", "c"}
CryptParams == <<"input", "output">>
Off == FALSE
CryptDefault ==
    [o \in CryptFlags \cup CryptTexts \cup CryptInts \cup ToSet(CryptParams) |->
        IF o \in CryptFlags THEN Off ELSE IF o = "encMode" THEN 0 ELSE IF o = "c" THEN 100000 ELSE << >>]

Crypt == INSTANCE CommandLine WITH
            Flags <- CryptFlags, Texts <- CryptTexts, Ints <- CryptInts, Sizes <- {},
            Help <- "h", Params <- CryptParams, MustParams <- {"input"}
-----------------------------------------------------------------------------
(* The password and the key.  The last of the spellings there are counts,   *)
(* but each of them must be well-formed.                                    *)

VelvetSweatshop ==
    <<"V", "e", "l", "v", "e", "t", "S", "w", "e", "a", "t", "s", "h", "o", "p">>

Utf16OfHex(chars) ==
    LET bytes == fromHex(chars, FALSE) IN IF bytes = Malformed THEN Malformed ELSE ToUtf16(bytes)

\* In the order main looks at them; << >> is no password.
Spelled ==
    <<ToUtf16(Bytes(value.p)),
      IF value.pep THEN ToUtf16(Bytes(VelvetSweatshop)) ELSE << >>,
      Utf16OfHex(value.ph8),
      fromUniHex(value.ph16)>>

wpass == LET given == SelectSeq(Spelled, LAMBDA s : s # << >>)
         IN  IF given = << >> THEN << >> ELSE Last(given)
passData == Char16toChar8(wpass)

\* The bytes of a key, sixteen by sixteen; of a short half also what normalizeKey
\* would fill it up to, which decodeAgile and encode_in call and the decoding of an
\* Office 2007 file does not.
HexText(bytes) == Through(LAMBDA s, b : s \o Hex2(b), "", bytes)
HalfOf(bytes) ==
    IF Len(bytes) = 16 THEN [half |-> HexText(bytes)]
    ELSE [half |-> HexText(bytes),
          filled |-> HexText([b \in 1 .. 16 |-> IF b <= Len(bytes) THEN bytes[b] ELSE 54])]
secretKey ==
    LET bytes == fromHex(value.k, TRUE)
    IN  [i \in 1 .. (Len(bytes) + 15) \div 16 |-> HalfOf(SubSeq(bytes, (16 * i) - 15, Min({16 * i, Len(bytes)})))]

IsMalformed == Malformed \in ToSet(Spelled) \/ fromHex(value.k, TRUE) = Malformed
-----------------------------------------------------------------------------
(* The files *)

Is(c, path) == {i \in DOMAIN path : path[i] = c}
Dir(path) == SubSeq(path, 1, Max({0} \cup Is("/", path)))

\* GetBaseName splits at the last dot of the whole path.
Dot(path) == Max({0} \cup Is(".", path))
BaseName(path) == IF Dot(path) = 0 THEN path ELSE SubSeq(path, 1, Dot(path) - 1)
Suffix(path) == IF Dot(path) = 0 THEN << >> ELSE SubSeq(path, Dot(path) + 1, Len(path))

denySuffixTbl == {"xls", "xlt", "xla", "ppt", "pot", "pps", "ppa", "doc", "dot"}
denySuffix(suf) == \E s \in denySuffixTbl : suf = <<s>>

\* Mutation: the name is made of the same parts only.
DerivedPlain(path, tag) == BaseName(path) \o <<".">> \o Suffix(path)
Derived(path, tag) == BaseName(path) \o <<tag, ".">> \o Suffix(path)
outFile ==
    IF value.output # << >> THEN value.output
    ELSE Derived(value.input, IF value.e THEN "_e" ELSE "_d")
IsDenied == value.output = << >> /\ denySuffix(Suffix(value.input))

Exists(path) == path \in DOMAIN files
Format(path) ==
    CASE files[path].kind = "zip" -> "zip"
      [] files[path].kind \in {"cfb", "cut", "ole"} -> "cfb"
      [] OTHER -> "unknown"

Returns(code) == ret' = code /\ UNCHANGED files

\* File::openW and write; an exception is code 1.  What the destructor's sync or
\* close throws is swallowed, whatever of the content is on the disk.
With(path, content) ==
    [p \in DOMAIN files \cup {path} |-> IF p = path THEN content ELSE files[p]]
Write(path, content) ==
    \/ /\ Dir(path) \in Dirs
       /\ files' \in {With(path, c) : c \in Flushed(content)}
       /\ ret' = 0
    \/ /\ files' \in {files} \cup
             {With(path, c) : c \in IF Dir(path) \in Dirs THEN Interrupted(content) ELSE {}}
       /\ ret' = 1
-----------------------------------------------------------------------------
Bits == IF value.encMode = 1 THEN 256 ELSE 128
FillRand(n) == [i \in 1 .. n |-> [half |-> "drawn", run |-> nth]]
KeyOfFile == NormalizeKey(IF secretKey = NoKey THEN FillRand(Halves(Bits)) ELSE secretKey, Halves(Bits))

Encode ==
    IF ~value.force /\ Format(value.input) = "cfb" THEN Returns(2)
    ELSE IF TooManySpins(value.c) THEN Returns(1)
    ELSE Write(outFile, Encoded(files[value.input], passData, KeyOfFile, value.c, Bits))

\* getSecretKey: of an Agile file the password opens, or it throws.
KeyOfKeyFile ==
    IF Exists(value.by) /\ IsAgile(files[value.by]) THEN GetAgileSecretKey(files[value.by].info, passData)
    ELSE NoKey
givenKey == IF value.by # << >> THEN KeyOfKeyFile ELSE secretKey

doView == ~value.e /\ ~value.d
\* Mutation: what the verification says is not looked at.
BadPasswordNever == FALSE
BadPassword == KeyFor(files[value.input], passData, givenKey) = NoKey

Decode ==
    LET f == files[value.input]
        key == KeyFor(f, passData, givenKey)
        content == Deciphered(f, key)
    IN  IF ~value.force /\ Format(value.input) = "zip" THEN Returns(2)
        ELSE IF value.by # << >> /\ KeyOfKeyFile = NoKey THEN Returns(1)
        ELSE IF f.kind # "cfb" THEN Returns(1)
        ELSE IF BadPassword THEN Returns(3)
        ELSE IF ~KeyFits(f, key) THEN Returns(1)
        ELSE IF doView THEN Returns(0)
        ELSE IF ~Knows(content) THEN Returns(1)
        ELSE Write(outFile, content)

\* Without a password, key or key file the usage is printed, and on it goes.
CryptMain ==
    /\ parsing = "parsed" /\ ret = Running
    /\ IF IsMalformed \/ IsDenied \/ ~Exists(value.input) THEN Returns(1)
       ELSE IF Format(value.input) = "unknown" /\ ~value.force THEN Returns(1)
       ELSE IF value.e THEN Encode ELSE Decode

\* parse returned false, or left the program.
NoMain ==
    /\ parsing \in {"usage", "help"} /\ ret = Running
    /\ Returns(IF parsing = "help" THEN 0 ELSE 1)
=============================================================================
