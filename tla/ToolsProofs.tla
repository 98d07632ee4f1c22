---------------------------- MODULE ToolsProofs -----------------------------
(***************************************************************************)
(* What msoffice-crypt's return code says of the disk, and where its       *)
(* output goes, for every command and every disk: ReturnSaysWhatHappened   *)
(* follows from main alone; for OutputBeside the input must be a text      *)
(* (InputIsText), which parse makes of the arguments, and the name made of *)
(* it is longer and has its slashes where the input has them, unless a     *)
(* slash comes after the last dot (DerivedIs, SameDirectory).              *)
(*                                                                         *)
(* What the dictionary search finds and what the search by length tries,   *)
(* for every dictionary, file, table of characters and length: bytes       *)
(* widened are their UTF-16LE form (WideIs), -l is read as a natural       *)
(* number (SizeIsNat), and every word is the one of some index (EveryWord).*)
(***************************************************************************)
EXTENDS Tools, SequenceTheorems, WellFoundedInduction, TLAPS

\* Tokens are strings; the provers have to be told of those that main adds.
Tokens == STRING \cup {".", "_e", "_d"}
Texts == Seq(Tokens)

\* The step in which msoffice-crypt ends is one of its main.
LEMMA MainStep ==
    ASSUME Next, MainEnds
    PROVE  CryptMain
  BY DEF Next, MainEnds, RunAgain, Parse, RunCrypt, RunAttack, Usage, Finished, vars, NoMain

\* What main does that writes, and what it does that does not.
LEMMA ReturnsLeaves ==
    ASSUME NEW c, Returns(c)
    PROVE  ret' = c /\ files' = files
  BY DEF Returns

LEMMA WriteIs ==
    ASSUME NEW path, NEW content, Write(path, content)
    PROVE  /\ ret' \in {0, 1}
           /\ \A p \in DOMAIN files : files'[p] # files[p] => p = path
           /\ DOMAIN files' # DOMAIN files => Dir(path) \in Dirs
           /\ ret' = 0 => files'[path] \in Flushed(content)
  <1>1. ASSUME NEW c, files' = With(path, c)
        PROVE  /\ \A p \in DOMAIN files : files'[p] # files[p] => p = path
               /\ files'[path] = c
    BY <1>1 DEF With
  <1>2. CASE Dir(path) \in Dirs /\ files' \in {With(path, c) : c \in Flushed(content)} /\ ret' = 0
    <2>1. PICK c \in Flushed(content) : files' = With(path, c)
      BY <1>2
    <2> QED
      BY <1>1, <1>2, <2>1
  <1>3. CASE /\ files' \in {files} \cup
                   {With(path, c) : c \in IF Dir(path) \in Dirs THEN Interrupted(content) ELSE {}}
             /\ ret' = 1
    <2>1. CASE files' = files
      BY <1>3, <2>1
    <2>2. CASE files' # files
      <3>1. Dir(path) \in Dirs /\ \E c : files' = With(path, c)
        BY <1>3, <2>2
      <3> QED
        BY <1>1, <1>3, <3>1
    <2> QED
      BY <2>1, <2>2
  <1> QED
    BY <1>2, <1>3 DEF Write

\* What main did, by what it returned.
Encrypts ==
    /\ value.e /\ (value.force \/ files[value.input].kind # "cfb")
    /\ Write(outFile, Encoded(files[value.input], passData, KeyOfFile, value.c, Bits))
HasKey(f) == KeyFor(f, passData, givenKey) # NoKey
KeyTaken(f) == KeyFits(f, KeyFor(f, passData, givenKey))
Views == ~value.e /\ doView /\ ret' = 0 /\ files' = files /\ HasKey(files[value.input]) /\ KeyTaken(files[value.input])
Decrypts ==
    LET content == Deciphered(files[value.input], KeyFor(files[value.input], passData, givenKey))
    IN  /\ ~value.e /\ ~doView /\ HasKey(files[value.input]) /\ KeyTaken(files[value.input])
        /\ Knows(content) /\ Write(outFile, content)
Refuses ==
    /\ files' = files
    /\ \/ ret' \in {1, 2}
       \/ ret' = 3 /\ ~value.e /\ ~HasKey(files[value.input])

LEMMA MainIs ==
    ASSUME CryptMain
    PROVE  Encrypts \/ Views \/ Decrypts \/ Refuses
  <1>1. ASSUME NEW c, c \in {1, 2}, Returns(c) PROVE Refuses
    BY <1>1, ReturnsLeaves DEF Refuses
  <1>2. ASSUME value.e, Encode PROVE Encrypts \/ Refuses
    <2>1. CASE ~value.force /\ Format(value.input) = "cfb"
      BY <1>1, <1>2, <2>1 DEF Encode
    <2>2. CASE ~(~value.force /\ Format(value.input) = "cfb")
      <3>1. files[value.input].kind = "cfb" => Format(value.input) = "cfb"
        BY DEF Format
      <3> QED
        BY <1>1, <1>2, <2>2, <3>1 DEF Encode, Encrypts
    <2> QED
      BY <2>1, <2>2
  <1>3. ASSUME ~value.e, Decode PROVE Views \/ Decrypts \/ Refuses
    <2> DEFINE f == files[value.input]
               key == KeyFor(f, passData, givenKey)
               content == Deciphered(f, key)
               early == \/ ~value.force /\ Format(value.input) = "zip"
                        \/ value.by # << >> /\ KeyOfKeyFile = NoKey
                        \/ f.kind # "cfb"
    <2>1. CASE early
      <3>1. Returns(1) \/ Returns(2)
        BY <1>3, <2>1 DEF Decode
      <3> QED
        BY <1>1, <3>1
    <2>2. CASE ~early /\ BadPassword
      <3>1. Returns(3)
        BY <1>3, <2>2 DEF Decode
      <3> QED
        BY <1>3, <2>2, <3>1, ReturnsLeaves DEF Refuses, HasKey, BadPassword
    <2>3. CASE ~early /\ ~BadPassword
      <3>1. HasKey(f)
        BY <2>3 DEF HasKey, BadPassword
      <3>2. IF ~KeyFits(f, key) THEN Returns(1)
            ELSE IF doView THEN Returns(0)
            ELSE IF ~Knows(content) THEN Returns(1)
            ELSE Write(outFile, content)
        BY <1>3, <2>3 DEF Decode
      <3> HIDE DEF f, key, content, early
      <3>3. CASE ~KeyFits(f, key) \/ (~doView /\ ~Knows(content) /\ KeyFits(f, key))
        BY <1>1, <3>2, <3>3
      <3>4. CASE KeyFits(f, key) /\ doView
        BY <1>3, <3>1, <3>2, <3>4, ReturnsLeaves DEF Views, KeyTaken, f, key
      <3>5. CASE KeyFits(f, key) /\ ~doView /\ Knows(content)
        BY <1>3, <3>1, <3>2, <3>5 DEF Decrypts, KeyTaken, f, key, content
      <3> QED
        BY <3>3, <3>4, <3>5
    <2> QED
      BY <2>1, <2>2, <2>3
  <1>4. \/ Returns(1)
        \/ value.e /\ Encode
        \/ ~value.e /\ Decode
    BY DEF CryptMain
  <1> QED
    BY <1>1, <1>2, <1>3, <1>4

\* A key that is not the package's deciphers it to noise, which is no format.
LEMMA KnownIsText ==
    ASSUME NEW f, NEW key, Knows(Deciphered(f, key))
    PROVE  Deciphered(f, key) = f.package.text
  <1>1. Deciphered(f, key) = f.package.text \/ Deciphered(f, key) = Noise
    BY DEF Deciphered, Dec
  <1>2. ~Knows(Noise)
    BY DEF Knows, Noise, KnownKinds
  <1> QED
    BY <1>1, <1>2

LEMMA EncodedIs ==
    ASSUME NEW content, NEW word, NEW key, NEW spin, NEW bits
    PROVE  /\ IsAgile(Encoded(content, word, key, spin, bits))
           /\ Encoded(content, word, key, spin, bits).package.text = content
  BY DEF Encoded, Cfb, AgileInfo, Enc, IsAgile

\* What is left of an encrypted file whose flush failed.
LEMMA FlushedIs ==
    ASSUME NEW content, NEW f \in Flushed(content), content.kind = "cfb"
    PROVE  f = content \/ Lost(f)
  <1>1. content.kind # "zip"
    OBVIOUS
  <1> QED
    BY <1>1 DEF Flushed, Interrupted, Begun, Lost

\* For every command, password and disk whose documents are above the mini stream
\* cutoff (a smaller one is not read back: CfbFile, SmallPackage): msoffice-crypt
\* returns 0 only if it has written the encrypted or the decrypted document, which the
\* output then holds unless its flush failed, or, of a view, if there is a key that
\* the cipher takes; 2 and 3 only if the disk is as it was; and 3 only if neither the
\* password nor a key opens the file (main of msoffice-crypt.cpp, encode, decode).
THEOREM ReturnCodesSay == Spec => ReturnSaysWhatHappened
  <1> DEFINE Says ==
        MainEnds =>
            LET in == files[value.input] IN
            /\ ret' \in {2, 3} \/ doView => files' = files
            /\ ret' = 0 /\ value.e => /\ \/ Lost(files'[outFile])
                                         \/ IsAgile(files'[outFile]) /\ files'[outFile].package.text = in
                                      /\ value.force \/ in.kind # "cfb"
            /\ ret' = 0 /\ value.d /\ ~value.e => files'[outFile] \in Flushed(in.package.text)
            /\ ret' = 0 /\ ~value.e => LET key == KeyFor(in, passData, givenKey)
                                       IN  key # NoKey /\ KeyFits(in, key)
            /\ ret' = 3 => ~value.e /\ KeyFor(in, passData, givenKey) = NoKey
  <1>1. [Next]_vars => [Says]_vars
    <2> SUFFICES ASSUME Next, MainEnds PROVE Says
      OBVIOUS
    <2> DEFINE in == files[value.input]
    <2>1. Encrypts \/ Views \/ Decrypts \/ Refuses
      BY MainStep, MainIs
    <2>2. CASE Encrypts
      <3> DEFINE content == Encoded(in, passData, KeyOfFile, value.c, Bits)
      <3>1. ret' \in {0, 1} /\ (ret' = 0 => files'[outFile] \in Flushed(content))
        BY <2>2, WriteIs DEF Encrypts
      <3>2. IsAgile(content) /\ content.package.text = in
        BY EncodedIs
      <3>4. ret' = 0 => files'[outFile] = content \/ Lost(files'[outFile])
        BY <3>1, <3>2, FlushedIs DEF IsAgile
      <3>3. value.e /\ (value.force \/ in.kind # "cfb") /\ ~doView
        BY <2>2 DEF Encrypts, doView
      <3> HIDE DEF content
      <3> QED
        BY <3>1, <3>2, <3>3, <3>4
    <2>3. CASE Views
      BY <2>3 DEF Views, HasKey, KeyTaken, doView
    <2>4. CASE Decrypts
      <3> DEFINE key == KeyFor(in, passData, givenKey)
                 content == Deciphered(in, key)
      <3>1. /\ ~value.e /\ ~doView /\ key # NoKey /\ KeyFits(in, key)
            /\ Knows(content) /\ Write(outFile, content)
        BY <2>4 DEF Decrypts, HasKey, KeyTaken
      <3>2. ret' \in {0, 1} /\ (ret' = 0 => files'[outFile] \in Flushed(content))
        BY <3>1, WriteIs
      <3>3. content = in.package.text
        BY <3>1, KnownIsText
      <3> HIDE DEF content
      <3> QED
        BY <3>1, <3>2, <3>3
    <2>5. CASE Refuses
      BY <2>5 DEF Refuses, HasKey
    <2> QED
      BY <2>1, <2>2, <2>3, <2>4, <2>5
  <1> QED
    BY <1>1, PTL DEF Spec, ReturnSaysWhatHappened
-----------------------------------------------------------------------------
(* Names *)

\* Induction over the naturals, of a set.
LEMMA NatSetInduction ==
    ASSUME NEW S, 0 \in S, \A n \in Nat : n \in S => n + 1 \in S
    PROVE  Nat \subseteq S
  <1> DEFINE R == OpToRel(<, Nat)
             T == Nat \ S
  <1>1. IsWellFoundedOn(R, Nat)
    BY NatLessThanWellFounded
  <1>2. \A x, y \in Nat : y < x => <<y, x>> \in R
    BY DEF OpToRel
  <1>3. CASE T # {}
    <2>1. PICK x \in T : \A y \in T : ~ (<<y, x>> \in R)
      <3>1. T \subseteq Nat
        OBVIOUS
      <3> HIDE DEF R, T
      <3> QED
        BY <1>1, <1>3, <3>1, WFMin
    <2>2. x \in Nat /\ x # 0 /\ x - 1 \in Nat /\ x - 1 < x
      OBVIOUS
    <2>3. x - 1 \in T
      BY <2>2
    <2> QED
      BY <1>2, <2>1, <2>2, <2>3
  <1> QED
    BY <1>3

\* The last place of a token in a path, 0 if it is not there.
LastOf(c, path) == Max({0} \cup Is(c, path))

LEMMA LastIs ==
    ASSUME NEW path, NEW n \in Nat, DOMAIN path = 1 .. n, NEW c
    PROVE  LET m == LastOf(c, path)
           IN  /\ m \in 0 .. n
               /\ m # 0 => path[m] = c
               /\ \A i \in 1 .. n : path[i] = c => i <= m
  <1> DEFINE S == {0} \cup Is(c, path)
             T(l) == {x \in S : x <= l}
             Has == {l \in Nat : \E x \in T(l) : \A y \in T(l) : y <= x}
  <1>1. S \subseteq 0 .. n /\ 0 \in S
    BY DEF Is
  <1>2. \E x \in S : \A y \in S : y <= x
    <2> HIDE DEF S
    <2>1. 0 \in Has
      BY <1>1
    <2>2. ASSUME NEW l \in Nat, l \in Has PROVE l + 1 \in Has
      <3>1. CASE l + 1 \in S
        <4>1. l + 1 \in T(l + 1) /\ \A y \in T(l + 1) : y <= l + 1
          BY <1>1, <3>1
        <4> QED
          BY <4>1
      <3>2. CASE l + 1 \notin S
        <4>1. T(l + 1) = T(l)
          <5>1. \A x \in S : x \in Int /\ x # l + 1
            BY <1>1, <3>2
          <5>2. \A x \in S : x <= l + 1 <=> x <= l
            BY <5>1
          <5> QED
            BY <5>2, Zenon
        <4> QED
          BY <2>2, <4>1
      <3> QED
        BY <3>1, <3>2
    <2>3. Nat \subseteq Has
      <3> HIDE DEF Has
      <3> QED
        BY <2>1, <2>2, NatSetInduction
    <2>4. T(n) = S
      <3>1. \A x \in S : x <= n
        BY <1>1
      <3> QED
        BY <3>1, Zenon
    <2> QED
      BY <2>3, <2>4
  <1>3. Max(S) \in S /\ \A y \in S : y <= Max(S)
    <2> HIDE DEF S
    <2> QED
      BY <1>2 DEF Max
  <1> HIDE DEF S
  <1>4. LastOf(c, path) = Max(S)
    BY DEF LastOf, S
  <1>5. \A i \in 1 .. n : path[i] = c => i \in S
    BY DEF S, Is
  <1>6. \A i \in S : i # 0 => path[i] = c
    BY DEF S, Is
  <1> QED
    BY <1>1, <1>3, <1>4, <1>5, <1>6

LEMMA TextIs == \A s \in Texts : Len(s) \in Nat /\ DOMAIN s = 1 .. Len(s) /\ \A i \in 1 .. Len(s) : s[i] \in Tokens
  BY DEF Texts

LEMMA PairIsText ==
    ASSUME NEW x \in Tokens, NEW y \in Tokens
    PROVE  <<x, y>> \in Texts /\ Len(<<x, y>>) = 2 /\ <<x, y>>[1] = x /\ <<x, y>>[2] = y
  BY DEF Texts

LEMMA JoinedTexts ==
    ASSUME NEW s \in Texts, NEW t \in Texts
    PROVE  /\ s \o t \in Texts /\ Len(s \o t) = Len(s) + Len(t)
           /\ \A i \in 1 .. Len(s) + Len(t) : (s \o t)[i] = IF i <= Len(s) THEN s[i] ELSE t[i - Len(s)]
  BY ConcatProperties DEF Texts

LEMMA PartOfText ==
    ASSUME NEW s \in Texts, NEW m \in Nat, NEW n \in Nat, m >= 1, n <= Len(s), m <= n + 1
    PROVE  /\ SubSeq(s, m, n) \in Texts /\ Len(SubSeq(s, m, n)) = (n - m) + 1
           /\ \A i \in 1 .. (n - m) + 1 : SubSeq(s, m, n)[i] = s[(m + i) - 1]
  <1>1. \A i \in m .. n : s[i] \in Tokens
    BY TextIs
  <1>2. /\ SubSeq(s, m, n) \in Seq(Tokens)
        /\ Len(SubSeq(s, m, n)) = IF m <= n THEN n - m + 1 ELSE 0
        /\ \A i \in 1 .. n - m + 1 : SubSeq(s, m, n)[i] = s[m + i - 1]
    BY <1>1, SubSeqProperties
  <1> QED
    BY <1>2 DEF Texts

LEMMA BeginningOfText ==
    ASSUME NEW s \in Texts, NEW m \in 0 .. Len(s)
    PROVE  /\ SubSeq(s, 1, m) \in Texts /\ Len(SubSeq(s, 1, m)) = m
           /\ \A i \in 1 .. m : SubSeq(s, 1, m)[i] = s[i]
  <1>1. m \in Nat /\ 1 \in Nat /\ 1 >= 1 /\ m <= Len(s) /\ 1 <= m + 1
    BY TextIs
  <1>2. /\ SubSeq(s, 1, m) \in Texts /\ Len(SubSeq(s, 1, m)) = (m - 1) + 1
        /\ \A i \in 1 .. (m - 1) + 1 : SubSeq(s, 1, m)[i] = s[(1 + i) - 1]
    BY <1>1, PartOfText
  <1>3. (m - 1) + 1 = m /\ \A i \in 1 .. m : (1 + i) - 1 = i
    BY <1>1
  <1> QED
    BY <1>2, <1>3

\* Where the name of the output has what the input's has: b is the length of
\* the base name.
LEMMA DerivedIs ==
    ASSUME NEW path \in Texts, NEW tag \in Tokens
    PROVE  LET out == Derived(path, tag)
               n == Len(path)
               d == Dot(path)
               b == IF d = 0 THEN n ELSE d - 1
           IN  /\ out \in Texts
               /\ Len(out) = IF d = 0 THEN n + 2 ELSE n + 1
               /\ \A i \in 1 .. b : out[i] = path[i]
               /\ out[b + 1] = tag /\ out[b + 2] = "."
               /\ \A i \in b + 3 .. Len(out) : d # 0 /\ out[i] = path[i - 1]
  <1> DEFINE n == Len(path)
             d == Dot(path)
             b == IF d = 0 THEN n ELSE d - 1
             base == BaseName(path)
             suffix == Suffix(path)
             mid == <<tag, ".">>
             out == Derived(path, tag)
  <1>1. n \in Nat /\ DOMAIN path = 1 .. n
    BY DEF Texts
  <1>2. d \in 0 .. n
    BY <1>1, LastIs DEF Dot, LastOf
  <1>3. b \in 0 .. n
    BY <1>1, <1>2
  <1>4. base \in Texts /\ Len(base) = b /\ \A i \in 1 .. b : base[i] = path[i]
    <2>1. CASE d = 0
      BY <1>1, <2>1 DEF BaseName
    <2>2. CASE d # 0
      <3>1. base = SubSeq(path, 1, d - 1) /\ d - 1 \in 0 .. n
        BY <1>1, <1>2, <2>2 DEF BaseName
      <3> HIDE DEF d, base
      <3>2. 1 \in Nat /\ 1 >= 1 /\ d - 1 \in Nat /\ d - 1 <= Len(path) /\ 1 <= (d - 1) + 1
        BY <1>1, <2>2, <3>1
      <3>3. /\ base \in Texts /\ Len(base) = ((d - 1) - 1) + 1
            /\ \A i \in 1 .. ((d - 1) - 1) + 1 : base[i] = path[(1 + i) - 1]
        BY <3>1, <3>2, PartOfText
      <3> QED
        BY <2>2, <3>2, <3>3
    <2> QED
      BY <2>1, <2>2
  <1>5. /\ suffix \in Texts /\ Len(suffix) = (IF d = 0 THEN 0 ELSE n - d)
        /\ \A i \in 1 .. Len(suffix) : d # 0 /\ suffix[i] = path[d + i]
    <2>1. CASE d = 0
      <3>1. suffix = << >>
        BY <2>1 DEF Suffix
      <3>2. << >> \in Texts /\ Len(<< >>) = 0
        BY DEF Texts
      <3> HIDE DEF suffix, d
      <3> QED
        BY <2>1, <3>1, <3>2
    <2>2. CASE d # 0
      <3>1. suffix = SubSeq(path, d + 1, n) /\ d \in 1 .. n
        BY <1>1, <1>2, <2>2 DEF Suffix
      <3> HIDE DEF d, suffix
      <3>2. d + 1 \in Nat /\ d + 1 >= 1 /\ n \in Nat /\ n <= Len(path) /\ d + 1 <= n + 1
        BY <1>1, <2>2, <3>1
      <3>3. /\ suffix \in Texts /\ Len(suffix) = (n - (d + 1)) + 1
            /\ \A i \in 1 .. (n - (d + 1)) + 1 : suffix[i] = path[((d + 1) + i) - 1]
        BY <3>1, <3>2, PartOfText
      <3> HIDE DEF n
      <3>4. \A i \in 1 .. Len(suffix) : ((d + 1) + i) - 1 = d + i
        BY <1>1, <3>1
      <3> QED
        BY <1>1, <2>2, <3>1, <3>3, <3>4
    <2> QED
      BY <2>1, <2>2
  <1>6. mid \in Texts /\ Len(mid) = 2 /\ mid[1] = tag /\ mid[2] = "."
    <2>1. "." \in Tokens
      BY DEF Tokens
    <2> QED
      BY <2>1, PairIsText
  <1>7. out = (base \o mid) \o suffix
    BY DEF Derived
  <1> HIDE DEF d, n, b, base, suffix, mid, out
  <1> DEFINE front == base \o mid
  <1>8. /\ front \in Texts /\ Len(front) = b + 2
        /\ \A i \in 1 .. b + 2 : front[i] = IF i <= b THEN base[i] ELSE mid[i - b]
    <2>1. base \in Texts /\ mid \in Texts /\ Len(base) = b /\ Len(mid) = 2
      BY <1>4, <1>6
    <2>2. /\ front \in Texts /\ Len(front) = Len(base) + Len(mid)
          /\ \A i \in 1 .. Len(base) + Len(mid) :
                front[i] = IF i <= Len(base) THEN base[i] ELSE mid[i - Len(base)]
      BY <2>1, JoinedTexts, Zenon DEF front
    <2> QED
      BY <2>1, <2>2, Zenon
  <1>9. out = front \o suffix
    BY <1>7
  <1> HIDE DEF front
  <1>10. /\ out \in Texts /\ Len(out) = b + 2 + Len(suffix)
         /\ \A i \in 1 .. Len(out) : out[i] = IF i <= b + 2 THEN front[i] ELSE suffix[i - (b + 2)]
    <2>1. front \in Texts /\ suffix \in Texts /\ Len(front) = b + 2
      BY <1>5, <1>8
    <2>2. /\ out \in Texts /\ Len(out) = Len(front) + Len(suffix)
          /\ \A i \in 1 .. Len(front) + Len(suffix) :
                out[i] = IF i <= Len(front) THEN front[i] ELSE suffix[i - Len(front)]
      BY <1>9, <2>1, JoinedTexts, Zenon
    <2> QED
      BY <2>1, <2>2, Zenon
  <1>11. Len(out) = IF d = 0 THEN n + 2 ELSE n + 1
    BY <1>1, <1>2, <1>5, <1>10 DEF b
  <1>12. Len(suffix) \in Nat
    BY <1>1, <1>2, <1>5
  <1>13. \A i \in 1 .. b : out[i] = path[i]
    BY <1>3, <1>1, <1>4, <1>8, <1>10, <1>12
  <1>14. out[b + 1] = tag /\ out[b + 2] = "."
    <2>1. out[b + 1] = front[b + 1] /\ out[b + 2] = front[b + 2]
      BY <1>1, <1>3, <1>10, <1>12
    <2>2. front[b + 1] = mid[1] /\ front[b + 2] = mid[2]
      BY <1>1, <1>3, <1>8
    <2> QED
      BY <1>6, <2>1, <2>2
  <1>15. ASSUME NEW i \in b + 3 .. Len(out) PROVE d # 0 /\ out[i] = path[i - 1]
    <2>1. i - (b + 2) \in 1 .. Len(suffix) /\ i \in 1 .. Len(out) /\ ~(i <= b + 2)
      BY <1>1, <1>3, <1>10, <1>12
    <2>2. d # 0 /\ suffix[i - (b + 2)] = path[d + (i - (b + 2))]
      BY <1>5, <2>1
    <2>3. d + (i - (b + 2)) = i - 1
      BY <1>1, <1>2, <2>1, <2>2 DEF b
    <2> QED
      BY <1>10, <2>1, <2>2, <2>3
  <1> QED
    BY <1>10, <1>11, <1>13, <1>14, <1>15 DEF out, b, n, d

\* A derived name is never the input's, and in its directory unless the
\* directory has the dot.
LEMMA SameDirectory ==
    ASSUME NEW path \in Texts, NEW tag \in {"_e", "_d"}
    PROVE  /\ Derived(path, tag) # path
           /\ Dir(Derived(path, tag)) = Dir(path) \/ Dot(path) \in 1 .. Len(Dir(path))
  <1> DEFINE out == Derived(path, tag)
             n == Len(path)
             d == Dot(path)
             b == IF d = 0 THEN n ELSE d - 1
             m == LastOf("/", path)
             o == LastOf("/", out)
  <1>1. n \in Nat /\ DOMAIN path = 1 .. n
    BY DEF Texts
  <1>2. d \in 0 .. n
    BY <1>1, LastIs DEF Dot, LastOf
  <1>3. /\ out \in Texts
        /\ Len(out) = IF d = 0 THEN n + 2 ELSE n + 1
        /\ \A i \in 1 .. b : out[i] = path[i]
        /\ out[b + 1] = tag /\ out[b + 2] = "."
        /\ \A i \in b + 3 .. Len(out) : d # 0 /\ out[i] = path[i - 1]
    <2>1. tag \in Tokens
      BY DEF Tokens
    <2> QED
      BY <2>1, DerivedIs
  <1>4. m \in 0 .. n /\ (m # 0 => path[m] = "/") /\ \A i \in 1 .. n : path[i] = "/" => i <= m
    BY <1>1, LastIs
  <1>5. Dir(path) = SubSeq(path, 1, m) /\ Dir(out) = SubSeq(out, 1, o)
    BY DEF Dir, LastOf
  <1>6. Len(out) \in Nat /\ DOMAIN out = 1 .. Len(out)
    BY <1>3 DEF Texts
  <1>7. /\ o \in 0 .. Len(out) /\ (o # 0 => out[o] = "/")
        /\ \A i \in 1 .. Len(out) : out[i] = "/" => i <= o
    BY <1>6, LastIs
  <1> HIDE DEF out, n, d, b, m, o
  <1>8. b \in 0 .. n
    BY <1>1, <1>2 DEF b
  <1>9. out # path
    BY <1>1, <1>3 DEF n
  <1>10. ASSUME d \notin 1 .. m PROVE Dir(out) = Dir(path)
    <2>1. m <= b
      BY <1>1, <1>2, <1>4, <1>10 DEF b
    <2>2. m <= o
      <3>1. CASE m = 0
        BY <1>7, <3>1
      <3>2. CASE m # 0
        <4>1. out[m] = "/" /\ m \in 1 .. Len(out)
          BY <1>1, <1>3, <1>4, <1>8, <2>1, <3>2
        <4> QED
          BY <1>7, <4>1
      <3> QED
        BY <3>1, <3>2
    <2>3. o <= m
      <3> SUFFICES ASSUME o > m PROVE FALSE
        BY <1>1, <1>4, <1>6, <1>7
      <3>1. o \in 1 .. Len(out) /\ out[o] = "/"
        BY <1>1, <1>4, <1>6, <1>7
      <3>2. CASE o <= b
        <4>1. path[o] = "/" /\ o \in 1 .. n
          BY <1>3, <1>8, <1>1, <3>1, <3>2, <1>6
        <4> QED
          BY <1>1, <1>4, <4>1
      <3>3. CASE o = b + 1 \/ o = b + 2
        <4>1. out[b + 1] # "/" /\ out[b + 2] # "/"
          BY <1>3
        <4> QED
          BY <3>1, <3>3, <4>1, Zenon
      <3>4. CASE o >= b + 3
        <4>1. d # 0 /\ path[o - 1] = "/"
          BY <1>1, <1>3, <1>6, <1>8, <3>1, <3>4
        <4>2. o - 1 \in 1 .. n
          BY <1>1, <1>3, <1>8, <3>1, <3>4, <4>1
        <4>3. o - 1 <= m
          BY <1>4, <4>1, <4>2
        <4> QED
          BY <1>1, <1>4, <1>6, <1>8, <2>1, <3>1, <3>4, <4>2, <4>3
      <3> QED
        BY <1>6, <1>8, <3>1, <3>2, <3>3, <3>4
    <2>4. o = m
      BY <1>1, <1>4, <1>6, <1>7, <2>2, <2>3
    <2>5. \A i \in 1 .. m : out[i] = path[i]
      BY <1>1, <1>3, <1>4, <1>8, <2>1
    <2>6. m <= Len(out) /\ m \in Nat
      BY <1>1, <1>4, <1>6, <1>7, <2>2
    <2>7. /\ SubSeq(path, 1, m) \in Texts /\ Len(SubSeq(path, 1, m)) = m
          /\ \A i \in 1 .. m : SubSeq(path, 1, m)[i] = path[i]
      BY <1>4, <2>6, BeginningOfText DEF n
    <2>8. /\ SubSeq(out, 1, m) \in Texts /\ Len(SubSeq(out, 1, m)) = m
          /\ \A i \in 1 .. m : SubSeq(out, 1, m)[i] = out[i]
      BY <1>3, <2>6, BeginningOfText
    <2> DEFINE x == SubSeq(path, 1, m)
               y == SubSeq(out, 1, m)
    <2> HIDE DEF x, y
    <2>9. x = y
      BY <2>5, <2>7, <2>8, SeqEqual DEF Texts, x, y
    <2> QED
      BY <1>5, <2>4, <2>9 DEF x, y
  <1>11. Len(Dir(path)) = m
    BY <1>4, <1>5, BeginningOfText DEF n
  <1> QED
    BY <1>9, <1>10, <1>11 DEF out, d
-----------------------------------------------------------------------------
(* The arguments *)

Strings == Seq(STRING)
Started(c) ==
    /\ Len(c) \in Nat \ {0}
    /\ \A n \in 1 .. Len(c) : ArgsOf(c[n]) \in Seq(Strings)

\* What parse has made of them: the input is one, or not there yet.
InputIsText ==
    /\ Started(commands) /\ nth \in 1 .. Len(commands)
    /\ argv \in Seq(Strings) /\ pos \in Nat \ {0}
    /\ Command.program = "msoffice-crypt" =>
          DOMAIN value = DOMAIN CryptDefault /\ value.input \in Strings

LEMMA DefaultInput ==
    /\ "input" \in DOMAIN CryptDefault /\ CryptDefault.input = << >>
    /\ "input" \notin CryptFlags \cup CryptTexts \cup CryptInts
  <1>1. "input" \notin CryptFlags \cup CryptTexts \cup CryptInts
    BY DEF CryptFlags, CryptTexts, CryptInts
  <1>2. "input" \in ToSet(CryptParams)
    <2>1. CryptParams[1] = "input" /\ 1 \in DOMAIN CryptParams
      BY DEF CryptParams
    <2> QED
      BY <2>1 DEF ToSet
  <1> QED
    BY <1>1, <1>2 DEF CryptDefault

\* A program begins with its defaults, where it is in the commands.
LEMMA BeginsWithText ==
    ASSUME Started(commands), NEW n \in 1 .. Len(commands),
           NEW d, d = DefaultOf(commands[n])
    PROVE  /\ ArgsOf(commands[n]) \in Seq(Strings)
           /\ commands[n].program = "msoffice-crypt" =>
                 DOMAIN d = DOMAIN CryptDefault /\ d.input \in Strings
  <1>1. << >> \in Strings
    BY DEF Strings
  <1> QED
    BY <1>1, DefaultInput DEF Started, DefaultOf

LEMMA InputIsTextInit == Init => InputIsText
  <1> SUFFICES ASSUME Init PROVE InputIsText
    OBVIOUS
  <1>1. PICK s \in Scripts :
            /\ files = s.disk /\ commands = s.commands
            /\ nth = 1 /\ ret = Running
            /\ Crypt!ParseInit(ArgsOf(s.commands[1]), DefaultOf(s.commands[1]))
    BY DEF Init
  <1>2. Started(commands)
    BY <1>1, ScriptsAssumption DEF Started, Strings
  <1>3. 1 \in 1 .. Len(commands)
    BY <1>2 DEF Started
  <1>4. argv = ArgsOf(commands[1]) /\ pos = 1 /\ value = DefaultOf(commands[1]) /\ nth = 1
    BY <1>1 DEF Crypt!ParseInit
  <1>5. /\ ArgsOf(commands[1]) \in Seq(Strings)
        /\ commands[1].program = "msoffice-crypt" =>
              DOMAIN value = DOMAIN CryptDefault /\ value.input \in Strings
    BY <1>2, <1>3, <1>4, BeginsWithText
  <1> QED
    BY <1>2, <1>3, <1>4, <1>5 DEF InputIsText, Command

\* A pass of parse's loop gives an option its value, or the next parameter an
\* argument.
LEMMA CryptPass ==
    ASSUME argv \in Seq(Strings), pos \in Nat \ {0}, Crypt!ParseNext,
           DOMAIN value = DOMAIN CryptDefault, value.input \in Strings
    PROVE  /\ argv' = argv /\ pos' \in Nat \ {0}
           /\ DOMAIN value' = DOMAIN CryptDefault /\ value'.input \in Strings
  <1>1. ASSUME NEW o, NEW v, NEW p \in Nat \ {0}, Crypt!Take(o, v, p), o = "input" => v \in Strings
        PROVE  pos' \in Nat \ {0} /\ DOMAIN value' = DOMAIN CryptDefault /\ value'.input \in Strings
    BY <1>1, DefaultInput DEF Crypt!Take
  <1>2. ASSUME NEW o, NEW p \in Nat \ {0}, \E v : Crypt!Take(o, v, p), o # "input"
        PROVE  pos' \in Nat \ {0} /\ DOMAIN value' = DOMAIN CryptDefault /\ value'.input \in Strings
    BY <1>1, <1>2
  <1>3. CASE UNCHANGED <<argv, pos, value>>
    BY <1>3
  <1>4. CASE Crypt!ReadFlag
    <2>1. PICK o \in CryptFlags : \E v : Crypt!Take(o, v, pos + 1)
      BY <1>4, Zenon DEF Crypt!ReadFlag, Crypt!Named
    <2>2. o # "input" /\ pos + 1 \in Nat \ {0}
      BY DefaultInput
    <2>3. argv' = argv
      BY <1>4 DEF Crypt!ReadFlag, Crypt!clAfter
    <2> QED
      BY <1>2, <2>1, <2>2, <2>3
  <1>5. CASE Crypt!ReadValue
    <2>1. PICK o \in CryptTexts \cup CryptInts :
             \/ Crypt!Refuse
             \/ Crypt!Take(o, Crypt!Converted(o, argv[pos + 1]), pos + 2) /\ UNCHANGED Crypt!clAfter
      BY <1>5 DEF Crypt!ReadValue, Crypt!Named, Crypt!AfterValue
    <2>2. o # "input" /\ pos + 2 \in Nat \ {0}
      BY DefaultInput
    <2>3. CASE Crypt!Refuse
      BY <1>3, <2>3 DEF Crypt!Refuse
    <2>4. CASE Crypt!Take(o, Crypt!Converted(o, argv[pos + 1]), pos + 2) /\ UNCHANGED Crypt!clAfter
      <3>1. argv' = argv
        BY <2>4 DEF Crypt!clAfter
      <3> QED
        BY <1>1, <2>2, <2>4, <3>1
    <2> QED
      BY <2>1, <2>3, <2>4
  <1>6. CASE Crypt!ReadParam
    <2>1. pos \in 1 .. Len(argv)
      BY <1>6 DEF Crypt!ReadParam, Crypt!Reads
    <2>2. argv[pos] \in Strings
      BY <2>1
    <2>3. Crypt!Refuse \/ \E o : Crypt!Take(o, argv[pos], pos + 1) /\ UNCHANGED <<argv, parsing>>
      BY <1>6 DEF Crypt!ReadParam, Crypt!Arg
    <2>4. CASE Crypt!Refuse
      BY <1>3, <2>4 DEF Crypt!Refuse
    <2>5. CASE \E o : Crypt!Take(o, argv[pos], pos + 1) /\ UNCHANGED <<argv, parsing>>
      <3>1. pos + 1 \in Nat \ {0}
        OBVIOUS
      <3> QED
        BY <1>1, <2>2, <2>5, <3>1
    <2> QED
      BY <2>3, <2>4, <2>5
  <1>7. CASE Crypt!ReadHelp \/ Crypt!BadOption \/ Crypt!EndOfArguments
    BY <1>3, <1>7 DEF Crypt!ReadHelp, Crypt!BadOption, Crypt!EndOfArguments, Crypt!Refuse
  <1> QED
    BY <1>4, <1>5, <1>6, <1>7 DEF Crypt!ParseNext

LEMMA AttackPass ==
    ASSUME argv \in Seq(Strings), pos \in Nat \ {0}, AttackOpt!ParseNext
    PROVE  argv' = argv /\ pos' \in Nat \ {0}
  <1>1. CASE AttackOpt!Refuse
    BY <1>1 DEF AttackOpt!Refuse
  <1>2. ASSUME NEW p \in Nat \ {0}, \E o, v : AttackOpt!Take(o, v, p)
        PROVE  pos' \in Nat \ {0}
    BY <1>2 DEF AttackOpt!Take
  <1>3. pos + 1 \in Nat \ {0} /\ pos + 2 \in Nat \ {0}
    OBVIOUS
  <1>4. CASE AttackOpt!ReadFlag
    BY <1>2, <1>3, <1>4 DEF AttackOpt!ReadFlag, AttackOpt!clAfter
  <1>5. CASE AttackOpt!ReadValue
    BY <1>1, <1>2, <1>3, <1>5 DEF AttackOpt!ReadValue, AttackOpt!AfterValue, AttackOpt!clAfter
  <1>6. CASE AttackOpt!ReadParam
    BY <1>1, <1>2, <1>3, <1>6 DEF AttackOpt!ReadParam
  <1>7. CASE AttackOpt!ReadHelp \/ AttackOpt!BadOption \/ AttackOpt!EndOfArguments
    BY <1>1, <1>7 DEF AttackOpt!ReadHelp, AttackOpt!BadOption, AttackOpt!EndOfArguments
  <1> QED
    BY <1>4, <1>5, <1>6, <1>7 DEF AttackOpt!ParseNext

LEMMA InputIsTextNext == InputIsText /\ [Next]_vars => InputIsText'
  <1> SUFFICES ASSUME InputIsText, [Next]_vars PROVE InputIsText'
    OBVIOUS
  <1>1. ASSUME UNCHANGED <<argv, pos, value, nth, commands>> PROVE InputIsText'
    BY <1>1 DEF InputIsText, Command
  <1>2. CASE RunAgain
    <2>1. commands' = commands /\ nth' = nth + 1 /\ nth + 1 \in 1 .. Len(commands) /\ Started(commands)
      BY <1>2 DEF RunAgain, InputIsText, Started
    <2>2. /\ argv' = ArgsOf(commands[nth + 1]) /\ pos' = 1
          /\ value' = DefaultOf(commands[nth + 1])
      BY <1>2 DEF RunAgain, Crypt!ParseAgain
    <2>3. /\ ArgsOf(commands[nth + 1]) \in Seq(Strings)
          /\ commands[nth + 1].program = "msoffice-crypt" =>
                DOMAIN value' = DOMAIN CryptDefault /\ value'.input \in Strings
      BY <2>1, <2>2, BeginsWithText
    <2> QED
      BY <2>1, <2>2, <2>3 DEF InputIsText, Command
  <1>3. CASE Parse
    <2>1. UNCHANGED <<nth, commands>>
      BY <1>3 DEF Parse
    <2>2. CASE Command.program = "msoffice-crypt"
      <3>1. Crypt!ParseNext
        BY <1>3, <2>2 DEF Parse
      <3>2. /\ argv' = argv /\ pos' \in Nat \ {0}
            /\ DOMAIN value' = DOMAIN CryptDefault /\ value'.input \in Strings
        BY <2>2, <3>1, CryptPass DEF InputIsText
      <3> QED
        BY <2>1, <3>2 DEF InputIsText, Command
    <2>3. CASE Command.program # "msoffice-crypt"
      <3>1. AttackOpt!ParseNext
        BY <1>3, <2>3 DEF Parse
      <3>2. argv' = argv /\ pos' \in Nat \ {0}
        BY <3>1, AttackPass DEF InputIsText
      <3> QED
        BY <2>1, <2>3, <3>2 DEF InputIsText, Command
    <2> QED
      BY <2>2, <2>3
  <1>4. CASE RunCrypt \/ RunAttack \/ Usage
    BY <1>1, <1>4 DEF RunCrypt, RunAttack, Usage, typedLine
  <1>5. CASE Finished \/ UNCHANGED vars
    BY <1>1, <1>5 DEF Finished, vars
  <1> QED
    BY <1>2, <1>3, <1>4, <1>5 DEF Next

\* For every command line, however it is put: msoffice-crypt changes no file but
\* its output, which is the input only if both are typed, and what it makes a
\* name for is in the directory of the input, unless that directory's name has
\* the last dot (main of msoffice-crypt.cpp, GetBaseName of cybozu/file.hpp).
THEOREM OutputGoesBeside == Spec => OutputBeside
  <1> DEFINE Beside ==
        MainEnds =>
            /\ \A path \in DOMAIN files : files'[path] # files[path] => path = outFile
            /\ outFile = value.input => value.output # << >>
            /\ DOMAIN files' # DOMAIN files => Dir(outFile) \in Dirs
            /\ value.output = << >> =>
                  Dir(outFile) = Dir(value.input) \/ Dot(value.input) \in 1 .. Len(Dir(value.input))
  <1>1. InputIsText /\ [Next]_vars => [Beside]_vars
    <2> SUFFICES ASSUME InputIsText, Next, MainEnds PROVE Beside
      OBVIOUS
    <2>1. Encrypts \/ Views \/ Decrypts \/ Refuses
      BY MainStep, MainIs
    <2>2. (\E content : Write(outFile, content)) \/ files' = files
      BY <2>1 DEF Encrypts, Views, Decrypts, Refuses
    <2>3. /\ \A path \in DOMAIN files : files'[path] # files[path] => path = outFile
          /\ DOMAIN files' # DOMAIN files => Dir(outFile) \in Dirs
      BY <2>2, WriteIs
    <2>4. CASE value.output # << >>
      BY <2>3, <2>4
    <2>5. CASE value.output = << >>
      <3>1. outFile = Derived(value.input, IF value.e THEN "_e" ELSE "_d")
        BY <2>5 DEF outFile
      <3>2. value.input \in Texts
        <4>1. value.input \in Seq(STRING)
          BY DEF InputIsText, MainEnds, Strings
        <4>2. STRING \subseteq Tokens
          BY DEF Tokens
        <4> QED
          BY <4>1, <4>2, SeqMonotonic DEF Texts
      <3>3. /\ outFile # value.input
            /\ Dir(outFile) = Dir(value.input) \/ Dot(value.input) \in 1 .. Len(Dir(value.input))
        BY <3>1, <3>2, SameDirectory
      <3> QED
        BY <2>3, <2>5, <3>3
    <2> QED
      BY <2>4, <2>5
  <1>2. Spec => []InputIsText
    BY InputIsTextInit, InputIsTextNext, PTL DEF Spec
  <1> QED
    BY <1>1, <1>2, PTL DEF Spec, OutputBeside
-----------------------------------------------------------------------------
(* Bytes and their spellings *)

ByteTexts == Seq(0 .. 255)

LEMMA ByteOfIs ==
    /\ \A c \in DOMAIN ByteOf : ByteOf[c] \in 0 .. 255
    /\ \A b \in 0 .. 255 : CharOf[b] \in DOMAIN ByteOf
  <1> DEFINE Chars == {CharOf[b] : b \in 0 .. 255}
  <1>1. ByteOf = [c \in Chars |-> CHOOSE b \in 0 .. 255 : CharOf[b] = c]
    BY DEF ByteOf
  <1>2. ASSUME NEW c \in Chars PROVE (CHOOSE b \in 0 .. 255 : CharOf[b] = c) \in 0 .. 255
    <2>1. \E b \in 0 .. 255 : CharOf[b] = c
      OBVIOUS
    <2> QED
      BY <2>1
  <1> QED
    BY <1>1, <1>2

LEMMA ElementsOf ==
    ASSUME NEW S, NEW s \in Seq(S)
    PROVE  /\ Len(s) \in Nat /\ DOMAIN s = 1 .. Len(s)
           /\ \A i \in 1 .. Len(s) : s[i] \in S
           /\ s = [i \in 1 .. Len(s) |-> s[i]]
  OBVIOUS

LEMMA BytesIs ==
    ASSUME NEW s \in Seq(DOMAIN ByteOf)
    PROVE  /\ Bytes(s) \in ByteTexts /\ Len(Bytes(s)) = Len(s)
           /\ \A i \in 1 .. Len(s) : Bytes(s)[i] = ByteOf[s[i]]
  <1>1. DOMAIN s = 1 .. Len(s) /\ Len(s) \in Nat /\ \A i \in 1 .. Len(s) : s[i] \in DOMAIN ByteOf
    BY ElementsOf
  <1>2. \A i \in 1 .. Len(s) : ByteOf[s[i]] \in 0 .. 255
    BY <1>1, ByteOfIs
  <1> QED
    BY <1>1, <1>2 DEF Bytes, ByteTexts

LEMMA ByteFacts == \A b \in 0 .. 255 : b % 256 = b /\ Utf16(b) = <<b>>
  BY DEF Utf16

\* g[i] are the first i of n parts, joined.
Joins(parts, n, g) == g = [i \in 1 .. n |-> IF i = 1 THEN parts[i] ELSE g[i - 1] \o parts[i]]

\* FlattenSeq, of parts that are known joined.
LEMMA FlattenIs ==
    ASSUME NEW parts, NEW n \in Nat \ {0}, Len(parts) = n, NEW g, Joins(parts, n, g)
    PROVE  FlattenSeq(parts) = g[n]
  <1> DEFINE h == CHOOSE f : Joins(parts, n, f)
  <1>1. Joins(parts, n, h)
    BY Zenon
  <1>2. FlattenSeq(parts) = h[n]
    BY DEF FlattenSeq, Joins
  <1> HIDE DEF h
  <1>3. \A i \in 1 .. n : h[i] = g[i]
    <2> DEFINE S == {k \in Nat : k \in 1 .. n => h[k] = g[k]}
    <2>1. 0 \in S
      OBVIOUS
    <2>2. ASSUME NEW k \in Nat, k \in S PROVE k + 1 \in S
      <3> SUFFICES ASSUME k + 1 \in 1 .. n PROVE h[k + 1] = g[k + 1]
        OBVIOUS
      <3>1. h[k + 1] = IF k + 1 = 1 THEN parts[k + 1] ELSE h[(k + 1) - 1] \o parts[k + 1]
        BY <1>1 DEF Joins
      <3>2. g[k + 1] = IF k + 1 = 1 THEN parts[k + 1] ELSE g[(k + 1) - 1] \o parts[k + 1]
        BY DEF Joins
      <3>3. (k + 1) - 1 = k /\ (k + 1 # 1 => k \in 1 .. n)
        OBVIOUS
      <3> QED
        BY <2>2, <3>1, <3>2, <3>3
    <2>3. Nat \subseteq S
      <3> HIDE DEF S
      <3> QED
        BY <2>1, <2>2, NatSetInduction
    <2> SUFFICES ASSUME NEW i \in 1 .. n PROVE h[i] = g[i]
      OBVIOUS
    <2>4. i \in S
      <3> HIDE DEF S
      <3> QED
        BY <2>3
    <2> QED
      BY <2>4
  <1> QED
    BY <1>2, <1>3

\* The code points of bytes are their units, and a unit is two bytes.
LEMMA WideIs ==
    ASSUME NEW w \in ByteTexts
    PROVE  Utf16LE(w) = Char16toChar8(w)
  <1> DEFINE n == Len(w)
             low(j) == IF j % 2 = 1 THEN w[(j + 1) \div 2] % 256 ELSE w[j \div 2] \div 256
  <1>1. n \in Nat /\ DOMAIN w = 1 .. n /\ \A i \in 1 .. n : w[i] \in 0 .. 255
    BY ElementsOf DEF ByteTexts
  <1>2. Units(w) = w
    <2> DEFINE parts == [i \in DOMAIN w |-> Utf16(w[i])]
               g == [i \in 1 .. n |-> [j \in 1 .. i |-> w[j]]]
    <2>1. parts = [i \in 1 .. n |-> <<w[i]>>]
      <3>1. \A i \in 1 .. n : Utf16(w[i]) = <<w[i]>>
        BY <1>1, ByteFacts
      <3> QED
        BY <1>1, <3>1
    <2>2. CASE n = 0
      <3>1. parts = << >> /\ w = << >> /\ Len(parts) = 0
        BY <1>1, <2>1, <2>2
      <3> QED
        BY <3>1 DEF Units, FlattenSeq
    <2>3. CASE n # 0
      <3> HIDE DEF parts
      <3>1. Len(parts) = n
        BY <1>1, <2>1
      <3>2. \A i \in 1 .. n : g[i] = IF i = 1 THEN parts[i] ELSE g[i - 1] \o parts[i]
        <4> SUFFICES ASSUME NEW i \in 1 .. n PROVE g[i] = IF i = 1 THEN parts[i] ELSE g[i - 1] \o parts[i]
          OBVIOUS
        <4>1. CASE i = 1
          BY <1>1, <2>1, <4>1
        <4>2. CASE i # 1
          <5>1. i - 1 \in 1 .. n /\ parts[i] = <<w[i]>>
            BY <1>1, <2>1, <4>2
          <5>2. g[i - 1] = [j \in 1 .. i - 1 |-> w[j]] /\ g[i] = [j \in 1 .. i |-> w[j]]
            BY <5>1
          <5>3. [j \in 1 .. i - 1 |-> w[j]] \o <<w[i]>> = [j \in 1 .. i |-> w[j]]
            BY <1>1, <4>2
          <5> QED
            BY <4>2, <5>1, <5>2, <5>3
        <4> QED
          BY <4>1, <4>2
      <3>3. g = [i \in 1 .. n |-> g[i]]
        OBVIOUS
      <3>4. g[n] = w
        <4>1. n \in 1 .. n
          BY <1>1, <2>3
        <4>2. g[n] = [j \in 1 .. n |-> w[j]]
          BY <4>1
        <4> QED
          BY <4>2, ElementsOf DEF ByteTexts
      <3> HIDE DEF g
      <3>5. Joins(parts, n, g)
        BY <3>2, <3>3 DEF Joins
      <3>6. FlattenSeq(parts) = g[n]
        <4>1. n \in Nat \ {0}
          BY <1>1, <2>3
        <4> HIDE DEF n
        <4> QED
          BY <4>1, <3>1, <3>5, FlattenIs
      <3> QED
        BY <3>4, <3>6 DEF Units, parts
    <2> QED
      BY <2>2, <2>3
  <1>3. FlattenSeq([i \in DOMAIN w |-> LittleEndian(w[i])]) = Char16toChar8(w)
    <2> DEFINE parts == [i \in DOMAIN w |-> LittleEndian(w[i])]
               g == [i \in 1 .. n |-> [j \in 1 .. 2 * i |-> low(j)]]
    <2>1. parts = [i \in 1 .. n |-> <<w[i] % 256, w[i] \div 256>>]
      BY <1>1 DEF LittleEndian
    <2>2. CASE n = 0
      <3>1. parts = << >> /\ w = << >> /\ Len(parts) = 0
        BY <1>1, <2>1, <2>2
      <3>2. Char16toChar8(w) = << >>
        BY <2>2 DEF Char16toChar8
      <3> QED
        BY <3>1, <3>2 DEF FlattenSeq
    <2>3. CASE n # 0
      <3> HIDE DEF parts
      <3>1. Len(parts) = n
        BY <1>1, <2>1
      <3>2. \A i \in 1 .. n : g[i] = IF i = 1 THEN parts[i] ELSE g[i - 1] \o parts[i]
        <4> SUFFICES ASSUME NEW i \in 1 .. n PROVE g[i] = IF i = 1 THEN parts[i] ELSE g[i - 1] \o parts[i]
          OBVIOUS
        <4>1. parts[i] = <<w[i] % 256, w[i] \div 256>>
          BY <2>1
        <4>2. low(2 * i - 1) = w[i] % 256 /\ low(2 * i) = w[i] \div 256
          <5>1. (2 * i - 1) % 2 = 1 /\ ((2 * i - 1) + 1) \div 2 = i
            BY <1>1
          <5>2. (2 * i) % 2 = 0 /\ (2 * i) \div 2 = i
            BY <1>1
          <5> QED
            BY <5>1, <5>2
        <4>3. g[i] = [j \in 1 .. 2 * i |-> low(j)]
          OBVIOUS
        <4> HIDE DEF low
        <4>4. CASE i = 1
          <5>1. [j \in 1 .. 2 |-> low(j)] = <<low(1), low(2)>>
            OBVIOUS
          <5> QED
            BY <4>1, <4>2, <4>3, <4>4, <5>1
        <4>5. CASE i # 1
          <5> DEFINE p == [j \in 1 .. 2 * (i - 1) |-> low(j)]
          <5>1. g[i - 1] = p
            BY <1>1, <4>5
          <5>2. p \o <<low(2 * i - 1), low(2 * i)>> = [j \in 1 .. 2 * i |-> low(j)]
            <6>1. i \in Nat /\ i >= 1
              OBVIOUS
            <6>2. Len(p) = 2 * (i - 1) /\ p \in Seq({low(j) : j \in Nat})
              BY <6>1
            <6>3. DOMAIN (p \o <<low(2 * i - 1), low(2 * i)>>) = 1 .. 2 * i
              BY <6>1, <6>2
            <6>4. ASSUME NEW j \in 1 .. 2 * i PROVE (p \o <<low(2 * i - 1), low(2 * i)>>)[j] = low(j)
              <7>1. CASE j <= 2 * (i - 1)
                BY <6>1, <6>2, <7>1
              <7>2. CASE j = 2 * i - 1
                BY <6>1, <6>2, <7>2
              <7>3. CASE j = 2 * i
                BY <6>1, <6>2, <7>3
              <7> QED
                BY <6>1, <7>1, <7>2, <7>3
            <6> QED
              BY <6>3, <6>4
          <5> QED
            BY <4>1, <4>2, <4>3, <4>5, <5>1, <5>2
        <4> QED
          BY <4>4, <4>5
      <3>3. g = [i \in 1 .. n |-> g[i]]
        OBVIOUS
      <3>4. g[n] = Char16toChar8(w)
        BY <1>1, <2>3 DEF Char16toChar8
      <3> HIDE DEF g
      <3>5. Joins(parts, n, g)
        BY <3>2, <3>3 DEF Joins
      <3>6. FlattenSeq(parts) = g[n]
        <4>1. n \in Nat \ {0}
          BY <1>1, <2>3
        <4> HIDE DEF n
        <4> QED
          BY <4>1, <3>1, <3>5, FlattenIs
      <3> QED
        BY <3>4, <3>6 DEF parts
    <2> QED
      BY <2>2, <2>3
  <1> QED
    BY <1>2, <1>3 DEF Utf16LE

\* toUtf8 of attack.hpp takes back what toUtf8 of attack.cpp has widened.
LEMMA NarrowedIs ==
    ASSUME NEW w \in ByteTexts
    PROVE  Narrowed(Char16toChar8(w)) = w
  <1> DEFINE n == Len(w)
             wide == Char16toChar8(w)
  <1>1. n \in Nat /\ DOMAIN w = 1 .. n /\ \A i \in 1 .. n : w[i] \in 0 .. 255
    BY ElementsOf DEF ByteTexts
  <1>2. Len(wide) = 2 * n /\ Len(wide) \div 2 = n
    BY <1>1 DEF Char16toChar8
  <1>3. ASSUME NEW i \in 1 .. n PROVE wide[(2 * i) - 1] = w[i]
    <2>1. (2 * i) - 1 \in 1 .. 2 * n /\ ((2 * i) - 1) % 2 = 1 /\ (((2 * i) - 1) + 1) \div 2 = i
      BY <1>1
    <2>2. w[i] % 256 = w[i]
      <3>1. w[i] \in 0 .. 255
        BY <1>1
      <3> QED
        BY <3>1, ByteFacts
    <2> QED
      BY <2>1, <2>2 DEF Char16toChar8
  <1>4. w = [i \in 1 .. n |-> w[i]]
    BY ElementsOf DEF ByteTexts
  <1>5. Narrowed(wide) = [i \in 1 .. n |-> wide[(2 * i) - 1]]
    BY <1>2 DEF Narrowed
  <1> HIDE DEF wide, n
  <1>6. [i \in 1 .. n |-> wide[(2 * i) - 1]] = [i \in 1 .. n |-> w[i]]
    BY <1>3
  <1> QED
    BY <1>4, <1>5, <1>6 DEF wide

LEMMA OpensIs ==
    ASSUME IsAgile(target), NEW w \in ByteTexts
    PROVE  KeyFor(target, Utf16LE(w), NoKey) # NoKey <=> Opens(Char16toChar8(w))
  BY WideIs DEF KeyFor, Opens
-----------------------------------------------------------------------------
(* The search of a dictionary *)

\* msoffice-crypt leaves dictionaries what they are: lines.
Lined ==
    \A path \in DOMAIN files :
        files[path].kind = "lines" => \A line \in ToSet(files[path].lines) : IsLine(line)

Searching ==
    /\ phase \in {"options", "dictionary", "length"}
    /\ phase # "options" => parsing = "parsed" /\ Command.program = "attack"
    /\ phase = "options" => found = {}
    /\ phase = "dictionary" => value.d # << >>
    /\ phase # "options" /\ ~IsAgile(target) => found = {}
    /\ phase = "dictionary" /\ ret = 0 => found \subseteq Printable /\ (found = {} => hits = {})

DictInv == Lined /\ Searching

LEMMA WriteKeepsLined ==
    ASSUME Lined, NEW path, NEW content, content.kind # "lines", Write(path, content)
    PROVE  Lined'
  <1>1. \A c \in Interrupted(content) : c.kind # "lines"
    BY DEF Interrupted, Empty, Begun, ZipFile, Cut
  <1>2. ASSUME NEW c, c.kind # "lines", files' = With(path, c) PROVE Lined'
    <2>1. DOMAIN files' = DOMAIN files \cup {path}
      BY <1>2 DEF With
    <2>2. \A p \in DOMAIN files' : files'[p] = IF p = path THEN c ELSE files[p]
      BY <1>2 DEF With
    <2> QED
      BY <1>2, <2>1, <2>2 DEF Lined
  <1>3. CASE files' = files
    BY <1>3 DEF Lined
  <1>4. \/ files' = files \/ files' = With(path, content)
        \/ \E c \in Interrupted(content) : files' = With(path, c)
    BY DEF Write, Flushed
  <1> QED
    BY <1>1, <1>2, <1>3, <1>4

LEMMA MainKeepsLined ==
    ASSUME Lined, CryptMain
    PROVE  Lined'
  <1>1. CASE files' = files
    BY <1>1 DEF Lined
  <1>2. CASE Encrypts
    <2>1. \A c, w, k, s, b : Encoded(c, w, k, s, b).kind # "lines"
      BY DEF Encoded, Cfb
    <2> QED
      BY <1>2, <2>1, WriteKeepsLined DEF Encrypts
  <1>3. CASE Decrypts
    <2> DEFINE content == Deciphered(files[value.input], KeyFor(files[value.input], passData, givenKey))
    <2>1. Knows(content) /\ Write(outFile, content)
      BY <1>3 DEF Decrypts
    <2> HIDE DEF content
    <2>2. content.kind # "lines"
      BY <2>1 DEF Knows, KnownKinds
    <2> QED
      BY <2>1, <2>2, WriteKeepsLined
  <1> QED
    BY <1>1, <1>2, <1>3, MainIs DEF Views, Refuses

\* parse runs only before main.
LEMMA ParseIsFirst ==
    ASSUME Parse
    PROVE  parsing = "reading"
  BY DEF Parse, Crypt!ParseNext, Crypt!ReadHelp, Crypt!ReadFlag, Crypt!ReadValue, Crypt!BadOption,
         Crypt!ReadParam, Crypt!EndOfArguments, Crypt!Reads,
         AttackOpt!ParseNext, AttackOpt!ReadHelp, AttackOpt!ReadFlag, AttackOpt!ReadValue, AttackOpt!BadOption,
         AttackOpt!ReadParam, AttackOpt!EndOfArguments, AttackOpt!Reads

\* The search leaves the disk alone.
LEMMA SearchLeaves ==
    ASSUME AttackNext
    PROVE  files' = files
  BY DEF AttackNext, AttackMain, SearchDictionary, TryNext, Try, NotFound, Leave, Returns

LEMMA DictInvInit == Init => DictInv
  <1> SUFFICES ASSUME Init PROVE DictInv
    OBVIOUS
  <1>1. PICK s \in Scripts : files = s.disk /\ SearchInit
    BY DEF Init
  <1>2. Lined
    BY <1>1, ScriptsAssumption DEF Lined
  <1> QED
    BY <1>1, <1>2 DEF DictInv, Searching, SearchInit

LEMMA MainBegins ==
    ASSUME Searching, AttackMain, Command.program = "attack", UNCHANGED <<typedLine, nth, commands>>
    PROVE  Searching'
  <1>1. files' = files /\ parsing' = "parsed" /\ value' = value /\ Command' = Command
    BY SearchLeaves DEF AttackMain, AttackNext, typedLine, Command
  <1>2. phase' \in {"options", "dictionary", "length"}
    BY DEF AttackMain
  <1>3. phase' = "dictionary" => ret' = Running /\ value.d # << >>
    BY DEF AttackMain
  <1>4. 0 # Running
    BY DEF Running
  <1>5. found' = {}
    BY DEF AttackMain, Searching
  <1> QED
    BY <1>1, <1>2, <1>3, <1>4, <1>5 DEF Searching

\* What the searches look at is read from the command and the disk.
LEMMA SearchedIs ==
    ASSUME UNCHANGED <<value, files>>
    PROVE  UNCHANGED <<target, hits, Printable>>
  <1>1. target' = target /\ passSet' = passSet
    BY DEF target, passSet, Lines, Exists
  <1>2. hits' = hits
    BY <1>1 DEF hits, IsAgile, Opens
  <1>3. Repeated' = Repeated
    BY DEF Repeated, Lines, Exists
  <1> QED
    BY <1>1, <1>2, <1>3 DEF Printable, MayRace

LEMMA DictInvNext == DictInv /\ [Next]_vars => DictInv'
  <1> SUFFICES ASSUME DictInv, [Next]_vars PROVE DictInv'
    OBVIOUS
  <1>1. ASSUME UNCHANGED <<typedLine, files, nth, ret, search, commands>> PROVE DictInv'
    <2>1. /\ UNCHANGED <<parsing, value, phase, found, files, ret>> /\ Command' = Command
      BY <1>1 DEF Command, typedLine, search
    <2>2. UNCHANGED <<target, hits, Printable>>
      BY <2>1, SearchedIs
    <2> QED
      BY <2>1, <2>2 DEF DictInv, Lined, Searching, IsAgile
  <1>2. CASE RunAgain
    BY <1>2 DEF RunAgain, SearchAgain, DictInv, Lined, Searching
  <1>3. CASE Parse
    <2>1. phase = "options"
      BY <1>3, ParseIsFirst DEF DictInv, Searching
    <2> QED
      BY <1>3, <2>1 DEF Parse, search, DictInv, Lined, Searching
  <1>4. CASE RunCrypt
    <2>1. phase = "options"
      BY <1>4 DEF RunCrypt, DictInv, Searching
    <2>2. Lined'
      BY <1>4, MainKeepsLined DEF RunCrypt, DictInv
    <2> QED
      BY <1>4, <2>1, <2>2 DEF RunCrypt, search, DictInv, Searching
  <1>5. CASE RunAttack
    <2>1. AttackNext /\ Command.program = "attack" /\ UNCHANGED <<typedLine, nth, commands>> /\ files' = files
      BY <1>5, SearchLeaves DEF RunAttack
    <2>2. Lined'
      BY <2>1 DEF DictInv, Lined
    <2>3. parsing' = parsing /\ value' = value /\ Command' = Command
      BY <2>1 DEF typedLine, Command
    <2>8. UNCHANGED <<target, hits, Printable>> /\ IsAgile(target)' = IsAgile(target)
      <3>1. UNCHANGED <<target, hits, Printable>>
        BY <2>1, <2>3, SearchedIs
      <3> QED
        BY <3>1 DEF IsAgile
    <2>4. CASE AttackMain
      BY <2>1, <2>2, <2>4, MainBegins DEF DictInv
    <2>5. CASE SearchDictionary
      <3>1. phase = "dictionary" /\ ret = Running
        BY <2>5 DEF SearchDictionary
      <3>2. phase' \in {"dictionary", "length"}
        BY <2>5 DEF SearchDictionary
      <3>3. ret' = 0 => found' \subseteq Printable /\ (found' = {} => hits = {})
        BY <2>5 DEF SearchDictionary, Returns, Running, Crashed
      <3>4. ~IsAgile(target) => found' = {}
        <4>1. found' = found \/ found' \subseteq Printable
          BY <2>5 DEF SearchDictionary
        <4>2. ~IsAgile(target) => hits = {} /\ Printable = {}
          BY DEF hits, Printable, MayRace
        <4> QED
          BY <3>1, <4>1, <4>2 DEF DictInv, Searching
      <3>5. value.d # << >>
        BY <3>1 DEF DictInv, Searching
      <3> QED
        BY <2>1, <2>2, <2>3, <2>8, <3>1, <3>2, <3>3, <3>4, <3>5 DEF DictInv, Searching
    <2>6. CASE TryNext \/ NotFound
      <3>1. phase = "length" /\ phase' = "length"
        BY <2>6 DEF TryNext, NotFound, search
      <3>2. ~IsAgile(target) => found' = found
        BY <2>6 DEF TryNext, Try, NotFound, search
      <3> QED
        BY <2>2, <2>3, <2>8, <3>1, <3>2 DEF DictInv, Searching
    <2> QED
      BY <2>1, <2>4, <2>5, <2>6 DEF AttackNext
  <1>6. CASE Usage
    <2>1. phase = "options" /\ files' = files
      BY <1>6 DEF Usage, NoMain, Returns, DictInv, Searching
    <2> QED
      BY <1>6, <2>1 DEF Usage, search, DictInv, Lined, Searching
  <1>7. CASE Finished \/ UNCHANGED vars
    BY <1>1, <1>7 DEF Finished, vars, typedLine, search
  <1> QED
    BY <1>2, <1>3, <1>4, <1>5, <1>6, <1>7 DEF Next

LEMMA DictInvariant == Spec => []DictInv
  BY DictInvInit, DictInvNext, PTL DEF Spec

LEMMA FrontIs ==
    ASSUME NEW S, NEW s \in Seq(S), Len(s) # 0
    PROVE  /\ Front(s) \in Seq(S) /\ Len(Front(s)) = Len(s) - 1
           /\ \A i \in 1 .. Len(s) - 1 : Front(s)[i] = s[i]
  <1>1. Front(s) = SubSeq(s, 1, Len(s) - 1)
    BY DEF Front
  <1>2. /\ Len(s) \in Nat \ {0} /\ Len(s) - 1 \in Nat
        /\ \A i \in 1 .. Len(s) - 1 : s[i] \in S
    BY ElementsOf
  <1>3. /\ SubSeq(s, 1, Len(s) - 1) \in Seq(S)
        /\ Len(SubSeq(s, 1, Len(s) - 1)) = IF 1 <= Len(s) - 1 THEN (Len(s) - 1) - 1 + 1 ELSE 0
        /\ \A i \in 1 .. (Len(s) - 1) - 1 + 1 : SubSeq(s, 1, Len(s) - 1)[i] = s[1 + i - 1]
    BY <1>2, SubSeqProperties
  <1>4. (Len(s) - 1) - 1 + 1 = Len(s) - 1 /\ \A i \in 1 .. Len(s) - 1 : 1 + i - 1 = i
    BY <1>2
  <1> QED
    BY <1>1, <1>2, <1>3, <1>4

\* What is tried of a line: of its bytes, those before a "\r" at its end.
LEMMA TrimmedIs ==
    ASSUME NEW line, IsLine(line)
    PROVE  LET w == Bytes(line)
           IN  /\ w \in ByteTexts /\ trim(line) \in Seq(DOMAIN ByteOf)
               /\ Bytes(trim(line)) = IF w # << >> /\ Last(w) = 13 THEN Front(w) ELSE w
  <1> DEFINE n == Len(line)
             w == Bytes(line)
  <1>1. line \in Seq(DOMAIN ByteOf) /\ 10 \notin ToSet(w)
    BY DEF IsLine
  <1>2. /\ w \in ByteTexts /\ Len(w) = n
        /\ \A i \in 1 .. n : w[i] = ByteOf[line[i]]
    BY <1>1, BytesIs
  <1>3. n \in Nat /\ DOMAIN w = 1 .. n
    BY <1>1, <1>2, ElementsOf DEF ByteTexts
  <1>4. CASE n = 0
    <2>1. line = << >> /\ w = << >>
      BY <1>1, <1>2, <1>4 DEF ByteTexts
    <2> QED
      BY <1>1, <1>2, <2>1 DEF trim
  <1>5. CASE n # 0
    <2>1. line # << >> /\ w # << >> /\ n \in 1 .. n
      BY <1>2, <1>3, <1>5
    <2>2. Last(line) = line[n] /\ Last(w) = w[n] /\ w[n] = ByteOf[line[n]]
      BY <1>2, <2>1 DEF Last
    <2>3. w[n] # 10
      BY <1>1, <1>3, <2>1 DEF ToSet
    <2> HIDE DEF w
    <2>4. CASE w[n] = 13
      <3>1. trim(line) = Front(line)
        BY <2>1, <2>2, <2>4 DEF trim
      <3>2. /\ Front(line) \in Seq(DOMAIN ByteOf) /\ Len(Front(line)) = n - 1
            /\ \A i \in 1 .. n - 1 : Front(line)[i] = line[i]
        BY <1>1, <2>1, FrontIs
      <3>3. /\ Front(w) \in ByteTexts /\ Len(Front(w)) = n - 1
            /\ \A i \in 1 .. n - 1 : Front(w)[i] = w[i]
        BY <1>2, <2>1, FrontIs DEF ByteTexts
      <3>4. /\ Bytes(Front(line)) \in ByteTexts /\ Len(Bytes(Front(line))) = n - 1
            /\ \A i \in 1 .. n - 1 : Bytes(Front(line))[i] = ByteOf[Front(line)[i]]
        BY <3>2, BytesIs
      <3>5. \A i \in 1 .. n - 1 : Bytes(Front(line))[i] = Front(w)[i]
        BY <1>2, <1>3, <3>2, <3>3, <3>4
      <3>6. Bytes(Front(line)) = Front(w)
        BY <3>3, <3>4, <3>5, SeqEqual DEF ByteTexts
      <3> QED
        BY <1>2, <2>1, <2>2, <2>4, <3>1, <3>2, <3>6 DEF w
    <2>5. CASE w[n] # 13
      <3>1. trim(line) = line
        BY <2>2, <2>3, <2>5 DEF trim
      <3> QED
        BY <1>1, <1>2, <2>2, <2>5, <3>1 DEF w
    <2> QED
      BY <2>4, <2>5
  <1> QED
    BY <1>3, <1>4, <1>5

\* What a line stands for, and what is found, as bytes.
TriedOf(w) == IF w # << >> /\ Last(w) = 13 THEN Front(w) ELSE w
IsWord(w) == KeyFor(target, Utf16LE(w), NoKey) # NoKey

LEMMA HitsAre ==
    ASSUME Lined, IsAgile(target)
    PROVE  /\ \A line \in ToSet(Lines(value.d)) : IsWord(TriedOf(Bytes(line))) => hits # {}
           /\ \A w \in hits : w \in ByteTexts /\ IsWord(w)
  <1> DEFINE lines == Lines(value.d)
  <1>1. \A line \in ToSet(lines) : IsLine(line)
    <2>1. CASE ~Exists(value.d) \/ files[value.d].kind = "empty"
      <3>1. lines = << >>
        BY <2>1 DEF Lines, Exists
      <3>2. ToSet(<< >>) = {}
        BY DEF ToSet
      <3> QED
        BY <3>1, <3>2
    <2>2. CASE Exists(value.d) /\ files[value.d].kind = "lines"
      <3>1. lines = files[value.d].lines
        BY <2>2 DEF Lines
      <3> QED
        BY <2>2, <3>1 DEF Lined, Exists
    <2>3. CASE Exists(value.d) /\ files[value.d].kind \notin {"empty", "lines"}
      <3>1. lines = RawLines
        BY <2>3 DEF Lines
      <3> QED
        BY <3>1, RawLinesAssumption
    <2> QED
      BY <2>1, <2>2, <2>3
  <1>2. passSet = {Widened(trim(line)) : line \in ToSet(lines)}
    BY DEF passSet
  <1>3. hits = {Narrowed(w) : w \in {v \in passSet : Opens(v)}}
    BY DEF hits
  <1> HIDE DEF lines
  <1>4. ASSUME NEW line \in ToSet(lines)
        PROVE  LET t == TriedOf(Bytes(line))
               IN  /\ t \in ByteTexts
                   /\ IsWord(t) <=> Opens(Widened(trim(line)))
                   /\ Narrowed(Widened(trim(line))) = t
    <2> DEFINE t == TriedOf(Bytes(line))
    <2>1. trim(line) \in Seq(DOMAIN ByteOf) /\ Bytes(trim(line)) = t
      BY <1>1, TrimmedIs DEF TriedOf
    <2>2. t \in ByteTexts
      BY <2>1, BytesIs
    <2>3. Widened(trim(line)) = Char16toChar8(t)
      BY <2>1 DEF Widened
    <2> HIDE DEF t
    <2>4. IsWord(t) <=> Opens(Char16toChar8(t))
      BY <2>2, OpensIs DEF IsWord
    <2>5. Narrowed(Char16toChar8(t)) = t
      BY <2>2, NarrowedIs
    <2> QED
      BY <2>2, <2>3, <2>4, <2>5 DEF t
  <1>5. ASSUME NEW line \in ToSet(lines), IsWord(TriedOf(Bytes(line))) PROVE hits # {}
    <2>1. Widened(trim(line)) \in passSet /\ Opens(Widened(trim(line)))
      BY <1>2, <1>4, <1>5
    <2> QED
      BY <1>3, <2>1
  <1>6. ASSUME NEW w \in hits PROVE w \in ByteTexts /\ IsWord(w)
    <2>1. PICK line \in ToSet(lines) : Opens(Widened(trim(line))) /\ w = Narrowed(Widened(trim(line)))
      BY <1>2, <1>3
    <2> QED
      BY <1>4, <2>1
  <1> QED
    BY <1>5, <1>6 DEF lines

\* For every dictionary and every encrypted file: a search that ends without an error
\* finds the password of an Agile file if a line is it, and what it finds is one,
\* unless the password is on two lines and there are two threads; of an Office 2007
\* file it finds nothing (the constructor of Option in attack.cpp, toUtf8,
\* verifyPassword).
THEOREM DictionaryFinds == Spec => []SearchFinds
  <1>1. DictInv => SearchFinds
    <2> SUFFICES ASSUME DictInv, phase = "dictionary", ret = 0
                 PROVE  /\ IsAgile(target) =>
                              \A line \in ToSet(Lines(value.d)) : IsWord(TriedOf(Bytes(line))) => found # {}
                        /\ IsAgile(target) /\ (value.t = 1 \/ ~Repeated) => \A w \in found : IsWord(w)
                        /\ ~IsAgile(target) => found = {}
      BY DEF SearchFinds, IsWord, TriedOf
    <2>1. found \subseteq Printable /\ (found = {} => hits = {}) /\ (~IsAgile(target) => found = {}) /\ Lined
      BY DEF DictInv, Searching
    <2>2. value.t = 1 \/ ~Repeated => Printable = hits
      BY DEF Printable, MayRace
    <2> QED
      BY <2>1, <2>2, HitsAre
  <1> QED
    BY <1>1, DictInvariant, PTL
-----------------------------------------------------------------------------
(* Numbers *)

\* f is what T makes of base in m steps.
GoesBy(f, T, base, m) == f[0] = base /\ \A k \in 1 .. m : f[k] = T[<<f[k - 1], k>>]

\* A step for each of n numbers: the recursion has a solution.
LEMMA Recurs ==
    ASSUME NEW X, NEW base, base \in X, NEW n, n \in Nat, NEW T, T \in [X \X (1 .. n) -> X]
    PROVE  \E f \in [0 .. n -> X] : GoesBy(f, T, base, n)
  <1> DEFINE Goes(f, m) == f[0] = base /\ \A k \in 1 .. m : f[k] = T[<<f[k - 1], k>>]
             S == {m \in Nat : m <= n => \E f \in [0 .. m -> X] : Goes(f, m)}
  <1>1. 0 \in S
    <2> DEFINE f == [k \in 0 .. 0 |-> base]
    <2>1. f \in [0 .. 0 -> X] /\ Goes(f, 0)
      OBVIOUS
    <2> QED
      BY <2>1
  <1>2. ASSUME NEW m \in Nat, m \in S PROVE m + 1 \in S
    <2> SUFFICES ASSUME m + 1 <= n PROVE \E f \in [0 .. m + 1 -> X] : Goes(f, m + 1)
      OBVIOUS
    <2>1. PICK g \in [0 .. m -> X] : Goes(g, m)
      BY <1>2
    <2> DEFINE f == [k \in 0 .. m + 1 |-> IF k <= m THEN g[k] ELSE T[<<g[m], m + 1>>]]
    <2>2. m + 1 \in 1 .. n /\ g[m] \in X
      OBVIOUS
    <2>3. T[<<g[m], m + 1>>] \in X
      BY <2>2
    <2>4. \A k \in 0 .. m : f[k] = g[k]
      OBVIOUS
    <2>5. f[m + 1] = T[<<g[m], m + 1>>]
      OBVIOUS
    <2>6. f \in [0 .. m + 1 -> X]
      BY <2>3
    <2> HIDE DEF f
    <2>7. f[0] = base
      BY <2>1, <2>4
    <2>8. ASSUME NEW k \in 1 .. m + 1 PROVE f[k] = T[<<f[k - 1], k>>]
      <3>1. CASE k = m + 1
        BY <2>4, <2>5, <3>1
      <3>2. CASE k # m + 1
        <4>1. k \in 1 .. m /\ k - 1 \in 0 .. m
          BY <3>2
        <4> QED
          BY <2>1, <2>4, <4>1
      <3> QED
        BY <3>1, <3>2
    <2> QED
      BY <2>6, <2>7, <2>8
  <1>3. n \in S
    <2> HIDE DEF S
    <2> QED
      BY <1>1, <1>2, NatSetInduction
  <1> QED
    BY <1>3 DEF GoesBy

LEMMA LeastOf ==
    ASSUME NEW S, S \subseteq Nat, S # {}
    PROVE  AttackOpt!Min(S) \in S
  <1> DEFINE R == OpToRel(<, Nat)
  <1>1. IsWellFoundedOn(R, Nat)
    BY NatLessThanWellFounded
  <1>2. \A x, y \in Nat : y < x => <<y, x>> \in R
    BY DEF OpToRel
  <1>3. PICK x \in S : \A y \in S : ~ (<<y, x>> \in R)
    <2> HIDE DEF R
    <2> QED
      BY <1>1, WFMin
  <1>4. ASSUME NEW y \in S PROVE x <= y
    <2>1. x \in Nat /\ y \in Nat
      OBVIOUS
    <2>2. ~(y < x)
      BY <1>2, <1>3, <2>1
    <2> QED
      BY <2>1, <2>2
  <1> QED
    BY <1>4 DEF AttackOpt!Min

LEMMA DigitIs ==
    /\ \A c : AttackOpt!DigitOf(c) \in -1 .. 9
    /\ AttackOpt!DigitOf("-") = -1
  <1> DEFINE I(c) == {i \in 1 .. Len(AttackOpt!Digits) : AttackOpt!Digits[i] = c}
  <1>1. Len(AttackOpt!Digits) = 10
    BY DEF AttackOpt!Digits
  <1>2. ASSUME NEW c PROVE AttackOpt!DigitOf(c) = (IF I(c) # {} THEN AttackOpt!Min(I(c)) ELSE 0) - 1
    BY DEF AttackOpt!DigitOf, AttackOpt!SelectInSeq
  <1>3. ASSUME NEW c PROVE AttackOpt!DigitOf(c) \in -1 .. 9
    <2>1. I(c) # {} => AttackOpt!Min(I(c)) \in I(c)
      <3>1. I(c) \subseteq Nat
        BY <1>1
      <3> HIDE DEF I
      <3> QED
        BY <3>1, LeastOf
    <2> QED
      BY <1>1, <1>2, <2>1
  <1>4. I("-") = {}
    <2>1. \A i \in 1 .. 10 : AttackOpt!Digits[i] # "-"
      BY DEF AttackOpt!Digits
    <2> QED
      BY <1>1, <2>1
  <1> QED
    BY <1>2, <1>3, <1>4

LEMMA HexDigitIs == \A c : AttackOpt!HexDigitOf(c) \in Int
  <1>0. \A b \in 32 .. 126 : AttackOpt!CharOf[b] = AttackOpt!Ascii[b - 31]
    BY DEF AttackOpt!CharOf
  <1>9. /\ AttackOpt!Ascii[34] = "A" /\ AttackOpt!Ascii[35] = "B" /\ AttackOpt!Ascii[36] = "C"
        /\ AttackOpt!Ascii[37] = "D" /\ AttackOpt!Ascii[38] = "E" /\ AttackOpt!Ascii[39] = "F"
    BY DEF AttackOpt!Ascii
  <1>10. /\ AttackOpt!Ascii[66] = "a" /\ AttackOpt!Ascii[67] = "b" /\ AttackOpt!Ascii[68] = "c"
        /\ AttackOpt!Ascii[69] = "d" /\ AttackOpt!Ascii[70] = "e" /\ AttackOpt!Ascii[71] = "f"
    BY DEF AttackOpt!Ascii
  <1>11. /\ AttackOpt!CharOf[65] = AttackOpt!Ascii[34] /\ AttackOpt!CharOf[66] = AttackOpt!Ascii[35] /\ AttackOpt!CharOf[67] = AttackOpt!Ascii[36]
        /\ AttackOpt!CharOf[68] = AttackOpt!Ascii[37] /\ AttackOpt!CharOf[69] = AttackOpt!Ascii[38] /\ AttackOpt!CharOf[70] = AttackOpt!Ascii[39]
    BY <1>0
  <1>12. /\ AttackOpt!CharOf[97] = AttackOpt!Ascii[66] /\ AttackOpt!CharOf[98] = AttackOpt!Ascii[67] /\ AttackOpt!CharOf[99] = AttackOpt!Ascii[68]
        /\ AttackOpt!CharOf[100] = AttackOpt!Ascii[69] /\ AttackOpt!CharOf[101] = AttackOpt!Ascii[70] /\ AttackOpt!CharOf[102] = AttackOpt!Ascii[71]
    BY <1>0
  <1>1. ASSUME NEW c \in {"A", "B", "C", "D", "E", "F"} PROVE \E b \in 0 .. 255 : AttackOpt!CharOf[b] = c
    BY <1>9, <1>11
  <1>4. ASSUME NEW c \in {"a", "b", "c", "d", "e", "f"} PROVE \E b \in 0 .. 255 : AttackOpt!CharOf[b] = c
    BY <1>10, <1>12
  <1>2. ASSUME NEW d, \E b \in 0 .. 255 : AttackOpt!CharOf[b] = d
        PROVE  AttackOpt!ByteOf[d] \in 0 .. 255
    <2>1. d \in {AttackOpt!CharOf[b] : b \in 0 .. 255}
      BY <1>2
    <2>2. AttackOpt!ByteOf[d] = CHOOSE b \in 0 .. 255 : AttackOpt!CharOf[b] = d
      BY <2>1 DEF AttackOpt!ByteOf
    <2> QED
      BY <1>2, <2>2
  <1>3. ASSUME NEW c PROVE AttackOpt!HexDigitOf(c) \in Int
    <2>1. CASE c \in {"A", "B", "C", "D", "E", "F"}
      <3>1. AttackOpt!ByteOf[c] \in 0 .. 255
        <4>1. \E b \in 0 .. 255 : AttackOpt!CharOf[b] = c
          BY <1>1, <2>1
        <4> QED
          BY <1>2, <4>1
      <3>2. AttackOpt!HexDigitOf(c) = AttackOpt!ByteOf[c] - 55
        BY <2>1 DEF AttackOpt!HexDigitOf
      <3> QED
        BY <3>1, <3>2
    <2>2. CASE c \in {"a", "b", "c", "d", "e", "f"}
      <3>1. AttackOpt!ByteOf[c] \in 0 .. 255
        <4>1. \E b \in 0 .. 255 : AttackOpt!CharOf[b] = c
          BY <1>4, <2>2
        <4> QED
          BY <1>2, <4>1
      <3>2. AttackOpt!HexDigitOf(c) = AttackOpt!ByteOf[c] - 87
        BY <2>2 DEF AttackOpt!HexDigitOf
      <3> QED
        BY <3>1, <3>2
    <2>3. CASE c \notin {"A", "B", "C", "D", "E", "F"} /\ c \notin {"a", "b", "c", "d", "e", "f"}
      <3>1. AttackOpt!HexDigitOf(c) = AttackOpt!DigitOf(c)
        BY <2>3 DEF AttackOpt!HexDigitOf
      <3> QED
        BY <3>1, DigitIs
    <2> QED
      BY <2>1, <2>2, <2>3
  <1> QED
    BY <1>3

LEMMA HextoiIs ==
    ASSUME NEW s, Len(s) \in Nat, DOMAIN s = 1 .. Len(s), AttackOpt!AreHex(s)
    PROVE  AttackOpt!hextoi(s) \in Nat
  <1> DEFINE n == Len(s)
             D(k) == AttackOpt!HexDigitOf(s[k])
             After(h) == h = [k \in 0 .. n |-> IF k = 0 THEN 0 ELSE (16 * h[k - 1]) + D(k)]
             T == [p \in Nat \X (1 .. n) |-> (16 * p[1]) + D(p[2])]
             after == CHOOSE h : After(h)
  <1>1. \A k \in 1 .. n : D(k) \in Nat
    BY HexDigitIs DEF AttackOpt!AreHex
  <1>2. AttackOpt!hextoi(s) = after[n]
    BY DEF AttackOpt!hextoi, AttackOpt!Through
  <1> HIDE DEF D, n
  <1>3. \E h : After(h)
    <2>1. T \in [Nat \X (1 .. n) -> Nat] /\ 0 \in Nat /\ n \in Nat
      BY <1>1 DEF n
    <2>2. \A x \in Nat, k \in 1 .. n : T[<<x, k>>] = (16 * x) + D(k)
      OBVIOUS
    <2> HIDE DEF T
    <2>6. PICK f \in [0 .. n -> Nat] : GoesBy(f, T, 0, n)
      BY <2>1, Recurs
    <2>3. f[0] = 0 /\ \A k \in 1 .. n : f[k] = T[<<f[k - 1], k>>]
      BY <2>6 DEF GoesBy
    <2>4. \A k \in 1 .. n : f[k] = (16 * f[k - 1]) + D(k)
      <3> SUFFICES ASSUME NEW k \in 1 .. n PROVE f[k] = (16 * f[k - 1]) + D(k)
        OBVIOUS
      <3>1. k - 1 \in 0 .. n
        BY <2>1
      <3>2. f[k - 1] \in Nat
        BY <2>3, <3>1
      <3> QED
        BY <2>2, <2>3, <3>2
    <2>5. \A k \in 0 .. n : f[k] = IF k = 0 THEN 0 ELSE (16 * f[k - 1]) + D(k)
      BY <2>1, <2>3, <2>4
    <2>7. f = [k \in 0 .. n |-> f[k]]
      OBVIOUS
    <2>8. After(f)
      BY <2>5, <2>7
    <2> HIDE DEF After
    <2> QED
      BY <2>8
  <1>4. After(after)
    <2> HIDE DEF After
    <2> QED
      BY <1>3, Zenon
  <1> HIDE DEF after
  <1> DEFINE S == {k \in Nat : k <= n => after[k] \in Nat}
  <1>5. n \in Nat
    BY DEF n
  <1>6. 0 \in S
    BY <1>4, <1>5
  <1>7. ASSUME NEW k \in Nat, k \in S PROVE k + 1 \in S
    <2> SUFFICES ASSUME k + 1 <= n PROVE after[k + 1] \in Nat
      OBVIOUS
    <2>1. after[k + 1] = (16 * after[k]) + D(k + 1)
      BY <1>4, <1>5
    <2>2. after[k] \in Nat /\ D(k + 1) \in Nat
      BY <1>1, <1>5, <1>7
    <2> QED
      BY <2>1, <2>2
  <1>8. n \in S
    <2> HIDE DEF S
    <2> QED
      BY <1>5, <1>6, <1>7, NatSetInduction
  <1> QED
    BY <1>2, <1>8

\* The digits of a number that is one: none is a "-".
LEMMA UnsignedIs ==
    ASSUME NEW s, Len(s) \in Nat, DOMAIN s = 1 .. Len(s)
    PROVE  /\ AttackOpt!Unsigned(s) \in Int
           /\ AttackOpt!IsUnsigned(s) => s = << >> \/ s[1] # "-"
  <1> DEFINE n == Len(s)
             Step(x, k) == AttackOpt!NumberStep(x, s[k])
             After(h) == h = [k \in 0 .. n |-> IF k = 0 THEN 0 ELSE Step(h[k - 1], k)]
             T == [p \in Int \X (1 .. n) |-> Step(p[1], p[2])]
             after == CHOOSE h : After(h)
  <1>1. ASSUME NEW x \in Int, NEW k \in 1 .. n
        PROVE  Step(x, k) \in Int /\ (s[k] = "-" \/ x < 0 => Step(x, k) = -1)
    <2>1. AttackOpt!DigitOf(s[k]) \in Int /\ (s[k] = "-" => AttackOpt!DigitOf(s[k]) < 0)
      BY DigitIs
    <2> QED
      BY <2>1 DEF AttackOpt!NumberStep, AttackOpt!MaxTenth
  <1>2. s # << >> => AttackOpt!Unsigned(s) = after[n]
    BY DEF AttackOpt!Unsigned, AttackOpt!Through
  <1>3. n \in Nat
    OBVIOUS
  <1> HIDE DEF Step, n
  <1>4. \E h : After(h)
    <2>1. T \in [Int \X (1 .. n) -> Int] /\ 0 \in Int
      BY <1>1
    <2>2. \A x \in Int, k \in 1 .. n : T[<<x, k>>] = Step(x, k)
      OBVIOUS
    <2> HIDE DEF T
    <2>6. PICK f \in [0 .. n -> Int] : GoesBy(f, T, 0, n)
      BY <1>3, <2>1, Recurs
    <2>3. f[0] = 0 /\ \A k \in 1 .. n : f[k] = T[<<f[k - 1], k>>]
      BY <2>6 DEF GoesBy
    <2>4. \A k \in 1 .. n : f[k] = Step(f[k - 1], k)
      <3> SUFFICES ASSUME NEW k \in 1 .. n PROVE f[k] = Step(f[k - 1], k)
        OBVIOUS
      <3>1. k - 1 \in 0 .. n
        BY <1>3
      <3>2. f[k - 1] \in Int
        BY <2>3, <3>1
      <3> QED
        BY <2>2, <2>3, <3>2
    <2>5. \A k \in 0 .. n : f[k] = IF k = 0 THEN 0 ELSE Step(f[k - 1], k)
      BY <1>3, <2>3, <2>4
    <2>7. f = [k \in 0 .. n |-> f[k]]
      OBVIOUS
    <2>8. After(f)
      BY <2>5, <2>7
    <2> HIDE DEF After
    <2> QED
      BY <2>8
  <1>5. After(after)
    <2> HIDE DEF After
    <2> QED
      BY <1>4, Zenon
  <1> HIDE DEF after
  <1> DEFINE Fine(k) == after[k] \in Int /\ (k >= 1 /\ s[1] = "-" => after[k] = -1)
             S == {k \in Nat : k <= n => Fine(k)}
  <1>6. 0 \in S
    BY <1>3, <1>5
  <1>7. ASSUME NEW k \in Nat, k \in S PROVE k + 1 \in S
    <2> SUFFICES ASSUME k + 1 <= n
                 PROVE  after[k + 1] \in Int /\ (s[1] = "-" => after[k + 1] = -1)
      OBVIOUS
    <2>1. after[k + 1] = Step(after[k], k + 1)
      BY <1>3, <1>5
    <2>2. after[k] \in Int /\ (k >= 1 /\ s[1] = "-" => after[k] < 0) /\ k + 1 \in 1 .. n
      <3>1. after[k] \in Int /\ (k >= 1 /\ s[1] = "-" => after[k] = -1)
        <4>1. k <= n
          BY <1>3
        <4> HIDE DEF Fine
        <4>2. Fine(k)
          BY <1>7, <4>1
        <4> QED
          BY <4>2 DEF Fine
      <3> QED
        BY <1>3, <3>1
    <2> HIDE DEF S
    <2>3. Step(after[k], k + 1) \in Int
          /\ (s[k + 1] = "-" \/ after[k] < 0 => Step(after[k], k + 1) = -1)
      BY <1>1, <2>2
    <2>4. s[1] = "-" => s[k + 1] = "-" \/ after[k] < 0
      BY <2>2
    <2> QED
      BY <2>1, <2>3, <2>4
  <1>8. n \in S
    <2> HIDE DEF S
    <2> QED
      BY <1>3, <1>6, <1>7, NatSetInduction
  <1>9. CASE s = << >>
    BY <1>9 DEF AttackOpt!Unsigned
  <1>10. CASE s # << >>
    <2>1. n >= 1
      BY <1>3, <1>10 DEF n
    <2>3. after[n] \in Int /\ (n >= 1 /\ s[1] = "-" => after[n] = -1)
      <3>1. n <= n
        BY <1>3
      <3> HIDE DEF Fine
      <3>2. Fine(n)
        BY <1>8, <3>1
      <3> QED
        BY <3>2 DEF Fine
    <2>2. AttackOpt!Unsigned(s) = after[n] /\ after[n] \in Int /\ (s[1] = "-" => after[n] = -1)
      BY <1>2, <1>10, <2>1, <2>3
    <2> QED
      BY <2>2 DEF AttackOpt!IsUnsigned
  <1> QED
    BY <1>9, <1>10

LEMMA PartIs ==
    ASSUME NEW s \in Strings, NEW m \in Nat \ {0}, NEW n \in 0 .. Len(s)
    PROVE  LET t == SubSeq(s, m, n)
           IN  /\ Len(t) \in Nat /\ DOMAIN t = 1 .. Len(t)
               /\ n >= m => t[1] = s[m]
  <1>1. m \in Nat /\ n \in Nat /\ \A i \in m .. n : s[i] \in STRING
    BY ElementsOf DEF Strings
  <1>2. /\ SubSeq(s, m, n) \in Seq(STRING)
        /\ \A i \in 1 .. n - m + 1 : SubSeq(s, m, n)[i] = s[m + i - 1]
    BY <1>1, SubSeqProperties
  <1> QED
    BY <1>1, <1>2

LEMMA FactorIs ==
    \A c \in DOMAIN AttackOpt!Factor : /\ AttackOpt!Factor[c].times \in Nat
                                       /\ AttackOpt!Factor[c].least \in Int /\ AttackOpt!Factor[c].most \in Int
  BY DEF AttackOpt!Factor

\* The value of -l and of -t is a number: convertToUint takes no "-".
LEMMA SizeIsNat ==
    ASSUME NEW arg \in Strings, NEW o \in {"t", "l"}, AttackOpt!IsConvertible(o, arg)
    PROVE  AttackOpt!Converted(o, arg) \in Nat
  <1> DEFINE front == AttackOpt!Front(arg)
  <1>1. o \notin AttackTexts /\ o \in AttackSizes
    BY DEF AttackTexts, AttackSizes
  <1>2. Len(arg) \in Nat /\ DOMAIN arg = 1 .. Len(arg)
    BY ElementsOf DEF Strings
  <1>3. ASSUME NEW chars, Len(chars) \in Nat, DOMAIN chars = 1 .. Len(chars), AttackOpt!IsUnsigned(chars)
        PROVE  AttackOpt!IntOf(chars) \in Nat
    <2>1. AttackOpt!Unsigned(chars) \in Int /\ (chars = << >> \/ chars[1] # "-")
      BY <1>3, UnsignedIs
    <2>2. AttackOpt!Unsigned(chars) \in Nat
      BY <1>3, <2>1 DEF AttackOpt!IsUnsigned
    <2>3. ~AttackOpt!IsMinus(chars)
      BY <2>1 DEF AttackOpt!IsMinus
    <2> QED
      BY <2>2, <2>3 DEF AttackOpt!IntOf, AttackOpt!IsLeast
  <1>4. CASE AttackOpt!IsHex(arg)
    <2> DEFINE digits == SubSeq(arg, 3, Len(arg))
    <2>1. Len(digits) \in Nat /\ DOMAIN digits = 1 .. Len(digits)
      BY <1>2, PartIs
    <2>2. AttackOpt!AreHex(digits) /\ AttackOpt!Converted(o, arg) = AttackOpt!hextoi(digits)
      BY <1>1, <1>4 DEF AttackOpt!IsConvertible, AttackOpt!Converted
    <2> HIDE DEF digits
    <2> QED
      BY <2>1, <2>2, HextoiIs
  <1>5. CASE ~AttackOpt!IsHex(arg) /\ AttackOpt!HasFactor(arg)
    <2>1. Len(front) \in Nat /\ DOMAIN front = 1 .. Len(front)
      <3>1. front = SubSeq(arg, 1, Len(arg) - 1) /\ Len(arg) - 1 \in 0 .. Len(arg)
        BY <1>2, <1>5 DEF AttackOpt!Front, AttackOpt!HasFactor
      <3> HIDE DEF front
      <3> QED
        BY <3>1, PartIs
    <2>2. AttackOpt!IsUnsigned(front)
      BY <1>1, <1>5 DEF AttackOpt!IsConvertible, AttackOpt!IsNumber
    <2>3. AttackOpt!Converted(o, arg) = AttackOpt!IntOf(front) * AttackOpt!Factor[AttackOpt!Last(arg)].times
      BY <1>1, <1>5 DEF AttackOpt!Converted
    <2>4. AttackOpt!Factor[AttackOpt!Last(arg)].times \in Nat
      BY <1>5, FactorIs DEF AttackOpt!HasFactor
    <2> HIDE DEF front
    <2>5. AttackOpt!IntOf(front) \in Nat
      BY <1>3, <2>1, <2>2
    <2> QED
      BY <2>3, <2>4, <2>5
  <1>6. CASE ~AttackOpt!IsHex(arg) /\ ~AttackOpt!HasFactor(arg)
    <2>1. AttackOpt!IsUnsigned(arg) /\ AttackOpt!Converted(o, arg) = AttackOpt!IntOf(arg)
      BY <1>1, <1>6 DEF AttackOpt!IsConvertible, AttackOpt!IsNumber, AttackOpt!Converted
    <2> QED
      BY <1>2, <1>3, <2>1
  <1> QED
    BY <1>4, <1>5, <1>6
-----------------------------------------------------------------------------
(* The words of the search by length *)

TblChars == ToSet(PassCharTbl)
Words == [1 .. passLen -> TblChars]
Word(m) == [k \in 1 .. passLen |-> CharAt(m, k)]

LEMMA TableIs ==
    /\ passCharNum \in Nat \ {0}
    /\ \A i \in 1 .. passCharNum : PassCharTbl[i] \in TblChars
    /\ \A x \in TblChars : \E i \in 1 .. passCharNum : PassCharTbl[i] = x
    /\ TblChars \subseteq DOMAIN ByteOf /\ CharOf[0] \notin TblChars
  <1>1. PassCharTbl \in Seq(DOMAIN ByteOf \ {CharOf[0]}) /\ PassCharTbl # << >>
    BY PassCharTblAssumption
  <1> HIDE DEF CharOf
  <1>2. /\ Len(PassCharTbl) \in Nat /\ DOMAIN PassCharTbl = 1 .. Len(PassCharTbl)
        /\ \A i \in 1 .. Len(PassCharTbl) : PassCharTbl[i] \in DOMAIN ByteOf \ {CharOf[0]}
    BY <1>1, ElementsOf
  <1>3. Len(PassCharTbl) # 0
    BY <1>1
  <1> QED
    BY <1>2, <1>3 DEF passCharNum, TblChars, ToSet

LEMMA PowersAre ==
    ASSUME passLen \in Nat
    PROVE  /\ Powers[0] = 1
           /\ \A k \in 1 .. passLen : Powers[k] = Powers[k - 1] * passCharNum
           /\ \A k \in 0 .. passLen : Powers[k] \in Nat \ {0}
  <1> DEFINE n == passLen
             c == passCharNum
             After(h) == h = [k \in 0 .. n |-> IF k = 0 THEN 1 ELSE h[k - 1] * c]
             T == [p \in (Nat \ {0}) \X (1 .. n) |-> p[1] * c]
  <1>1. c \in Nat \ {0}
    BY TableIs
  <1>2. Powers = CHOOSE h : After(h)
    BY DEF Powers
  <1> HIDE DEF c, n
  <1>n. n \in Nat
    BY DEF n
  <1>3. PICK f \in [0 .. n -> Nat \ {0}] : GoesBy(f, T, 1, n)
    <2>0. \A x \in Nat \ {0} : x * c \in Nat \ {0}
      BY <1>1
    <2>1. T \in [(Nat \ {0}) \X (1 .. n) -> Nat \ {0}] /\ 1 \in Nat \ {0}
      BY <2>0
    <2> HIDE DEF T
    <2> QED
      BY <1>n, <2>1, Recurs
  <1>4. f[0] = 1 /\ \A k \in 1 .. n : f[k] = f[k - 1] * c
    <2>1. f[0] = 1 /\ \A k \in 1 .. n : f[k] = T[<<f[k - 1], k>>]
      BY <1>3 DEF GoesBy
    <2>2. \A x \in Nat \ {0}, k \in 1 .. n : T[<<x, k>>] = x * c
      OBVIOUS
    <2>3. \A k \in 1 .. n : f[k - 1] \in Nat \ {0}
      BY <1>n
    <2> HIDE DEF T
    <2> QED
      BY <2>1, <2>2, <2>3
  <1>5. After(f)
    <2>1. \A k \in 0 .. n : f[k] = IF k = 0 THEN 1 ELSE f[k - 1] * c
      BY <1>4, <1>n
    <2>2. f = [k \in 0 .. n |-> f[k]]
      OBVIOUS
    <2> QED
      BY <2>1, <2>2
  <1>6. ASSUME NEW g, After(g) PROVE g = f
    <2> DEFINE S == {k \in Nat : k <= n => g[k] = f[k]}
    <2>1. 0 \in S
      BY <1>4, <1>6, <1>n
    <2>2. ASSUME NEW k \in Nat, k \in S PROVE k + 1 \in S
      <3> SUFFICES ASSUME k + 1 <= n PROVE g[k + 1] = f[k + 1]
        OBVIOUS
      <3>1. g[k + 1] = g[k] * c
        BY <1>6, <1>n
      <3>2. f[k + 1] = f[k] * c
        BY <1>4, <1>n
      <3>3. g[k] = f[k]
        BY <2>2, <1>n
      <3> QED
        BY <3>1, <3>2, <3>3
    <2>3. \A k \in 0 .. n : g[k] = f[k]
      <3>1. Nat \subseteq S
        <4> HIDE DEF S
        <4> QED
          BY <2>1, <2>2, NatSetInduction
      <3> QED
        BY <3>1
    <2>4. g = [k \in 0 .. n |-> g[k]] /\ f = [k \in 0 .. n |-> f[k]]
      <3>1. g = [k \in 0 .. n |-> IF k = 0 THEN 1 ELSE g[k - 1] * c]
        BY <1>6
      <3> QED
        BY <3>1
    <2> QED
      BY <2>3, <2>4
  <1>7. Powers = f
    <2> HIDE DEF After
    <2>1. After(CHOOSE h : After(h))
      BY <1>5, Zenon
    <2> QED
      BY <1>2, <1>6, <2>1
  <1> QED
    BY <1>4, <1>7 DEF n, c

LEMMA DividedIs ==
    ASSUME passLen \in Nat, NEW m \in Nat
    PROVE  /\ Divided(m)[0] = m
           /\ \A i \in 1 .. passLen : Divided(m)[i] = Divided(m)[i - 1] \div passCharNum
           /\ \A i \in 0 .. passLen : Divided(m)[i] \in Nat
  <1> DEFINE n == passLen
             c == passCharNum
             After(h) == h = [k \in 0 .. n |-> IF k = 0 THEN m ELSE h[k - 1] \div c]
             T == [p \in Nat \X (1 .. n) |-> p[1] \div c]
  <1>1. c \in Nat \ {0}
    BY TableIs
  <1>2. Divided(m) = CHOOSE h : After(h)
    BY DEF Divided
  <1> HIDE DEF c, n
  <1>n. n \in Nat
    BY DEF n
  <1>3. PICK f \in [0 .. n -> Nat] : GoesBy(f, T, m, n)
    <2>0. \A x \in Nat : x \div c \in Nat
      BY <1>1
    <2>1. T \in [Nat \X (1 .. n) -> Nat]
      BY <2>0
    <2> HIDE DEF T
    <2> QED
      BY <1>n, <2>1, Recurs
  <1>4. f[0] = m /\ \A k \in 1 .. n : f[k] = f[k - 1] \div c
    <2>1. f[0] = m /\ \A k \in 1 .. n : f[k] = T[<<f[k - 1], k>>]
      BY <1>3 DEF GoesBy
    <2>2. \A x \in Nat, k \in 1 .. n : T[<<x, k>>] = x \div c
      OBVIOUS
    <2>3. \A k \in 1 .. n : f[k - 1] \in Nat
      BY <1>n
    <2> HIDE DEF T
    <2> QED
      BY <2>1, <2>2, <2>3
  <1>5. After(f)
    <2>1. \A k \in 0 .. n : f[k] = IF k = 0 THEN m ELSE f[k - 1] \div c
      BY <1>4, <1>n
    <2>2. f = [k \in 0 .. n |-> f[k]]
      OBVIOUS
    <2> QED
      BY <2>1, <2>2
  <1>6. ASSUME NEW g, After(g) PROVE g = f
    <2> DEFINE S == {k \in Nat : k <= n => g[k] = f[k]}
    <2>1. 0 \in S
      BY <1>4, <1>6, <1>n
    <2>2. ASSUME NEW k \in Nat, k \in S PROVE k + 1 \in S
      <3> SUFFICES ASSUME k + 1 <= n PROVE g[k + 1] = f[k + 1]
        OBVIOUS
      <3>1. g[k + 1] = g[k] \div c
        BY <1>6, <1>n
      <3>2. f[k + 1] = f[k] \div c
        BY <1>4, <1>n
      <3>3. g[k] = f[k]
        BY <2>2, <1>n
      <3> QED
        BY <3>1, <3>2, <3>3
    <2>3. \A k \in 0 .. n : g[k] = f[k]
      <3>1. Nat \subseteq S
        <4> HIDE DEF S
        <4> QED
          BY <2>1, <2>2, NatSetInduction
      <3> QED
        BY <3>1
    <2>4. g = [k \in 0 .. n |-> g[k]] /\ f = [k \in 0 .. n |-> f[k]]
      <3>1. g = [k \in 0 .. n |-> IF k = 0 THEN m ELSE g[k - 1] \div c]
        BY <1>6
      <3> QED
        BY <3>1
    <2> QED
      BY <2>3, <2>4
  <1>7. Divided(m) = f
    <2> HIDE DEF After
    <2>1. After(CHOOSE h : After(h))
      BY <1>5, Zenon
    <2> QED
      BY <1>2, <1>6, <2>1
  <1> QED
    BY <1>4, <1>7 DEF n, c

LEMMA CharAtIs ==
    ASSUME passLen \in Nat, NEW m \in Nat
    PROVE  Word(m) \in Words /\ \A k \in 1 .. passLen : CharAt(m, k) \in TblChars
  <1>1. ASSUME NEW k \in 1 .. passLen PROVE CharAt(m, k) \in TblChars
    <2>1. Divided(m)[passLen - k] \in Nat
      <3>1. passLen - k \in 0 .. passLen
        OBVIOUS
      <3> QED
        BY <3>1, DividedIs
    <2>2. (Divided(m)[passLen - k] % passCharNum) + 1 \in 1 .. passCharNum
      <3>1. passCharNum \in Nat \ {0}
        BY TableIs
      <3> HIDE DEF passCharNum, passLen
      <3> QED
        BY <2>1, <3>1
    <2> QED
      BY <2>2, TableIs DEF CharAt
  <1> QED
    BY <1>1 DEF Word, Words

LEMMA DivisionBy ==
    ASSUME NEW c \in Nat \ {0}, NEW v \in Nat, NEW e \in 0 .. c - 1
    PROVE  ((v * c) + e) \div c = v /\ ((v * c) + e) % c = e
  OBVIOUS

LEMMA Shifted ==
    ASSUME passLen \in Nat, NEW v \in Nat, NEW e \in 0 .. passCharNum - 1
    PROVE  \A i \in 1 .. passLen : Divided((v * passCharNum) + e)[i] = Divided(v)[i - 1]
  <1> DEFINE n == passLen
             c == passCharNum
             m == (v * c) + e
             S == {i \in Nat : i + 1 <= n => Divided(m)[i + 1] = Divided(v)[i]}
  <1>1. c \in Nat \ {0} /\ n \in Nat
    BY TableIs
  <1>2. m \in Nat /\ m \div c = v
    <2>1. v * c \in Nat /\ e \in Nat /\ e < c
      BY <1>1
    <2> HIDE DEF c
    <2>2. (v * c + e) \div c = v
      BY <1>1, <2>1, DivisionBy
    <2> QED
      BY <2>1, <2>2
  <1> HIDE DEF m
  <1>3. /\ Divided(m)[0] = m
        /\ \A i \in 1 .. n : Divided(m)[i] = Divided(m)[i - 1] \div c
    BY <1>2, DividedIs
  <1>4. /\ Divided(v)[0] = v
        /\ \A i \in 1 .. n : Divided(v)[i] = Divided(v)[i - 1] \div c
    BY DividedIs
  <1> HIDE DEF n, c
  <1>5. 0 \in S
    BY <1>1, <1>2, <1>3, <1>4
  <1>6. ASSUME NEW i \in Nat, i \in S PROVE i + 1 \in S
    <2> SUFFICES ASSUME (i + 1) + 1 <= n PROVE Divided(m)[(i + 1) + 1] = Divided(v)[i + 1]
      OBVIOUS
    <2>1. Divided(m)[(i + 1) + 1] = Divided(m)[i + 1] \div c
      BY <1>1, <1>3
    <2>2. Divided(v)[i + 1] = Divided(v)[i] \div c
      BY <1>1, <1>4
    <2>3. Divided(m)[i + 1] = Divided(v)[i]
      BY <1>1, <1>6
    <2> QED
      BY <2>1, <2>2, <2>3
  <1>7. Nat \subseteq S
    <2> HIDE DEF S
    <2> QED
      BY <1>5, <1>6, NatSetInduction
  <1>8. ASSUME NEW i \in 1 .. n PROVE Divided(m)[i] = Divided(v)[i - 1]
    <2>1. i - 1 \in Nat /\ (i - 1) + 1 = i
      BY <1>1
    <2>2. i - 1 \in S
      <3> HIDE DEF S
      <3> QED
        BY <1>7, <2>1
    <2> QED
      BY <1>1, <2>1, <2>2
  <1> QED
    BY <1>8 DEF m, n, c

LEMMA BelowNext ==
    ASSUME NEW c \in Nat \ {0}, NEW p \in Nat, NEW v \in 0 .. p - 1, NEW e \in 0 .. c - 1
    PROVE  (v * c) + e \in 0 .. (p * c) - 1
  <1> DEFINE r == (p - 1) - v
  <1>1. r \in Nat /\ p = (v + r) + 1
    OBVIOUS
  <1> HIDE DEF r
  <1>2. p * c = ((v * c) + (r * c)) + c
    BY <1>1
  <1>3. v * c \in Nat /\ r * c \in Nat
    BY <1>1
  <1> QED
    BY <1>2, <1>3

\* Any digits are those of an index below the number of words.
LEMMA EveryNumber ==
    ASSUME passLen \in Nat
    PROVE  \A d \in [0 .. passLen - 1 -> 0 .. passCharNum - 1] :
             \E m \in 0 .. passNum - 1 : \A i \in 0 .. passLen - 1 : Divided(m)[i] % passCharNum = d[i]
  <1> DEFINE n == passLen
             c == passCharNum
             D == [0 .. n - 1 -> 0 .. c - 1]
             Has(d, k) == \E m \in 0 .. Powers[k] - 1 : \A i \in 0 .. k - 1 : Divided(m)[i] % c = d[i]
             S == {k \in Nat : k <= n => \A d \in D : Has(d, k)}
  <1>1. c \in Nat \ {0} /\ n \in Nat
    BY TableIs
  <1>2. Powers[0] = 1 /\ \A k \in 1 .. n : Powers[k] = Powers[k - 1] * c
    BY PowersAre
  <1>3. \A k \in 0 .. n : Powers[k] \in Nat \ {0}
    BY PowersAre
  <1>4. \A v \in Nat, e \in 0 .. c - 1, i \in 1 .. n : Divided((v * c) + e)[i] = Divided(v)[i - 1]
    BY Shifted
  <1>5. \A m \in Nat : Divided(m)[0] = m
    BY DividedIs
  <1>6. passNum = Powers[n]
    BY DEF passNum
  <1> HIDE DEF n, c
  <1>7. 0 \in S
    <2> SUFFICES ASSUME NEW d \in D PROVE Has(d, 0)
      OBVIOUS
    <2>1. 0 \in 0 .. Powers[0] - 1
      BY <1>2
    <2> QED
      BY <2>1
  <1>8. ASSUME NEW k \in Nat, k \in S PROVE k + 1 \in S
    <2> SUFFICES ASSUME k + 1 <= n, NEW d \in D PROVE Has(d, k + 1)
      OBVIOUS
    <2> DEFINE up == [i \in 0 .. n - 1 |-> IF i + 1 <= n - 1 THEN d[i + 1] ELSE 0]
    <2>1. up \in D
      BY <1>1
    <2>2. \A i \in 0 .. k - 1 : up[i] = d[i + 1]
      BY <1>1
    <2> HIDE DEF up
    <2>3. Has(up, k)
      <3>1. k <= n => \A q \in D : Has(q, k)
        BY <1>8
      <3>2. k <= n
        BY <1>1
      <3> HIDE DEF Has, D
      <3> QED
        BY <2>1, <3>1, <3>2
    <2>4. PICK v \in 0 .. Powers[k] - 1 : \A i \in 0 .. k - 1 : Divided(v)[i] % c = up[i]
      BY <2>3
    <2> DEFINE m == (v * c) + d[0]
    <2>5. d[0] \in 0 .. c - 1
      BY <1>1
    <2>6. Powers[k] \in Nat \ {0} /\ Powers[k + 1] = Powers[k] * c
      BY <1>1, <1>2, <1>3
    <2>7. v \in Nat
      BY <2>6
    <2>8. m \in 0 .. Powers[k + 1] - 1 /\ m \in Nat
      <3>1. m \in 0 .. (Powers[k] * c) - 1
        BY <1>1, <2>5, <2>6, BelowNext
      <3> HIDE DEF m
      <3> QED
        BY <2>6, <3>1
    <2>9. m % c = d[0]
      BY <1>1, <2>5, <2>7, DivisionBy
    <2>10. \A i \in 1 .. n : Divided(m)[i] = Divided(v)[i - 1]
      BY <1>4, <2>5, <2>7
    <2> HIDE DEF m
    <2>11. ASSUME NEW i \in 0 .. (k + 1) - 1 PROVE Divided(m)[i] % c = d[i]
      <3>1. CASE i = 0
        BY <1>5, <2>8, <2>9, <3>1
      <3>2. CASE i # 0
        <4>1. i \in 1 .. n /\ i - 1 \in 0 .. k - 1 /\ (i - 1) + 1 = i
          BY <1>1, <3>2
        <4> QED
          BY <2>2, <2>4, <2>10, <4>1
      <3> QED
        BY <3>1, <3>2
    <2> QED
      BY <2>8, <2>11
  <1>9. n \in S
    <2>1. Nat \subseteq S
      <3> HIDE DEF S
      <3> QED
        BY <1>7, <1>8, NatSetInduction
    <2> QED
      BY <1>1, <2>1
  <1>10. \A d \in D : Has(d, n)
    BY <1>1, <1>9
  <1> QED
    BY <1>6, <1>10 DEF n, c

\* Every word over the table is tried at some index.
LEMMA EveryWord ==
    ASSUME passLen \in Nat, NEW w \in Words
    PROVE  \E m \in 0 .. passNum - 1 : Word(m) = w
  <1> DEFINE n == passLen
             c == passCharNum
             At(x) == CHOOSE i \in 1 .. c : PassCharTbl[i] = x
             d == [i \in 0 .. n - 1 |-> At(w[n - i]) - 1]
  <1>1. n \in Nat /\ w \in [1 .. n -> TblChars]
    BY DEF Words
  <1>2. \A x \in TblChars : At(x) \in 1 .. c /\ PassCharTbl[At(x)] = x
    BY TableIs
  <1>3. \A m, k : CharAt(m, k) = PassCharTbl[(Divided(m)[n - k] % c) + 1]
    BY DEF CharAt
  <1>4. \A m : Word(m) = [k \in 1 .. n |-> CharAt(m, k)]
    BY DEF Word
  <1>c. c \in Nat
    BY TableIs
  <1> HIDE DEF n, c
  <1> HIDE DEF At
  <1>5. d \in [0 .. n - 1 -> 0 .. c - 1]
    <2> SUFFICES ASSUME NEW i \in 0 .. n - 1 PROVE At(w[n - i]) - 1 \in 0 .. c - 1
      OBVIOUS
    <2>1. n - i \in 1 .. n
      BY <1>1
    <2>2. At(w[n - i]) \in 1 .. c
      BY <1>1, <1>2, <2>1
    <2> QED
      BY <1>c, <2>2
  <1>6. \A i \in 0 .. n - 1 : d[i] = At(w[n - i]) - 1
    OBVIOUS
  <1> HIDE DEF d
  <1>7. PICK m \in 0 .. passNum - 1 : \A i \in 0 .. n - 1 : Divided(m)[i] % c = d[i]
    BY <1>5, EveryNumber DEF n, c
  <1>8. ASSUME NEW k \in 1 .. n PROVE CharAt(m, k) = w[k]
    <2>1. n - k \in 0 .. n - 1 /\ n - (n - k) = k
      BY <1>1
    <2>2. Divided(m)[n - k] % c = At(w[k]) - 1
      BY <1>6, <1>7, <2>1
    <2>3. w[k] \in TblChars
      BY <1>1
    <2>4. At(w[k]) \in 1 .. c /\ PassCharTbl[At(w[k])] = w[k]
      BY <1>2, <2>3
    <2> QED
      BY <1>3, <1>c, <2>2, <2>4
  <1>9. Word(m) = [k \in 1 .. n |-> w[k]]
    BY <1>4, <1>8
  <1> QED
    BY <1>1, <1>9
-----------------------------------------------------------------------------
(* The search by length *)

\* What parse has made of -l.
ValueIsSize ==
    Command.program = "attack" => DOMAIN value = DOMAIN AttackDefault /\ value.l \in Nat

LEMMA AttackDefaultIs ==
    AttackDefault.l = 0 /\ "l" \in DOMAIN AttackDefault
  BY DEF AttackDefault

LEMMA SizePass ==
    ASSUME argv \in Seq(Strings), pos \in Nat \ {0}, AttackOpt!ParseNext,
           DOMAIN value = DOMAIN AttackDefault, value.l \in Nat
    PROVE  DOMAIN value' = DOMAIN AttackDefault /\ value'.l \in Nat
  <1> DEFINE Goal == DOMAIN value' = DOMAIN AttackDefault /\ value'.l \in Nat
  <1>1. ASSUME NEW o, NEW v, NEW p, AttackOpt!Take(o, v, p), o = "l" => v \in Nat PROVE Goal
    BY <1>1, AttackDefaultIs DEF AttackOpt!Take
  <1>2. CASE UNCHANGED value
    BY <1>2
  <1> HIDE DEF Goal
  <1>3. CASE AttackOpt!ReadFlag
    <2>1. PICK o \in AttackFlags : \E v, p : AttackOpt!Take(o, v, p)
      BY <1>3, Zenon DEF AttackOpt!ReadFlag, AttackOpt!Named
    <2>2. o # "l"
      BY DEF AttackFlags
    <2> QED
      BY <1>1, <2>1, <2>2 DEF Goal
  <1>4. CASE AttackOpt!ReadValue
    <2>1. PICK o \in AttackTexts \cup AttackSizes :
             IF pos = Len(argv) THEN AttackOpt!Refuse
             ELSE IF ~AttackOpt!IsConvertible(o, argv[pos + 1]) THEN AttackOpt!Refuse
             ELSE AttackOpt!Take(o, AttackOpt!Converted(o, argv[pos + 1]), AttackOpt!AfterValue)
      BY <1>4 DEF AttackOpt!ReadValue, AttackOpt!Named
    <2>2. pos <= Len(argv)
      BY <1>4 DEF AttackOpt!ReadValue, AttackOpt!Reads
    <2>3. CASE AttackOpt!Refuse
      BY <1>2, <2>3 DEF AttackOpt!Refuse, Goal
    <2>4. CASE ~AttackOpt!Refuse
      <3>1. /\ pos # Len(argv) /\ AttackOpt!IsConvertible(o, argv[pos + 1])
            /\ AttackOpt!Take(o, AttackOpt!Converted(o, argv[pos + 1]), AttackOpt!AfterValue)
        BY <2>1, <2>4
      <3>2. pos + 1 \in 1 .. Len(argv)
        BY <2>2, <3>1
      <3>3. argv[pos + 1] \in Strings
        BY <3>2
      <3>4. o = "l" => AttackOpt!Converted(o, argv[pos + 1]) \in Nat
        <4> SUFFICES ASSUME o = "l" PROVE AttackOpt!Converted(o, argv[pos + 1]) \in Nat
          OBVIOUS
        <4>1. o \in {"t", "l"}
          OBVIOUS
        <4> QED
          BY <3>1, <3>3, <4>1, SizeIsNat
      <3> QED
        BY <1>1, <3>1, <3>4 DEF Goal
    <2> QED
      BY <2>3, <2>4
  <1>5. CASE AttackOpt!ReadParam
    <2> DEFINE unset == {i \in DOMAIN AttackParams : AttackParams[i] \notin isSet}
    <2>1. \/ AttackOpt!Refuse
          \/ unset # {} /\ AttackOpt!Take(AttackParams[AttackOpt!Min(unset)], AttackOpt!Arg, pos + 1)
      BY <1>5 DEF AttackOpt!ReadParam
    <2>2. CASE AttackOpt!Refuse
      BY <1>2, <2>2 DEF AttackOpt!Refuse, Goal
    <2>3. CASE unset # {} /\ AttackOpt!Take(AttackParams[AttackOpt!Min(unset)], AttackOpt!Arg, pos + 1)
      <3>1. unset \subseteq {1}
        BY DEF AttackParams
      <3> HIDE DEF unset
      <3>2. AttackOpt!Min(unset) = 1
        <4>1. unset \subseteq Nat /\ unset # {}
          BY <2>3, <3>1
        <4>2. AttackOpt!Min(unset) \in unset
          BY <4>1, LeastOf
        <4> QED
          BY <3>1, <4>2
      <3>3. AttackParams[1] # "l"
        BY DEF AttackParams
      <3> QED
        BY <1>1, <2>3, <3>2, <3>3 DEF Goal
    <2> QED
      BY <2>1, <2>2, <2>3
  <1>6. CASE AttackOpt!ReadHelp \/ AttackOpt!BadOption \/ AttackOpt!EndOfArguments
    BY <1>2, <1>6 DEF AttackOpt!ReadHelp, AttackOpt!BadOption, AttackOpt!EndOfArguments, AttackOpt!Refuse, Goal
  <1> QED
    BY <1>3, <1>4, <1>5, <1>6 DEF AttackOpt!ParseNext, Goal

LEMMA ValueIsSizeInit == Init => ValueIsSize
  <1> SUFFICES ASSUME Init PROVE ValueIsSize
    OBVIOUS
  <1>1. value = DefaultOf(commands[1]) /\ nth = 1
    BY DEF Init, Crypt!ParseInit
  <1> QED
    BY <1>1, AttackDefaultIs DEF ValueIsSize, Command, DefaultOf

LEMMA ValueIsSizeNext == InputIsText /\ ValueIsSize /\ [Next]_vars => ValueIsSize'
  <1> SUFFICES ASSUME InputIsText, ValueIsSize, [Next]_vars PROVE ValueIsSize'
    OBVIOUS
  <1>1. ASSUME UNCHANGED <<value, nth, commands>> PROVE ValueIsSize'
    BY <1>1 DEF ValueIsSize, Command
  <1>2. CASE RunAgain
    <2>1. value' = DefaultOf(commands[nth + 1]) /\ Command' = commands[nth + 1]
      BY <1>2 DEF RunAgain, Crypt!ParseAgain, Command
    <2> QED
      BY <2>1, AttackDefaultIs DEF ValueIsSize, DefaultOf
  <1>3. CASE Parse
    <2>1. Command' = Command
      BY <1>3 DEF Parse, Command
    <2> SUFFICES ASSUME Command.program = "attack"
                 PROVE  DOMAIN value' = DOMAIN AttackDefault /\ value'.l \in Nat
      BY <2>1 DEF ValueIsSize
    <2>2. AttackOpt!ParseNext
      BY <1>3 DEF Parse
    <2> QED
      BY <2>2, SizePass DEF InputIsText, ValueIsSize
  <1>4. CASE RunCrypt \/ RunAttack \/ Usage
    BY <1>1, <1>4 DEF RunCrypt, RunAttack, Usage, typedLine
  <1>5. CASE Finished \/ UNCHANGED vars
    BY <1>1, <1>5 DEF Finished, vars
  <1> QED
    BY <1>2, <1>3, <1>4, <1>5 DEF Next

\* What the search has tried, and what of it opens the file.
Tries ==
    /\ idx \in 0 .. passNum
    /\ ~WritesOutside =>
        /\ pass = << >> \/ pass \in [1 .. passLen -> DOMAIN ByteOf]
        /\ passLen > passCharNum => /\ pass = << >> \/ pass[1] = CharOf[0]
                                    /\ \A t \in tried : t[1] = CharOf[0]
        /\ passLen = passCharNum => /\ tried \subseteq Words
                                    /\ \A m \in 0 .. idx - 1 : Word(m) \in tried
Finds ==
    IsAgile(target) /\ ~WritesOutside =>
        /\ value.d = << >> => \A w \in found : IsWord(w)
        /\ found = {} => \A t \in tried : ~Opens(Widened(t))
Ends ==
    /\ ret = Crashed => WritesOutside
    /\ ret = 0 /\ found = {} => idx = passNum

LengthInv ==
    /\ phase # "length" => idx = 0 /\ pass = << >> /\ tried = {}
    /\ phase = "options" => found = {}
    /\ phase = "length" => Tries /\ Finds /\ Ends

SearchInv == InputIsText /\ DictInv /\ ValueIsSize /\ LengthInv

LEMMA SizeOfSearch ==
    ASSUME DictInv, ValueIsSize, phase # "options"
    PROVE  passLen \in Nat /\ passNum \in Nat \ {0}
  <1>1. passLen \in Nat
    BY DEF DictInv, Searching, ValueIsSize, passLen
  <1>2. passLen \in 0 .. passLen
    BY <1>1
  <1> QED
    BY <1>1, <1>2, PowersAre DEF passNum

\* The password after the next pass.
LEMMA PassIs ==
    ASSUME passLen \in Nat, passNum \in Nat, Tries, ~WritesOutside, NEW p, p = setPass(pass, idx)
    PROVE  /\ p \in [1 .. passLen -> DOMAIN ByteOf]
           /\ passLen > passCharNum => p[1] = CharOf[0]
           /\ passLen = passCharNum => p = Word(idx)
  <1>1. idx \in Nat
    BY DEF Tries
  <1>2. \A k \in 1 .. passLen : CharAt(idx, k) \in TblChars
    BY <1>1, CharAtIs
  <1>3. TblChars \subseteq DOMAIN ByteOf /\ passCharNum \in Nat \ {0}
    BY TableIs
  <1>4. CharOf[0] \in DOMAIN ByteOf
    BY ByteOfIs
  <1> HIDE DEF CharOf
  <1>5. p = [k \in 1 .. passLen |->
                IF passLen - k < passCharNum THEN CharAt(idx, k)
                ELSE IF pass = << >> THEN CharOf[0] ELSE pass[k]]
    BY DEF setPass
  <1>6. pass = << >> \/ pass \in [1 .. passLen -> DOMAIN ByteOf]
    BY DEF Tries
  <1>7. passLen > passCharNum => pass = << >> \/ pass[1] = CharOf[0]
    BY DEF Tries
  <1> HIDE DEF passLen, passCharNum
  <1>8. p \in [1 .. passLen -> DOMAIN ByteOf]
    BY <1>2, <1>3, <1>4, <1>5, <1>6
  <1>9. ASSUME passLen > passCharNum PROVE p[1] = CharOf[0]
    <2>1. 1 \in 1 .. passLen /\ ~(passLen - 1 < passCharNum)
      BY <1>3, <1>9
    <2> QED
      BY <1>5, <1>7, <1>9, <2>1
  <1>10. ASSUME passLen = passCharNum PROVE p = Word(idx)
    <2>1. \A k \in 1 .. passLen : passLen - k < passCharNum
      BY <1>3, <1>10
    <2> QED
      BY <1>5, <2>1 DEF Word
  <1> QED
    BY <1>8, <1>9, <1>10

LEMMA LengthInvInit == Init => LengthInv
  BY DEF Init, SearchInit, LengthInv

LEMMA OpensWord ==
    ASSUME IsAgile(target), NEW p \in Seq(DOMAIN ByteOf)
    PROVE  Bytes(p) \in ByteTexts /\ (IsWord(Bytes(p)) <=> Opens(Widened(p)))
  <1>1. Bytes(p) \in ByteTexts
    BY BytesIs
  <1> QED
    BY <1>1, OpensIs DEF IsWord, Widened

\* A check and what comes before it; nothing is known of a string that was written
\* before its beginning but that something is tried or the search ends.
LEMMA TryIs ==
    ASSUME TryNext
    PROVE  \/ UNCHANGED <<idx, pass, tried, found>> /\ (ret' = 1 \/ (WritesOutside /\ ret' = Crashed))
           \/ Try(setPass(pass, idx), IsAgile(target) /\ Opens(Widened(setPass(pass, idx))))
           \/ WritesOutside /\ \E p, opens : Try(p, opens)
  <1>1. CASE Returns(1) \/ (WritesOutside /\ Returns(Crashed))
    BY <1>1 DEF TryNext, Returns
  <1> QED
    BY <1>1 DEF TryNext

LEMMA TryKeeps ==
    ASSUME passLen \in Nat, passNum \in Nat, Tries, Finds, TryNext, UNCHANGED <<typedLine, nth, commands>>
    PROVE  Tries' /\ Finds' /\ Ends'
  <1>1. value' = value /\ files' = files
    BY SearchLeaves DEF typedLine, AttackNext
  <1>2. /\ target' = target /\ passLen' = passLen /\ passNum' = passNum /\ passCharNum' = passCharNum
        /\ Words' = Words /\ (\A m : Word(m)' = Word(m)) /\ WritesOutside' = WritesOutside
        /\ IsAgile(target)' = IsAgile(target)
        /\ (\A w : IsWord(w)' = IsWord(w)) /\ (\A w : Opens(w)' = Opens(w))
    BY <1>1 DEF target, passLen, passNum, passCharNum, Words, Word, CharAt, Divided, Powers, WritesOutside,
                IsWord, Opens, IsAgile
  <1>3. idx \in 0 .. passNum /\ idx < passNum /\ ret = Running
    BY DEF Tries, TryNext
  <1>4. CASE UNCHANGED <<idx, pass, tried, found>> /\ (ret' = 1 \/ (WritesOutside /\ ret' = Crashed))
    <2>1. Tries'
      BY <1>2, <1>4 DEF Tries
    <2>2. Finds'
      BY <1>1, <1>2, <1>4 DEF Finds
    <2>3. Ends'
      BY <1>2, <1>4 DEF Ends, Crashed
    <2> QED
      BY <2>1, <2>2, <2>3
  <1>5. CASE ~WritesOutside /\ Try(setPass(pass, idx), IsAgile(target) /\ Opens(Widened(setPass(pass, idx))))
    <2> DEFINE p == setPass(pass, idx)
               hit == IsAgile(target) /\ Opens(Widened(p))
    <2>1. /\ p \in [1 .. passLen -> DOMAIN ByteOf]
          /\ passLen > passCharNum => p[1] = CharOf[0]
          /\ passLen = passCharNum => p = Word(idx)
      BY <1>5, PassIs
    <2>2. pass' = p /\ tried' = tried \cup {p}
      BY <1>5 DEF Try
    <2>3. /\ hit => found' = found \cup {Bytes(p)} /\ ret' = 0 /\ idx' = idx
          /\ ~hit => found' = found /\ ret' = ret /\ idx' = idx + 1
      BY <1>5 DEF Try, Leave, Returns
    <2>4. passLen = passCharNum => Word(idx) \in Words
      BY <1>3, CharAtIs
    <2> HIDE DEF p, hit, CharOf
    <2>5. idx' \in 0 .. passNum /\ (idx' = idx \/ idx' = idx + 1)
      BY <1>3, <2>3
    <2>6. Tries'
      <3>1. passLen > passCharNum => \A t \in tried' : t[1] = CharOf[0]
        BY <1>5, <2>1, <2>2 DEF Tries
      <3>2. passLen = passCharNum => tried' \subseteq Words
        BY <1>5, <2>1, <2>2, <2>4 DEF Tries
      <3>3. ASSUME passLen = passCharNum, NEW m \in 0 .. idx' - 1 PROVE Word(m) \in tried'
        <4>1. idx \in Int /\ (idx' = idx \/ idx' = idx + 1)
          BY <1>3, <2>5
        <4>2. m \in 0 .. idx - 1 \/ m = idx
          BY <4>1
        <4> QED
          BY <1>5, <2>1, <2>2, <3>3, <4>2 DEF Tries
      <3> QED
        BY <1>2, <2>1, <2>2, <2>5, <3>1, <3>2, <3>3 DEF Tries
    <2>7. Finds'
      <3> SUFFICES ASSUME IsAgile(target)
                   PROVE  /\ value.d = << >> => \A w \in found' : IsWord(w)
                          /\ found' = {} => \A t \in tried' : ~Opens(Widened(t))
        BY <1>1, <1>2 DEF Finds
      <3>1. p \in Seq(DOMAIN ByteOf)
        BY <2>1
      <3>2. IsWord(Bytes(p)) <=> Opens(Widened(p))
        BY <3>1, OpensWord
      <3>3. hit <=> Opens(Widened(p))
        BY DEF hit
      <3> QED
        BY <1>5, <2>2, <2>3, <3>2, <3>3 DEF Finds
    <2>8. Ends'
      <3>1. hit => found' # {}
        BY <2>3
      <3> QED
        BY <1>3, <2>3, <3>1 DEF Ends, Running, Crashed
    <2> QED
      BY <2>6, <2>7, <2>8
  <1>6. CASE WritesOutside /\ \E p, opens : Try(p, opens)
    <2>1. PICK p, opens : Try(p, opens)
      BY <1>6
    <2>2. \/ found' = found \cup {Bytes(p)} /\ ret' \in {0, Crashed} /\ idx' = idx
          \/ ret' = ret /\ idx' = idx + 1
      BY <2>1 DEF Try, Leave, Returns
    <2>3. Tries'
      BY <1>2, <1>3, <1>6, <2>2 DEF Tries
    <2>4. Finds'
      BY <1>2, <1>6 DEF Finds
    <2>5. Ends'
      BY <1>2, <1>3, <1>6, <2>2 DEF Ends, Running, Crashed
    <2> QED
      BY <2>3, <2>4, <2>5
  <1>7. \/ UNCHANGED <<idx, pass, tried, found>> /\ (ret' = 1 \/ (WritesOutside /\ ret' = Crashed))
        \/ ~WritesOutside /\ Try(setPass(pass, idx), IsAgile(target) /\ Opens(Widened(setPass(pass, idx))))
        \/ WritesOutside /\ \E p, opens : Try(p, opens)
    BY TryIs
  <1> QED
    BY <1>4, <1>5, <1>6, <1>7

LEMMA LengthInvNext ==
    ASSUME DictInv, ValueIsSize, LengthInv, [Next]_vars
    PROVE  LengthInv'
  <1>1. ASSUME phase # "options", UNCHANGED <<value, files, nth, ret, search, commands>> PROVE LengthInv'
    <2>1. UNCHANGED <<value, files, ret, phase, idx, pass, tried, found>>
      BY <1>1 DEF search
    <2>2. /\ target' = target /\ passLen' = passLen /\ passNum' = passNum /\ passCharNum' = passCharNum
          /\ Words' = Words /\ (\A m : Word(m)' = Word(m)) /\ WritesOutside' = WritesOutside
      BY <2>1 DEF target, passLen, passNum, passCharNum, Words, Word, CharAt, Divided, Powers, WritesOutside
    <2>3. Tries => Tries'
      BY <2>1, <2>2 DEF Tries
    <2>4. Finds => Finds'
      BY <2>1, <2>2 DEF Finds, IsAgile, IsWord, Opens
    <2>5. Ends => Ends'
      BY <2>1, <2>2 DEF Ends
    <2> QED
      BY <2>1, <2>3, <2>4, <2>5 DEF LengthInv
  <1>2. ASSUME phase = "options", UNCHANGED search PROVE LengthInv'
    BY <1>2 DEF LengthInv, search
  <1>3. CASE RunAgain
    BY <1>3 DEF RunAgain, SearchAgain, LengthInv
  <1>4. CASE Parse
    <2>1. phase = "options"
      BY <1>4, ParseIsFirst DEF DictInv, Searching
    <2> QED
      BY <1>2, <1>4, <2>1 DEF Parse
  <1>5. CASE RunCrypt
    <2>1. phase = "options"
      BY <1>5 DEF RunCrypt, DictInv, Searching
    <2> QED
      BY <1>2, <1>5, <2>1 DEF RunCrypt
  <1>6. CASE RunAttack
    <2>1. AttackNext /\ Command.program = "attack" /\ UNCHANGED <<typedLine, nth, commands>> /\ files' = files
      BY <1>6, SearchLeaves DEF RunAttack
    <2>2. value' = value /\ target' = target /\ passLen' = passLen
      BY <2>1 DEF typedLine, target, passLen
    <2>3. passLen \in Nat /\ passNum \in Nat \ {0}
      <3>1. passLen \in Nat
        BY <2>1 DEF ValueIsSize, passLen
      <3>2. passLen \in 0 .. passLen
        BY <3>1
      <3> QED
        BY <3>1, <3>2, PowersAre DEF passNum
    <2>4. ASSUME phase # "length", phase' = "length", UNCHANGED <<idx, pass, tried>>, ret' = Running,
                 value.d = << >> => found' = {}
          PROVE  LengthInv'
      <3>1. passNum' = passNum /\ passCharNum' = passCharNum
        BY <2>1, <2>2 DEF passNum, passCharNum, Powers, passLen
      <3>2. idx' = 0 /\ pass' = << >> /\ tried' = {}
        BY <2>4 DEF LengthInv
      <3>3. Running # 0 /\ Running # Crashed
        BY DEF Running, Crashed
      <3>4. Tries'
        BY <2>2, <2>3, <3>1, <3>2 DEF Tries
      <3>5. Finds'
        BY <2>1, <2>2, <2>4, <3>2 DEF Finds
      <3>6. Ends'
        BY <2>4, <3>3 DEF Ends
      <3> QED
        BY <2>4, <3>4, <3>5, <3>6 DEF LengthInv
    <2>5. CASE AttackMain
      <3>1. phase = "options" /\ UNCHANGED <<idx, pass, tried, found>>
        BY <2>5 DEF AttackMain
      <3>2. phase' = "options" \/ phase' = "dictionary" \/ (phase' = "length" /\ ret' = Running)
        BY <2>5 DEF AttackMain
      <3>3. found = {}
        BY <3>1 DEF LengthInv
      <3>4. CASE phase' = "length"
        BY <2>4, <3>1, <3>2, <3>3, <3>4
      <3>5. CASE phase' # "length"
        BY <3>1, <3>3, <3>5 DEF LengthInv
      <3> QED
        BY <3>4, <3>5
    <2>6. CASE SearchDictionary
      <3>1. phase = "dictionary" /\ ret = Running /\ UNCHANGED <<idx, pass, tried>>
        BY <2>6 DEF SearchDictionary
      <3>2. phase' = "dictionary" \/ (phase' = "length" /\ ret' = Running)
        BY <2>6, <3>1 DEF SearchDictionary
      <3>3. CASE phase' = "dictionary"
        BY <3>1, <3>3 DEF LengthInv
      <3>4. CASE phase' = "length" /\ ret' = Running
        <4>1. value.d # << >>
          BY <3>1 DEF DictInv, Searching
        <4> QED
          BY <2>4, <3>1, <3>4, <4>1
      <3> QED
        BY <3>2, <3>3, <3>4
    <2>7. CASE TryNext
      <3>1. phase = "length" /\ phase' = "length"
        BY <2>7 DEF TryNext
      <3>2. Tries /\ Finds
        BY <3>1 DEF LengthInv
      <3>3. Tries' /\ Finds' /\ Ends'
        BY <2>1, <2>3, <2>7, <3>2, TryKeeps
      <3> QED
        BY <3>1, <3>3 DEF LengthInv
    <2>8. CASE NotFound
      <3>1. /\ phase = "length" /\ idx = passNum /\ UNCHANGED <<phase, idx, pass, tried, found>>
            /\ ret' = 0 \/ (WritesOutside /\ ret' = Crashed)
        BY <2>8 DEF NotFound, Leave, Returns, search
      <3>2. Tries /\ Finds
        BY <3>1 DEF LengthInv
      <3>3. /\ passNum' = passNum /\ passCharNum' = passCharNum /\ Words' = Words /\ WritesOutside' = WritesOutside
            /\ \A m : Word(m)' = Word(m)
        BY <2>2 DEF passNum, passCharNum, Powers, passLen, Words, Word, CharAt, Divided, WritesOutside
      <3>4. Tries'
        BY <2>2, <3>1, <3>2, <3>3 DEF Tries
      <3>5. Finds'
        BY <2>1, <2>2, <3>1, <3>2, <3>3 DEF Finds, IsAgile, IsWord, Opens
      <3>6. Ends'
        BY <3>1, <3>3 DEF Ends, Crashed
      <3> QED
        BY <3>1, <3>4, <3>5, <3>6 DEF LengthInv
    <2> QED
      BY <2>1, <2>5, <2>6, <2>7, <2>8 DEF AttackNext
  <1>7. CASE Usage
    <2>1. phase = "options"
      BY <1>7 DEF Usage, NoMain, DictInv, Searching
    <2> QED
      BY <1>2, <1>7, <2>1 DEF Usage
  <1>8. CASE Finished \/ UNCHANGED vars
    <2>1. UNCHANGED <<value, files, nth, ret, search, commands>>
      BY <1>8 DEF Finished, vars
    <2> QED
      BY <1>1, <1>2, <2>1
  <1> QED
    BY <1>3, <1>4, <1>5, <1>6, <1>7, <1>8 DEF Next

LEMMA SearchInvariant == Spec => []SearchInv
  <1>1. Init => SearchInv
    BY InputIsTextInit, DictInvInit, ValueIsSizeInit, LengthInvInit DEF SearchInv
  <1>2. SearchInv /\ [Next]_vars => SearchInv'
    BY InputIsTextNext, DictInvNext, ValueIsSizeNext, LengthInvNext DEF SearchInv
  <1> QED
    BY <1>1, <1>2, PTL DEF Spec

\* For every length and every table of characters: a search for passwords as long as
\* the table that ends without a word has tried all of them, and none opens the file;
\* of a longer one it has tried none; unless it wrote outside of its string, for a
\* shorter one, it does not crash and what it finds opens the file; and of an Office
\* 2007 file it finds nothing (Attack and setPass of attack.hpp).
THEOREM LengthSearches == Spec => []LengthSearch
  <1>1. SearchInv => LengthSearch
    <2> SUFFICES ASSUME SearchInv, phase = "length", ret # Running
                 PROVE  /\ ret = Crashed => WritesOutside
                        /\ ret = 0 /\ passLen = passCharNum /\ found = {} =>
                              tried = Words /\ (IsAgile(target) => \A w \in Words : ~IsWord(Bytes(w)))
                        /\ passLen > passCharNum => tried \cap Words = {}
                        /\ IsAgile(target) /\ value.d = << >> /\ ~WritesOutside => \A w \in found : IsWord(w)
                        /\ ~IsAgile(target) => found = {}
      BY DEF LengthSearch, Words, TblChars, IsWord
    <2>1. Tries /\ Finds /\ Ends /\ DictInv /\ ValueIsSize
      BY DEF SearchInv, LengthInv
    <2>2. passLen \in Nat /\ passNum \in Nat \ {0} /\ passCharNum \in Nat
      BY <2>1, SizeOfSearch, TableIs
    <2>5. passLen >= passCharNum => ~WritesOutside
      BY <2>2 DEF WritesOutside
    <2>3. ASSUME ret = 0, passLen = passCharNum, found = {}
          PROVE  tried = Words /\ (IsAgile(target) => \A w \in Words : ~IsWord(Bytes(w)))
      <3>1. idx = passNum /\ tried \subseteq Words /\ \A m \in 0 .. idx - 1 : Word(m) \in tried
        BY <2>1, <2>2, <2>3, <2>5 DEF Tries, Ends
      <3>2. \A w \in Words : w \in tried
        <4> SUFFICES ASSUME NEW w \in Words PROVE w \in tried
          OBVIOUS
        <4>1. PICK m \in 0 .. passNum - 1 : Word(m) = w
          BY <2>2, EveryWord
        <4> QED
          BY <3>1, <4>1
      <3>3. ASSUME IsAgile(target), NEW w \in Words PROVE ~IsWord(Bytes(w))
        <4>1. w \in Seq(DOMAIN ByteOf)
          <5>1. w \in [1 .. passLen -> DOMAIN ByteOf]
            BY TableIs DEF Words
          <5> QED
            BY <2>2, <5>1
        <4>2. ~Opens(Widened(w))
          BY <2>1, <2>2, <2>3, <2>5, <3>2, <3>3 DEF Finds
        <4> QED
          BY <3>3, <4>1, <4>2, OpensWord
      <3> QED
        BY <3>1, <3>2, <3>3
    <2>4. ASSUME passLen > passCharNum, NEW t \in tried, t \in Words PROVE FALSE
      <3>1. t[1] = CharOf[0]
        BY <2>1, <2>2, <2>4, <2>5 DEF Tries
      <3>2. t[1] \in TblChars
        <4>1. 1 \in 1 .. passLen
          BY <2>2, <2>4, TableIs
        <4> QED
          BY <2>4, <4>1 DEF Words
      <3> QED
        BY <3>1, <3>2, TableIs
    <2>6. ~IsAgile(target) => found = {}
      BY <2>1 DEF DictInv, Searching
    <2> QED
      BY <2>1, <2>3, <2>4, <2>6 DEF Finds, Ends
  <1> QED
    BY <1>1, SearchInvariant, PTL
=============================================================================
