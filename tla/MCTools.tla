------------------------------- MODULE MCTools ------------------------------
(* The commands and disks the programs are run on.                         *)
EXTENDS Tools

MCPassCharTbl == <<"0", "1">>
MCRawLines == <<<<"P", "K">>, <<"A">>>>
MCGarbled == {<<"0", "E9", "1">>}
MCDirs == {<<>>, <<"t", "/">>, <<"t", ".", "v", "/">>, <<"t", "_e", ".", "v", "/">>}

Item(o, args, means) == [option |-> o, args |-> args, means |-> means, chars |-> << >>, good |-> TRUE]
Bad(item) == [item EXCEPT !.good = FALSE]
Flag(o) == Item(o, <<<<"-", o>>>>, TRUE)
Value(o, arg, means) == Item(o, <<<<"-", o>>, arg>>, means)
Text(o, arg) == Value(o, arg, arg)
Param(path) == Item("param", <<path>>, path)

\* A password in its three spellings.
Hex(bytes) == FlattenSeq([i \in DOMAIN bytes |-> <<HexDigits[(bytes[i] \div 16) + 1], HexDigits[(bytes[i] % 16) + 1]>>])
Bytes8(chars) == FlattenSeq([i \in DOMAIN chars |-> Utf8(chars[i])])
P(chars) == LET b == Bytes8(chars) IN [Text("p", [i \in DOMAIN b |-> CharOf[b[i]]]) EXCEPT !.chars = chars]
Ph8(chars) == [Text("ph8", Hex(Bytes8(chars))) EXCEPT !.chars = chars]
Ph16(chars) ==
    LET u == Units(chars)
    IN  [Text("ph16", FlattenSeq([i \in DOMAIN u |-> <<"u">> \o Hex(<<u[i] \div 256, u[i] % 256>>)])) EXCEPT !.chars = chars]
Pep == [Flag("pep") EXCEPT !.chars = Bytes(VelvetSweatshop)]
Spellings(chars) == {P(chars), Ph8(chars), Ph16(chars)}

\* Both sides of every border of the encoding forms.
Borders == {<<65>>, <<127, 128>>, <<2047, 2048>>, <<55295, 57344>>, <<65535, 65536>>, <<1114111>>}

X == <<"a", ".", "x">>
Y == <<"b", ".", "x">>
Other == <<"o", ".", "x">>
SomeKey == <<[half |-> "k"]>>
File(chars, bits) == Agile("d", Utf16LE(chars), IF bits = 128 THEN SomeKey ELSE SomeKey \o SomeKey, 9, bits)
Single(disk, program, items) == [disk |-> disk, commands |-> <<[program |-> program, items |-> items]>>]
Crypto(disk, items) == Single(disk, "msoffice-crypt", items)

\* Encrypt in one spelling, decrypt in another.
BothWays ==
    {[disk |-> X :> ZipFile("d"),
      commands |-> <<[program |-> "msoffice-crypt", items |-> <<Flag("e"), s, Param(X), Param(Y)>>],
                     [program |-> "msoffice-crypt", items |-> <<r, Flag("d"), Param(Y), Param(Other)>>]>>] :
        <<s, r>> \in UNION {Spellings(chars) \X (Spellings(chars) \cup {Pep}) : chars \in Borders}}

Worlds ==
    {ZipFile("d"), File(<<65>>, 128), File(<<65>>, 256), Standard("d", Utf16LE(<<65>>)), [kind |-> "ole"], [kind |-> "junk"],
     Encoded([kind |-> "junk"], Utf16LE(<<65>>), SomeKey, 9, 128), Cut, Empty}
Paths == {X, <<"a", ".", "xls">>, <<"t", "/", "a", ".", "x">>, <<"t", ".", "v", "/", "a">>,
          <<"t", ".", "v", "/", "a", ".", "x">>, <<".", "/", "a">>, <<"a">>}

Modes == {<< >>, <<Flag("e")>>, <<Flag("d")>>, <<Flag("d"), Flag("e")>>}
Outputs(path) == {<< >>, <<Param(Other)>>, <<Param(path)>>}
KeyText == <<"1", "2", ":", "3">>

OneFile ==
    {Crypto(path :> f, mode \o force \o word \o <<Param(path)>> \o out) :
        <<path, f, mode, force, word, out>> \in
            UNION {{p} \X Worlds \X Modes \X {<< >>, <<Flag("force")>>} \X {<< >>, <<P(<<65>>)>>, <<P(<<66>>)>>}
                       \X Outputs(p) : p \in {X, <<"a", ".", "xls">>}}}
    \cup {Crypto(path :> f, mode \o <<P(<<65>>), Param(path)>>) :
            <<path, f, mode>> \in Paths \X {ZipFile("d"), File(<<65>>, 128)} \X Modes}
\* A key of its own, a key file, and what is malformed.
Keyed ==
    {Crypto((X :> f) @@ (Y :> g), mode \o <<k>> \o word \o <<Param(X), Param(Other)>>) :
        <<f, g, mode, k, word>> \in
            (Worlds \cup {Encoded(ZipFile("d"), << >>, NormalizeKey(<<HalfOf(<<18, 3>>)>>, 1), 9, 128)}) \X {File(<<65>>, 256), ZipFile("d")} \X Modes
            \X {Text("k", KeyText), Text("by", Y), Text("by", Other), Value("encMode", <<"1">>, 1), Text("k", <<"g">>)}
            \X {<< >>, <<P(<<65>>)>>, <<Text("ph8", <<"A">>)>>, <<Text("ph16", <<"u", "1">>)>>, <<Text("p", <<"E9">>)>>}}
-----------------------------------------------------------------------------
(* What parse may meet, in every order *)

Odd ==
    {Value("c", <<"1", "0", "k">>, 10000), Value("c", <<"0", "x", "1", "0">>, 16), Value("c", <<"-", "1">>, -1),
     Value("c", <<"1", "G">>, 1073741824), Bad(Value("c", <<"3", "g">>, 0)), Bad(Value("c", <<"k">>, 0)),
     Bad(Value("c", <<"0", "x">>, 0)), Bad(Value("c", << >>, 0)), Value("c", <<"1", "0", "0", "0", "0", "0", "0", "1">>, MaxSpin + 1),
     [Text("p", <<"-", "h">>) EXCEPT !.chars = <<45, 104>>], Flag("h"), Flag("e"), Flag("vv"), P(<<65>>), P(<<66>>), Ph8(<<67>>), Pep,
     Bad(Flag("z")), Bad(Item("", <<<<"-">>>>, << >>)), Param(X), Param(<<"-", "1">>), Param(<< >>)}
Orders ==
    {Crypto(X :> ZipFile("d"), items) :
        items \in {<<a>> : a \in Odd \cup {Bad(Item("p", <<<<"-", "p">>>>, << >>))}}
                  \cup {<<a, Param(X)>> : a \in Odd} \cup {<<a, b>> : a, b \in Odd}
                  \cup {<<a, b, Param(X)>> : a, b \in Odd} \cup {<<Param(X), Flag("e"), a, b>> : a, b \in Odd}}
-----------------------------------------------------------------------------
(* The search *)

Word(chars) == [i \in DOMAIN chars |-> CharOf[chars[i]]]
Dictionaries ==
    {[kind |-> "lines", lines |-> l] : l \in
        {<< >>, <<Word(<<66>>)>>, <<Word(<<66>>), Word(<<65>>)>>, <<Word(<<65, 13>>), Word(<<66>>)>>,
         <<Word(<<233>>)>>, <<Word(<<195, 169>>)>>, << << >>, Word(<<65>>)>>,
         <<Word(<<65>>), Word(<<66>>), Word(<<65, 13>>)>>}}
    \cup {ZipFile("d"), Empty}
Dict == <<"d">>
D == Text("d", Dict)
L(n) == Value("l", <<Digits[n + 1]>>, n)
Attacks ==
    {Single((X :> f) @@ (Dict :> dict), "attack", items) :
        <<f, dict, items>> \in
            (Worlds \cup {File(<<233>>, 256), File(<< >>, 128), File(<<65, 13>>, 128)}) \X Dictionaries
            \X {<<D, Param(X)>>, <<Param(X)>>, <<D, L(1), Param(X)>>, <<D, Value("t", <<"0">>, 0), Param(X)>>,
                <<D, Value("t", <<"1">>, 1), Param(X)>>,
                <<Text("cf", Other), Param(X)>>, <<D, Param(Other)>>, <<Bad(Value("t", <<"-", "1">>, 0)), Param(X)>>}}
ByLength ==
    {Single(X :> f, "attack", <<L(n), Param(X)>>) :
        <<f, n>> \in {Standard("d", << >>), File(<< >>, 128), File(<<49>>, 128), File(<<65>>, 128), File(<<48, 49>>, 256),
                      File(<<49, 49>>, 128), File(<<48, 48, 49>>, 128), File(<<49, 49, 48>>, 128)} \X (0 .. 3)}

MCScripts == BothWays \cup OneFile \cup Keyed \cup Orders \cup Attacks \cup ByLength
=============================================================================
