-------------------------------- MODULE Utf ---------------------------------
(***************************************************************************)
(* From the characters of an argument to the bytes of a password:          *)
(* cybozu/string.hpp, fromHex and Char16toChar8 of util.hpp, and           *)
(* fromUniHex of msoffice-crypt.cpp.                                       *)
(*                                                                         *)
(* A character of an argument is a byte: an ASCII one is written as        *)
(* itself, any other byte by two hexadecimal digits.  A conversion that    *)
(* throws gives Malformed.                                                 *)
(***************************************************************************)
EXTENDS Base64

Malformed == <<-1>>

Ascii ==
    <<" ", "!", "22", "#", "$", "%", "&", "'", "(", ")", "*", "+", ",", "-", ".", "/",
      "0", "1", "2", "3", "4", "5", "6", "7", "8", "9", ":", ";", "<", "=", ">", "?",
      "@", "A", "B", "C", "D", "E", "F", "G", "H", "I", "J", "K", "L", "M", "N", "O",
      "P", "Q", "R", "S", "T", "U", "V", "W", "X", "Y", "Z", "[", "5C", "]", "^", "_",
      "60", "a", "b", "c", "d", "e", "f", "g", "h", "i", "j", "k", "l", "m", "n", "o",
      "p", "q", "r", "s", "t", "u", "v", "w", "x", "y", "z", "{", "|", "}", "~">>

HexDigits == <<"0", "1", "2", "3", "4", "5", "6", "7", "8", "9", "A", "B", "C", "D", "E", "F">>
Hex2(b) == HexDigits[(b \div 16) + 1] \o HexDigits[(b % 16) + 1]
CharOf == [b \in 0 .. 255 |-> IF b \in 32 .. 126 THEN Ascii[b - 31] ELSE Hex2(b)]
ByteOf == [c \in {CharOf[b] : b \in 0 .. 255} |-> CHOOSE b \in 0 .. 255 : CharOf[b] = c]

Bytes(chars) == [i \in DOMAIN chars |-> ByteOf[chars[i]]]
-----------------------------------------------------------------------------
(* cybozu::hextoi *)

HexDigitOf(c) ==
    CASE c \in {"A", "B", "C", "D", "E", "F"} -> ByteOf[c] - 55
      [] c \in {"a", "b", "c", "d", "e", "f"} -> ByteOf[c] - 87
      [] OTHER -> DigitOf(c)
AreHex(chars) == chars # << >> /\ \A i \in DOMAIN chars : HexDigitOf(chars[i]) >= 0
hextoi(chars) == Through(LAMBDA x, c : (16 * x) + HexDigitOf(c), 0, chars)

\* fromHex.  With skipColon one colon may stand in front of a byte, and the last
\* byte may have one digit.
HexGroups(chars, skipColon) ==
    LET from[p \in 1 .. Len(chars) + 2] ==
            LET q == IF skipColon /\ p <= Len(chars) /\ chars[p] = ":" THEN p + 1 ELSE p
            IN  IF q > Len(chars) THEN << >>
                ELSE <<SubSeq(chars, q, Min({q + 1, Len(chars)}))>> \o from[q + 2]
    IN  from[1]

fromHex(chars, skipColon) ==
    LET groups == HexGroups(chars, skipColon)
    IN  IF (~skipColon /\ Len(chars) % 2 = 1) \/ \E i \in DOMAIN groups : ~AreHex(groups[i])
        THEN Malformed ELSE [i \in DOMAIN groups |-> hextoi(groups[i])]

\* fromUniHex: groups of a u and four digits.
fromUniHex(chars) ==
    LET groups == [i \in 1 .. Len(chars) \div 5 |-> SubSeq(chars, (5 * i) - 4, 5 * i)]
    IN  IF Len(chars) % 5 # 0 \/ \E i \in DOMAIN groups : groups[i][1] # "u" \/ ~AreHex(Tail(groups[i]))
        THEN Malformed ELSE [i \in DOMAIN groups |-> hextoi(Tail(groups[i]))]
-----------------------------------------------------------------------------
(* GetCharFromUtf8: 0 is no length. *)

Utf8Length(c0) ==
    CASE c0 <= 127 -> 1
      [] c0 \in 194 .. 223 -> 2
      [] c0 \in 224 .. 239 -> 3
      [] c0 \in 240 .. 244 -> 4
      [] OTHER -> 0

\* What may follow the first byte: neither an overlong form nor a surrogate
\* nor what is beyond 10FFFF.
Second(c0) ==
    CASE c0 = 224 -> 160 .. 191
      [] c0 = 237 -> 128 .. 159
      [] c0 = 240 -> 144 .. 191
      [] c0 = 244 -> 128 .. 143
      [] OTHER -> 128 .. 191

IsUtf8Char(bytes) ==
    /\ Len(bytes) = Utf8Length(bytes[1])
    /\ Len(bytes) > 1 => bytes[2] \in Second(bytes[1])
    /\ \A i \in 3 .. Len(bytes) : bytes[i] \in 128 .. 191

\* Shifted together with the marks of the first byte, which are taken off.
CharOfUtf8(bytes) ==
    LET joined == Through(LAMBDA x, b : (64 * x) + (b % 64), bytes[1], Tail(bytes))
    IN  joined - CASE Len(bytes) = 1 -> 0
                   [] Len(bytes) = 2 -> 12288
                   [] Len(bytes) = 3 -> 917504
                   [] OTHER -> 62914560

\* Mutation: the high half of a pair is one plane off.
toUtf16NoPlane(c) ==
    IF c <= 65535 THEN <<c>> ELSE <<(c \div 1024) + 55296, (c % 1024) + 56320>>
toUtf16(c) ==
    IF c <= 65535 THEN <<c>> ELSE <<(c \div 1024) + 55232, (c % 1024) + 56320>>

\* ConvertUtf8ToUtf16: the units from byte p on.
ToUtf16(bytes) ==
    LET from[p \in 1 .. Len(bytes) + 1] ==
            IF p > Len(bytes) THEN << >>
            ELSE LET n == Utf8Length(bytes[p])
                     char == SubSeq(bytes, p, Min({p + n - 1, Len(bytes)}))
                 IN  IF n = 0 \/ ~IsUtf8Char(char) THEN Malformed
                     ELSE LET rest == from[p + n]
                          IN  IF rest = Malformed THEN Malformed ELSE toUtf16(CharOfUtf8(char)) \o rest
    IN  from[1]

\* The low byte of each unit first.
Char16toChar8(units) ==
    [i \in 1 .. 2 * Len(units) |->
        IF i % 2 = 1 THEN units[(i + 1) \div 2] % 256 ELSE units[i \div 2] \div 256]
=============================================================================
