------------------------------- MODULE Base64 -------------------------------
(***************************************************************************)
(* How the values of an EncryptionInfo become text: enc64 and dec64        *)
(* (include/util.hpp) over cybozu/base64.hpp, and %d with its way back,    *)
(* cybozu/atoi.hpp.  A text is a sequence of characters.                   *)
(***************************************************************************)
EXTENDS Integers, SequencesExt

\* FoldLeft as a recursive function.
Through(Step(_, _), base, seq) ==
    LET after[n \in 0 .. Len(seq)] == IF n = 0 THEN base ELSE Step(after[n - 1], seq[n])
    IN  after[Len(seq)]

Alphabet ==
    <<"A", "B", "C", "D", "E", "F", "G", "H", "I", "J", "K", "L", "M", "N", "O", "P",
      "Q", "R", "S", "T", "U", "V", "W", "X", "Y", "Z", "a", "b", "c", "d", "e", "f",
      "g", "h", "i", "j", "k", "l", "m", "n", "o", "p", "q", "r", "s", "t", "u", "v",
      "w", "x", "y", "z", "0", "1", "2", "3", "4", "5", "6", "7", "8", "9", "+", "/">>

Skipped == 255
EncChar(v) == Alphabet[v + 1]
DecChar == [c \in ToSet(Alphabet) |-> SelectInSeq(Alphabet, LAMBDA d : d = c) - 1]
\* Mutation: the padding counts as a digit.
DecValueOfPadding(c) ==
    IF c \in DOMAIN DecChar THEN DecChar[c] ELSE IF c = "=" THEN 0 ELSE Skipped
DecValue(c) == IF c \in DOMAIN DecChar THEN DecChar[c] ELSE Skipped

\* EncodeToBase64: remain holds the bits of the last byte not written yet.
EncStep(s, c) ==
    CASE s.idx = 0 -> [idx |-> 1, remain |-> (c % 4) * 16, out |-> Append(s.out, EncChar(c \div 4))]
      [] s.idx = 1 -> [idx |-> 2, remain |-> (c % 16) * 4,
                       out |-> Append(s.out, EncChar(s.remain + (c \div 16)))]
      [] OTHER     -> [idx |-> 0, remain |-> s.remain,
                       out |-> s.out \o <<EncChar(s.remain + (c \div 64)), EncChar(c % 64)>>]

enc64(bytes) ==
    LET s == Through(EncStep, [idx |-> 0, remain |-> 0, out |-> << >>], bytes)
    IN  s.out \o CASE s.idx = 0 -> << >>
                   [] s.idx = 1 -> <<EncChar(s.remain), "=", "=">>
                   [] OTHER     -> <<EncChar(s.remain), "=">>

\* Base64Decoder::write: whatever is no character of the alphabet is passed
\* over, the "=" among them; bits left at the end are dropped.
DecStep(s, c) ==
    LET t == DecValue(c) IN
    CASE t = Skipped -> s
      [] s.idx = 0 /\ t # Skipped -> [s EXCEPT !.idx = 1, !.cur = t * 4]
      [] s.idx = 1 /\ t # Skipped ->
            [idx |-> 2, cur |-> (t % 16) * 16, out |-> Append(s.out, s.cur + (t \div 16))]
      [] s.idx = 2 /\ t # Skipped ->
            [idx |-> 3, cur |-> (t % 4) * 64, out |-> Append(s.out, s.cur + (t \div 4))]
      [] OTHER -> [s EXCEPT !.idx = 0, !.out = Append(@, s.cur + t)]

dec64(chars) == Through(DecStep, [idx |-> 0, cur |-> 0, out |-> << >>], chars).out
-----------------------------------------------------------------------------
(* Numbers *)

Digits == <<"0", "1", "2", "3", "4", "5", "6", "7", "8", "9">>
DigitOf(c) == SelectInSeq(Digits, LAMBDA d : d = c) - 1

\* %d
Decimal(n) ==
    LET digits[k \in 0 .. n] ==
            (IF k < 10 THEN << >> ELSE digits[k \div 10]) \o <<Digits[(k % 10) + 1]>>
    IN  digits[n]
Printed(n) == IF n < 0 THEN <<"-">> \o Decimal(-n) ELSE Decimal(n)

\* convertToInt and convertToUint with the limits of int; a size is read as an
\* unsigned long, which no text of these lengths exceeds.  -1: not a number.
MaxTenth == 214748364
NumberStep(x, c) ==
    IF x < 0 \/ DigitOf(c) < 0 \/ x > MaxTenth \/ (x = MaxTenth /\ DigitOf(c) > 7) THEN -1
    ELSE (x * 10) + DigitOf(c)

Unsigned(chars) == IF chars = << >> THEN -1 ELSE Through(NumberStep, 0, chars)
IsUnsigned(chars) == Unsigned(chars) >= 0

IsMinus(chars) == chars # << >> /\ Head(chars) = "-"

\* The least int is recognised by its digits, and what follows is not looked at.
LeastInt == -2147483647 - 1
IsLeast(chars) ==
    /\ IsMinus(chars)
    /\ \E zeros \in 1 .. Len(chars) - 10 :
          /\ \A i \in 2 .. zeros : chars[i] = "0"
          /\ SubSeq(chars, zeros + 1, zeros + 10) = <<"2", "1", "4", "7", "4", "8", "3", "6", "4", "8">>

IsInt(chars) == IsLeast(chars) \/ IsUnsigned(IF IsMinus(chars) THEN Tail(chars) ELSE chars)
IntOf(chars) ==
    IF IsLeast(chars) THEN LeastInt
    ELSE IF IsMinus(chars) THEN -Unsigned(Tail(chars)) ELSE Unsigned(chars)
=============================================================================
