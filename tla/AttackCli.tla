----------------------------- MODULE AttackCli ------------------------------
(***************************************************************************)
(* attack.cpp: the options, the dictionary file and the two searches.  The *)
(* search of a dictionary is taken for what Attack shows of it, in the     *)
(* build the sources select (crypto_util.hpp:12-14: no SIMD, the file's    *)
(* own hash, and every error with a text): an error, a thread that does    *)
(* not begin, a race of the threads that found one password twice, or its  *)
(* end.  The search by length (attack.hpp) goes password by password.      *)
(***************************************************************************)
EXTENDS CryptCli

CONSTANTS
    PassCharTbl,    \* the characters of the search by length (ten digits)
    RawLines,       \* the lines of a file that is no text
    Garbled         \* what a string may hold after a race or a write outside of it

ASSUME PassCharTblAssumption ==
    PassCharTbl # << >> /\ PassCharTbl \in Seq(DOMAIN ByteOf \ {CharOf[0]})
ASSUME GarbledAssumption == Garbled \subseteq Seq(DOMAIN ByteOf)

VARIABLES
    phase,          \* "options"; "dictionary"; "length"
    idx, pass,      \* of the search by length: pass has one unit a character
    tried,
    found           \* the passwords printed, as bytes

search == <<phase, idx, pass, tried, found>>

AttackFlags == {"v"}
AttackTexts == {"cf", "d"}
AttackSizes == {"t", "l"}
AttackParams == <<"enc">>
AttackDefault ==
    [v |-> FALSE, t |-> 4, l |-> 0, enc |-> << >>, cf |-> << >>, d |-> << >>]

AttackOpt == INSTANCE CommandLine WITH
                Flags <- AttackFlags, Texts <- AttackTexts, Ints <- {}, Sizes <- AttackSizes,
                Help <- "h", Params <- AttackParams, MustParams <- {"enc"}

SearchInit == phase = "options" /\ idx = 0 /\ pass = << >> /\ tried = {} /\ found = {}
SearchAgain == phase' = "options" /\ idx' = 0 /\ pass' = << >> /\ tried' = {} /\ found' = {}
-----------------------------------------------------------------------------
(* The dictionary: its lines less one "\r" (getline takes the "\n"), and    *)
(* widened byte by byte.                                                    *)

Lines(path) ==
    IF ~Exists(path) THEN << >>
    ELSE CASE files[path].kind = "empty" -> << >>
           [] files[path].kind = "lines" -> files[path].lines
           [] OTHER -> RawLines
\* Mutation: the "\r" stays.
trimNothing(line) == line
trim(line) == IF line # << >> /\ ByteOf[Last(line)] \in {10, 13} THEN Front(line) ELSE line
Widened(line) == Char16toChar8(Bytes(line))
passSet == {Widened(trim(line)) : line \in ToSet(Lines(value.d))}

\* The character set is read and never used.
IsMissing(o) == value[o] # << >> /\ Lines(value[o]) = << >>

target == files[value.enc]
Opens(word) == GetAgileSecretKey(target.info, word) # NoKey
Narrowed(word) == [i \in 1 .. Len(word) \div 2 |-> word[(2 * i) - 1]]

AttackMain ==
    /\ parsing = "parsed" /\ ret = Running /\ phase = "options"
    /\ IF IsMissing("cf") \/ IsMissing("d") \/ ~Exists(value.enc) THEN Returns(1)
       ELSE IF Format(value.enc) = "unknown" THEN Returns(1)
       ELSE IF Format(value.enc) = "zip" THEN Returns(2)
       ELSE IF value.d = << >> /\ value.l = 0 THEN Returns(0)
       ELSE IF target.kind # "cfb" THEN Returns(1)
       ELSE UNCHANGED <<ret, files>>
    /\ phase' = IF ret' # Running THEN phase ELSE IF value.d # << >> THEN "dictionary" ELSE "length"
    /\ UNCHANGED <<idx, pass, tried, found>>

\* The Agile fields of a Standard file were never set: the hash of an unknown
\* name throws, or nothing is found.
hits == IF IsAgile(target) THEN {Narrowed(w) : w \in {v \in passSet : Opens(v)}} ELSE {}

\* Two threads store into correctPass and print it if the password is on two lines.
Repeated ==
    LET line == Lines(value.d)
    IN  \E i, j \in DOMAIN line : i # j /\ trim(line[i]) = trim(line[j])
MayRace == value.t > 1 /\ hits # {} /\ Repeated
Printable == IF MayRace THEN hits \cup {Bytes(g) : g \in Garbled} ELSE hits

\* An error of a thread, or in beginning one, is one of the search, which may have
\* printed what it found; a thread left behind may then end the program, as a race
\* may.
SearchDictionary ==
    /\ phase = "dictionary" /\ ret = Running
    /\ IF value.t = 0 THEN Returns(1) /\ UNCHANGED <<phase, found>>
       ELSE /\ found' \in SUBSET Printable
            /\ \/ /\ found' = {} => hits = {}
                  /\ IF value.l # 0 THEN phase' = "length" /\ UNCHANGED <<ret, files>>
                     ELSE Returns(0) /\ UNCHANGED phase
               \/ Returns(1) /\ UNCHANGED phase
               \/ value.t > 1 /\ Returns(Crashed) /\ UNCHANGED phase
    /\ UNCHANGED <<idx, pass, tried>>
-----------------------------------------------------------------------------
(* Attack(data, dataSize, passLen) *)

passLen == value.l
passCharNum == Len(PassCharTbl)
Powers ==
    LET power[i \in 0 .. passLen] == IF i = 0 THEN 1 ELSE power[i - 1] * passCharNum IN power
passNum == Powers[passLen]

\* What setPass has left of the index after so many divisions.
Divided(n) ==
    LET left[i \in 0 .. passLen] == IF i = 0 THEN n ELSE left[i - 1] \div passCharNum IN left
CharAt(n, k) == PassCharTbl[(Divided(n)[passLen - k] % passCharNum) + 1]

\* Mutation: all characters of the password are written.
setPassFull(p, n) == [k \in 1 .. passLen |-> CharAt(n, k)]
\* setPass writes as many characters from the end as there are in the table;
\* what is before the first of the password is not its memory.
setPass(p, n) ==
    [k \in 1 .. passLen |->
        IF passLen - k < passCharNum THEN CharAt(n, k)
        ELSE IF p = << >> THEN CharOf[0] ELSE p[k]]
WritesOutside == passLen < passCharNum

\* At the end the string is freed, which may fail if its memory was written to.
Leave == Returns(0) \/ (WritesOutside /\ Returns(Crashed))

Try(p, opens) ==
    /\ pass' = p /\ tried' = tried \cup {p}
    /\ IF opens THEN found' = found \cup {Bytes(p)} /\ Leave /\ UNCHANGED idx
       ELSE idx' = idx + 1 /\ UNCHANGED <<ret, files, found>>

\* One pass of the loop.  What lies before the string's characters is its own length
\* and place, or the heap's: after a write there another password is tried, or the
\* string throws, or the program ends.  A check may throw anyway, and of a Standard
\* file nothing is found.
TryNext ==
    /\ phase = "length" /\ ret = Running /\ idx < passNum
    /\ \/ Try(setPass(pass, idx), IsAgile(target) /\ Opens(Widened(setPass(pass, idx))))
       \/ WritesOutside /\ \E g \in Garbled, opens \in {FALSE, IsAgile(target)} : Try(g, opens)
       \/ /\ Returns(1) \/ (WritesOutside /\ Returns(Crashed))
          /\ UNCHANGED <<idx, pass, tried, found>>
    /\ UNCHANGED phase

NotFound ==
    /\ phase = "length" /\ ret = Running /\ idx = passNum
    /\ Leave
    /\ UNCHANGED search

AttackNext == AttackMain \/ SearchDictionary \/ TryNext \/ NotFound
=============================================================================
