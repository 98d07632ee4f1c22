-------------------------------- MODULE Tools -------------------------------
(***************************************************************************)
(* The two command line programs, run one after the other on one disk.     *)
(*                                                                         *)
(* A command is what somebody types and means: a program and a sequence of *)
(* items, each with its arguments, the option they are for, what they mean *)
(* and whether they are well-formed.  The characters of a password are     *)
(* code points.                                                            *)
(***************************************************************************)
EXTENDS AttackCli

CONSTANTS
    Scripts         \* [disk, commands]: what to start from and what to type

VARIABLES
    commands        \* those of the script

vars == <<argv, pos, value, isSet, parsing, files, nth, ret, search, commands>>

Command == commands[nth]
ArgsOf(command) == FlattenSeq([i \in DOMAIN command.items |-> command.items[i].args])
DefaultOf(command) == IF command.program = "msoffice-crypt" THEN CryptDefault ELSE AttackDefault

\* What a program is started with are texts; getline ends a line at a "\n".
IsLine(chars) == chars \in Seq(DOMAIN ByteOf) /\ 10 \notin ToSet(Bytes(chars))
ASSUME ScriptsAssumption ==
    \A s \in Scripts :
        /\ Len(s.commands) \in Nat \ {0}
        /\ \A n \in 1 .. Len(s.commands) : ArgsOf(s.commands[n]) \in Seq(Seq(STRING))
        /\ \A path \in DOMAIN s.disk :
              s.disk[path].kind = "lines" => \A line \in ToSet(s.disk[path].lines) : IsLine(line)
ASSUME RawLinesAssumption == \A line \in ToSet(RawLines) : IsLine(line)

Init ==
    \E s \in Scripts :
        /\ files = s.disk /\ commands = s.commands
        /\ nth = 1 /\ ret = Running
        /\ Crypt!ParseInit(ArgsOf(s.commands[1]), DefaultOf(s.commands[1]))
        /\ SearchInit

RunAgain ==
    /\ ret # Running /\ nth < Len(commands)
    /\ nth' = nth + 1 /\ ret' = Running
    /\ Crypt!ParseAgain(ArgsOf(commands[nth + 1]), DefaultOf(commands[nth + 1]))
    /\ SearchAgain
    /\ UNCHANGED <<files, commands>>

Parse ==
    /\ IF Command.program = "msoffice-crypt" THEN Crypt!ParseNext ELSE AttackOpt!ParseNext
    /\ UNCHANGED <<files, nth, ret, search, commands>>

RunCrypt ==
    /\ Command.program = "msoffice-crypt" /\ CryptMain
    /\ UNCHANGED <<typedLine, nth, search, commands>>

RunAttack ==
    /\ Command.program = "attack" /\ AttackNext
    /\ UNCHANGED <<typedLine, nth, commands>>

Usage == NoMain /\ UNCHANGED <<typedLine, nth, search, commands>>

Finished == ret # Running /\ nth = Len(commands) /\ UNCHANGED vars

Next == RunAgain \/ Parse \/ RunCrypt \/ RunAttack \/ Usage \/ Finished

Spec == Init /\ [][Next]_vars
-----------------------------------------------------------------------------
(* References *)

\* The Unicode Standard's encoding forms of a code point.
Utf8(c) ==
    CASE c < 128 -> <<c>>
      [] c \in 128 .. 2047 -> <<192 + (c \div 64), 128 + (c % 64)>>
      [] c \in 2048 .. 65535 -> <<224 + (c \div 4096), 128 + ((c \div 64) % 64), 128 + (c % 64)>>
      [] OTHER -> <<240 + (c \div 262144), 128 + ((c \div 4096) % 64), 128 + ((c \div 64) % 64), 128 + (c % 64)>>
Utf16(c) ==
    IF c < 65536 THEN <<c>>
    ELSE <<55296 + ((c - 65536) \div 1024), 56320 + ((c - 65536) % 1024)>>
LittleEndian(unit) == <<unit % 256, unit \div 256>>
Units(chars) == FlattenSeq([i \in DOMAIN chars |-> Utf16(chars[i])])
Utf16LE(chars) == LET u == Units(chars) IN FlattenSeq([i \in DOMAIN u |-> LittleEndian(u[i])])

Items(o) == SelectSeq(Command.items, LAMBDA i : i.option = o)
Typed(o) == Items(o) # << >>

\* The password that is meant: of the kinds typed the last of this order.
PasswordMeant ==
    LET kinds == SelectSeq(<<"p", "pep", "ph8", "ph16">>, LAMBDA o : Typed(o) /\ Last(Items(o)).chars # << >>)
    IN  IF kinds = << >> THEN << >> ELSE Last(Items(Last(kinds))).chars
-----------------------------------------------------------------------------
(* Properties *)

ParamsOf == IF Command.program = "msoffice-crypt" THEN CryptParams ELSE AttackParams

\* In whatever order they are typed, the last value of each option and the
\* parameters in their order reach the program, values that look like options
\* too; parse refuses only what is ill-formed, and everything that is before the
\* help (option.hpp, parse).
ReadsWhatWasTyped ==
    LET names == Items("param") IN
    /\ parsing = "parsed" =>
        /\ \A o \in DOMAIN value \ ToSet(ParamsOf) :
              value[o] = IF Typed(o) THEN Last(Items(o)).means ELSE DefaultOf(Command)[o]
        /\ \A i \in DOMAIN names : value[ParamsOf[i]] = names[i].args[1]
    /\ parsing \in {"parsed", "usage"} =>
        (parsing = "parsed" <=>
            /\ \A i \in DOMAIN Command.items : Command.items[i].good
            /\ Len(names) \in 1 .. Len(ParamsOf))

MainEnds == ret = Running /\ ret' # Running /\ Command.program = "msoffice-crypt" /\ parsing = "parsed"

\* What a flush that failed leaves of an encrypted file; nothing is returned of it.
Lost(f) == f \in {Empty, Cut}

\* However its characters are spelled (-p in UTF-8, -ph8, -ph16), a file is
\* encrypted with and opened by the same password: its UTF-16LE form, which is
\* what Office takes.
PasswordsAgree ==
    [][MainEnds /\ ret' \in {0, 3} =>
        LET opens(f) == KeyFor(f, Utf16LE(PasswordMeant), NoKey) # NoKey IN
        /\ value.e /\ ret' = 0 => Lost(files'[outFile]) \/ opens(files'[outFile])
        /\ ~value.e /\ ~Typed("k") /\ ~Typed("by") => (ret' = 0 <=> opens(files[value.input]))
        /\ ~value.e /\ Typed("by") /\ ret' = 0 => opens(files[value.by])]_vars

\* 0 is returned when the encrypted or the decrypted document has been written to
\* the output, which then holds it unless its flush failed (of which main is told
\* nothing: file.hpp:161-172); of a view, when there is a key that fits the file.  2
\* and 3 are returned when the disk is as it was; a wrong password is never mistaken
\* for a right one, whatever else is typed.
ReturnSaysWhatHappened ==
    [][MainEnds =>
        LET in == files[value.input] IN
        /\ ret' \in {2, 3} \/ doView => files' = files
        /\ ret' = 0 /\ value.e => /\ \/ Lost(files'[outFile])
                                     \/ IsAgile(files'[outFile]) /\ files'[outFile].package.text = in
                                  /\ value.force \/ in.kind # "cfb"
        /\ ret' = 0 /\ value.d /\ ~value.e => files'[outFile] \in Flushed(in.package.text)
        /\ ret' = 0 /\ ~value.e => LET key == KeyFor(in, passData, givenKey)
                                   IN  key # NoKey /\ KeyFits(in, key)
        /\ ret' = 3 => ~value.e /\ KeyFor(in, passData, givenKey) = NoKey]_vars

\* Only the output changes, and the input is the output only if somebody says
\* so; without an output the document is written into the directory of the
\* input, unless the last dot of the input is in the name of that directory: it
\* is written into another one then, if there is one of that name.
OutputBeside ==
    [][MainEnds =>
        /\ \A path \in DOMAIN files : files'[path] # files[path] => path = outFile
        /\ outFile = value.input => value.output # << >>
        /\ DOMAIN files' # DOMAIN files => Dir(outFile) \in Dirs
        /\ value.output = << >> =>
              Dir(outFile) = Dir(value.input) \/ Dot(value.input) \in 1 .. Len(Dir(value.input))]_vars

\* A dictionary, whatever kind of file it is, with the password on one of its lines,
\* "\n" or "\r\n" after it, finds it if it is ASCII (but for one that ends in "\r"
\* itself: of a line only what is before that is tried) and no check fails; and an
\* ASCII word that is found opens the file with -p, unless two threads found it on
\* two lines and their writes raced.  Of an Office 2007 file nothing is found, though
\* the search says it is done.
SearchFinds ==
    phase = "dictionary" /\ ret = 0 =>
        LET ascii(w) == \A i \in DOMAIN w : w[i] < 128
            words == {Bytes(line) : line \in ToSet(Lines(value.d))}
            opens(w) == ascii(w) /\ KeyFor(target, Utf16LE(w), NoKey) # NoKey
            ends(w) == w # << >> /\ Last(w) = 13
        IN  /\ IsAgile(target) /\ (\E w \in words : opens(IF ends(w) THEN Front(w) ELSE w)) => found # {}
            /\ IsAgile(target) /\ (value.t = 1 \/ ~Repeated) => \A w \in found : ascii(w) => opens(w)
            /\ ~IsAgile(target) => found = {}

\* The search by length answers for passwords as long as the table has characters,
\* and for no others: it tries all of them, and none opens the file if none is found.
\* Of a longer one it tries no word without a zero; before a shorter one it writes
\* outside of the string (attack.hpp:28-34), which may make it try others, throw or
\* end the program, so that "not found" and "found" say nothing.  Of an Office 2007
\* file nothing is found whatever is tried.
LengthSearch ==
    phase = "length" /\ ret # Running =>
        LET words == [1 .. passLen -> ToSet(PassCharTbl)]
            opens(w) == KeyFor(target, Utf16LE(w), NoKey) # NoKey
        IN  /\ ret = Crashed => WritesOutside
            /\ ret = 0 /\ passLen = passCharNum /\ found = {} =>
                  tried = words /\ (IsAgile(target) => \A w \in words : ~ opens(Bytes(w)))
            /\ passLen > passCharNum => tried \cap words = {}
            /\ IsAgile(target) /\ value.d = << >> /\ ~WritesOutside => \A w \in found : opens(w)
            /\ ~IsAgile(target) => found = {}
=============================================================================
