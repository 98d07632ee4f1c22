---------------------------- MODULE CommandLine -----------------------------
(***************************************************************************)
(* cybozu::Option::parse, one pass of its loop at a time.  An argument is  *)
(* a sequence of characters; the name of an option stands as one token     *)
(* after its "-".  No program here has options that must be given, options *)
(* or parameters of several values, or delimiters.                         *)
(***************************************************************************)
EXTENDS Utf

CONSTANTS
    Flags,          \* appendBoolOpt
    Texts, Ints, Sizes, \* appendOpt of a string, of an int, of a size_t
    Help,           \* appendHelp
    Params,         \* appendParam, appendParamOpt: the names in order
    MustParams      \* those of appendParam

VARIABLES
    argv, pos,      \* argv[0] is left out
    value,          \* what the variables of the options and parameters hold
    isSet,          \* the parameters that are set
    parsing         \* "reading"; "parsed"; "usage" (parse returns false); "help" (it exits)

clAfter == <<argv, isSet, parsing>>

ParseInit(args, default) ==
    /\ argv = args /\ pos = 1
    /\ value = default /\ isSet = {}
    /\ parsing = "reading"
ParseAgain(args, default) ==
    /\ argv' = args /\ pos' = 1
    /\ value' = default /\ isSet' = {}
    /\ parsing' = "reading"
-----------------------------------------------------------------------------
(* convert *)

\* The factors and the ints they may multiply; a size_t takes more.  (No argument
\* here has so many hexadecimal digits that they leave an int.)
Factor ==
    [k |-> [times |-> 1000, least |-> -2147483, most |-> 2147483],
     m |-> [times |-> 1000000, least |-> -2147, most |-> 2147],
     g |-> [times |-> 1000000000, least |-> -2, most |-> 2],
     K |-> [times |-> 1024, least |-> -2097152, most |-> 2097151],
     M |-> [times |-> 1048576, least |-> -2048, most |-> 2047],
     G |-> [times |-> 1073741824, least |-> -2, most |-> 1]]

IsHex(arg) == Len(arg) > 1 /\ arg[1] = "0" /\ arg[2] = "x"
HasFactor(arg) == Len(arg) > 1 /\ Last(arg) \in DOMAIN Factor

IsNumber(o, chars) == IF o \in Sizes THEN IsUnsigned(chars) ELSE IsInt(chars)
IsConvertible(o, arg) ==
    IF o \in Texts THEN TRUE
    ELSE IF IsHex(arg) THEN AreHex(SubSeq(arg, 3, Len(arg)))
    ELSE IF HasFactor(arg)
         THEN IsNumber(o, Front(arg)) /\ IntOf(Front(arg)) \in Factor[Last(arg)].least .. Factor[Last(arg)].most
    ELSE IsNumber(o, arg)

Converted(o, arg) ==
    IF o \in Texts THEN arg
    ELSE IF IsHex(arg) THEN hextoi(SubSeq(arg, 3, Len(arg)))
    ELSE IF HasFactor(arg) THEN IntOf(Front(arg)) * Factor[Last(arg)].times
    ELSE IntOf(arg)
-----------------------------------------------------------------------------
(* parse *)

Refuse == parsing' = "usage" /\ UNCHANGED <<argv, pos, value, isSet>>
Take(o, v, next) ==
    /\ value' = [value EXCEPT ![o] = v]
    /\ pos' = next

Arg == argv[pos]
Reads == parsing = "reading" /\ pos <= Len(argv)

\* A negative number is no option.
isOpt(arg) == arg # << >> /\ arg[1] = "-" /\ ~(Len(arg) > 1 /\ DigitOf(arg[2]) >= 0)
Option == Tail(Arg)
Named(names) == {o \in names : Option = <<o>>}

ReadHelp ==
    /\ Reads /\ isOpt(Arg) /\ Option = <<Help>>
    /\ parsing' = "help"
    /\ UNCHANGED <<argv, pos, value, isSet>>

ReadFlag ==
    /\ Reads /\ isOpt(Arg)
    /\ \E o \in Named(Flags) : Take(o, TRUE, pos + 1)
    /\ UNCHANGED clAfter

\* Mutation: the value is read again as an argument.
AfterValueStays == pos + 1
AfterValue == pos + 2

\* The next argument is the value whatever it looks like.
ReadValue ==
    /\ Reads /\ isOpt(Arg)
    /\ \E o \in Named(Texts \cup Ints \cup Sizes) :
          IF pos = Len(argv) THEN Refuse
          ELSE IF ~IsConvertible(o, argv[pos + 1]) THEN Refuse
          ELSE Take(o, Converted(o, argv[pos + 1]), AfterValue) /\ UNCHANGED clAfter

BadOption ==
    /\ Reads /\ isOpt(Arg)
    /\ Option # <<Help>> /\ Named(Flags \cup Texts \cup Ints \cup Sizes) = {}
    /\ Refuse

ReadParam ==
    LET unset == {i \in DOMAIN Params : Params[i] \notin isSet}
    IN  /\ Reads /\ ~isOpt(Arg)
        /\ IF unset = {} THEN Refuse
           ELSE /\ Take(Params[Min(unset)], Arg, pos + 1)
                /\ isSet' = isSet \cup {Params[Min(unset)]}
                /\ UNCHANGED <<argv, parsing>>

EndOfArguments ==
    /\ parsing = "reading" /\ pos > Len(argv)
    /\ parsing' = IF MustParams \subseteq isSet THEN "parsed" ELSE "usage"
    /\ UNCHANGED <<argv, pos, value, isSet>>

ParseNext ==
    ReadHelp \/ ReadFlag \/ ReadValue \/ BadOption \/ ReadParam \/ EndOfArguments
=============================================================================
