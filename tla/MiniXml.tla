------------------------------- MODULE MiniXml ------------------------------
(***************************************************************************)
(* The author's XML reader (include/cybozu/minixml.hpp), one tag or one    *)
(* attribute at a time.                                                    *)
(*                                                                         *)
(* A text is a sequence of tokens: a character, or a word none of whose    *)
(* characters the reader tells apart.  The nodes are kept in the order of  *)
(* their begin tags, which is the order getFirstTagByName looks through    *)
(* the tree; open holds those parseNode has been called for and has not    *)
(* left.  Contents are read over: nothing uses them.                       *)
(***************************************************************************)
EXTENDS Naturals, SequencesExt

VARIABLES
    text,       \* begin_ .. end_ as it was given
    at,         \* begin_: the next token
    tag,        \* the tag whose attributes are read
    nodes,      \* the nodes so far: name and attributes
    open,       \* the indices of the open ones, the innermost last
    mode        \* what is read next; "parsed"; "threw"

xml == <<text, at, tag, nodes, open, mode>>

NoAttributes == [key \in {} |-> << >>]
NoTag == [name |-> << >>, attr |-> NoAttributes]

XmlInit(t) ==
    /\ text = t /\ at = 1
    /\ tag = NoTag
    /\ nodes = << >> /\ open = << >>
    /\ mode = "header"

Throw == mode' = "threw" /\ UNCHANGED <<text, at, tag, nodes, open>>
-----------------------------------------------------------------------------
(* InputStream.  A token past the end is "", which next() throws at.        *)

Past == Len(text) + 1
Token(p) == IF p < Past THEN text[p] ELSE ""

isSpace(c) == c \in {" ", "\t", "\r", "\n"}
isQuote(c) == c \in {"\"", "'"}
isEqual(c) == c = "="
isName(c) == ~isSpace(c) /\ ~isEqual(c) /\ ~isQuote(c)
isName2(c) == isName(c) /\ c # ">"
isContent(c) == c # "<"

\* Where the tokens from p on for which f holds end: getWord, skipSpace.
WordEnd(p, F(_)) == Min({Past} \cup {q \in p .. Len(text) : ~F(text[q])})
SkipSpace(p) == WordEnd(p, isSpace)
Word(p, end) == SubSeq(text, p, end - 1)
-----------------------------------------------------------------------------
(* MiniXml::readHeader: the attributes of <?xml ... ?> are nobody's.        *)

ReadHeader ==
    LET begin == SkipSpace(at)
        end == WordEnd(begin, isName)
    IN  /\ mode = "header"
        /\ IF Word(begin, end) # <<"<", "?", "xml">> THEN Throw
           ELSE /\ at' = end
                /\ mode' = "declaration"
                /\ UNCHANGED <<text, tag, nodes, open>>

\* parseTag up to the attributes.  An end tag closes the innermost node, whose
\* name it must have; the root's is the end of the document, and what follows
\* is not looked at.
BeginTag(begin) ==
    LET end == WordEnd(begin + 1, isName2)
    IN  IF end = begin + 1 THEN Throw
        ELSE /\ at' = end
             /\ tag' = [name |-> Word(begin + 1, end), attr |-> NoAttributes]
             /\ mode' = "attributes"
             /\ UNCHANGED <<text, nodes, open>>

Closes(name) == open # << >> /\ nodes[Last(open)].name = name

EndTag(begin) ==
    LET end == WordEnd(begin + 2, isName2)
    IN  IF end = begin + 2 \/ Token(end) # ">" \/ ~Closes(Word(begin + 2, end)) THEN Throw
        ELSE /\ at' = end + 1
             /\ open' = Front(open)
             /\ mode' = IF Len(open) = 1 THEN "parsed" ELSE "node"
             /\ UNCHANGED <<text, tag, nodes>>

\* Mutation: the end of the text ends the document.
TagAtLenient(begin) ==
    IF begin >= Past THEN mode' = "parsed" /\ UNCHANGED <<text, at, tag, nodes, open>>
    ELSE IF Token(begin + 1) = "/" THEN EndTag(begin) ELSE BeginTag(begin)
TagAt(begin) ==
    IF Token(begin) # "<" \/ begin + 1 >= Past THEN Throw
    ELSE IF Token(begin + 1) = "/" THEN EndTag(begin) ELSE BeginTag(begin)

ParseTag ==
    \/ mode = "root" /\ TagAt(SkipSpace(at))
    \/ mode = "node" /\ TagAt(WordEnd(SkipSpace(at), isContent))
-----------------------------------------------------------------------------
(* parseAttributes: one pass of its loop                                    *)

InHeader == mode = "declaration"
InTag == mode \in {"declaration", "attributes"}
Ends(c) == IF InHeader THEN c = "?" ELSE c \in {">", "/"}

\* appendChild: the first node is the root.
AppendChild(isComplete) ==
    /\ nodes' = Append(nodes, tag)
    /\ open' = IF isComplete THEN open ELSE Append(open, Len(nodes) + 1)
    /\ mode' = IF open' = << >> THEN "parsed" ELSE "node"

EndAttributes ==
    LET p == SkipSpace(at)
        isComplete == Token(p) # ">"
    IN  /\ InTag /\ Ends(Token(p))
        /\ IF isComplete /\ Token(p + 1) # ">" THEN Throw
           ELSE /\ at' = IF isComplete THEN p + 2 ELSE p + 1
                /\ IF InHeader THEN mode' = "root" /\ UNCHANGED <<nodes, open>>
                   ELSE AppendChild(isComplete)
                /\ tag' = NoTag
                /\ UNCHANGED text

ParseAttribute ==
    LET begin == SkipSpace(at)
        keyEnd == WordEnd(begin, isName)
        equal == SkipSpace(keyEnd)
        quote == SkipSpace(equal + 1)
        valEnd == IF Token(quote) = "'" THEN WordEnd(quote + 1, LAMBDA c : c # "'")
                  ELSE WordEnd(quote + 1, LAMBDA c : c # "\"")
    IN  /\ InTag /\ ~Ends(Token(begin))
        /\ IF \/ keyEnd = begin \/ ~isEqual(Token(equal))
              \/ ~isQuote(Token(quote)) \/ valEnd >= Past THEN Throw
           ELSE /\ at' = valEnd + 1
                /\ tag' = [tag EXCEPT !.attr =
                              (Word(begin, keyEnd) :> Word(quote + 1, valEnd)) @@ @]
                /\ UNCHANGED <<text, nodes, open, mode>>

XmlNext == ReadHeader \/ ParseTag \/ EndAttributes \/ ParseAttribute
-----------------------------------------------------------------------------
\* Node::getFirstTagByName: the index of the node, 0 if there is none.
getFirstTagByName(name) == SelectInSeq(nodes, LAMBDA n : n.name = <<name>>)
=============================================================================
