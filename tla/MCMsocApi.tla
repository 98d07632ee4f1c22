------------------------------ MODULE MCMsocApi -----------------------------
(* Two files and one object; g1 and g2 are drawn by FillRand.              *)
EXTENDS MsocApi, TLC

MCDocs == {"d"}
\* The program may know the key of the Office 2007 file, or give one that is too
\* short.
MCGivenKeys == {GetEncryptionKey(""), <<[half |-> "b", filled |-> "b36"]>>}
MCSpinCounts == {MaxSpin + 1}

\* A file the command line tool made with AES-128.
Aes128 == Agile("d", "p", <<[half |-> "a"]>>, DefaultSpin, 128)
Office2007 == Standard("d", "")

AnyFiles == {Empty, ZipFile("d"), Aes128, Office2007}
AgileFiles == {Empty, ZipFile("d"), Aes128}

\* No call reads what the last one returned: states that differ in it only have
\* the same steps.  (The action properties are checked of every step.)
FileAndOpt == <<file, opt>>

GeneratedSymmetry == Permutations(Generated)
=============================================================================
