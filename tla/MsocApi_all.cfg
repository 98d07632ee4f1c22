SPECIFICATION Spec
CONSTANTS
    Names = {"a", "b"}
    Docs <- MCDocs
    Passes = {"", "p"}
    EmptyPass = ""
    Generated = {g1, g2}
    GivenKeys <- MCGivenKeys
    SpinCounts <- MCSpinCounts
    InitialFiles <- AnyFiles
SYMMETRY GeneratedSymmetry
VIEW FileAndOpt
PROPERTIES ErrorLeavesOpt DecryptGivesPlain GeneratedKeyIsFull OnlyPassOpens KeyInOptOpens
