SPECIFICATION Spec
CONSTANTS
    Names = {"a", "b"}
    Docs <- MCDocs
    Passes = {"", "p"}
    EmptyPass = ""
    Generated = {g1, g2}
    GivenKeys <- MCGivenKeys
    SpinCounts <- MCSpinCounts
    InitialFiles <- AgileFiles
SYMMETRY GeneratedSymmetry
PROPERTY PassDecides
