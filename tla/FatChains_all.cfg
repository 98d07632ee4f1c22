SPECIFICATION FairSpec
CONSTANTS
    NumSectors = 4
    Fats <- AllFats
INVARIANTS
    ChainsFollowFat
    WalksBounded
    CompleteUnlessBackLink
PROPERTIES
    Terminates
