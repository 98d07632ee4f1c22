SPECIFICATION FairSpec
CONSTANTS
    MaxWords = 5
    Dictionaries <- MCDictionaries
    Passwords = {"p", ""}
    NoWord = ""
    Torn = "torn"
    ThreadNum = 3
    SepNum = 4
    LaneCounts = {1, 2}
INVARIANTS
    Partition
    LostOnlyIfAbandoned
    EndIsConclusive
    RaceNeedsDuplicate
    OverreadsOnlyTail
PROPERTIES
    Terminates
