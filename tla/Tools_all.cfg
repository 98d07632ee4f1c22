SPECIFICATION Spec
CONSTANTS
    Dirs <- MCDirs
    PassCharTbl <- MCPassCharTbl
    RawLines <- MCRawLines
    Garbled <- MCGarbled
    Scripts <- MCScripts
INVARIANTS ReadsWhatWasTyped SearchFinds LengthSearch
PROPERTIES PasswordsAgree ReturnSaysWhatHappened OutputBeside
