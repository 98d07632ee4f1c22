SPECIFICATION InfoSpec
CONSTANTS
    Infos <- MCInfos
    CutInfos <- MCCutInfos
    BufSize = 2048
INVARIANTS
    InfoSurvives
    CutIsNoticed
