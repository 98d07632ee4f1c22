SPECIFICATION FairSpec
CONSTANTS
    EntriesPerSector = 128
    HeaderSlots = 109
    ContentCounts <- RealContentCounts
INVARIANTS
    ResultAdequate
    NeverOvershoots
PROPERTY
    Terminates
CHECK_DEADLOCK FALSE
