SPECIFICATION Spec
CONSTANTS
    EntriesPerSector = 4
    HeaderSlots = 2
    FatCounts <- SmallFatCounts
INVARIANT
    DifatReadBack
