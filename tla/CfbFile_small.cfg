SPECIFICATION Spec
CONSTANTS
    EntriesPerSector = 16
    HeaderSlots = 1
    MiniSize = 2
    MinisPerSector = 4
    Cutoff = 16
    DirsPerSector = 4
    FixedSizes <- MCFixedSizes
    InfoSizes = {5, 7, 8}
    PackageSizes <- SmallPackages
INVARIANT
    PackageSurvives
