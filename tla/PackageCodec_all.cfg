SPECIFICATION Spec
CONSTANTS
    CellSize = 4
    BlockSize = 16
    HashSizes = {5, 16}
    Sizes <- MCSizes
INVARIANTS
    RoundTrip
    NoFalseWarning
