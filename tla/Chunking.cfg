CONSTANTS
    MaxText = 13
    Sizes <- MCSizes
    Overlaps <- MCOverlaps
SPECIFICATION Spec
INVARIANTS
    TypeOK
    CoversText
    ChunksFit
    NeighboursAdvance
PROPERTIES
    LoopAdvances
