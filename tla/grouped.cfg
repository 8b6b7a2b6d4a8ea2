SPECIFICATION Spec
CONSTANTS
    Cards <- MCCards
    Offsets = {1}
    Programs <- MCPrograms
    Sources = {"cold", "segments", "fused"}
    Values = {1, 3}
    Layouts <- MCLayouts
    DenseReduceCard = 2
    MaxScatterCard = 4
    MaxTileCard = 2
    MaxTileSlots = 2
    MaxTileValProgs = 2
    BatchRows = 2
    ChunkRows = 3
    VectorSize = 1
    Threads = 2
    Int32Max = 7
    FpExact = 4
INVARIANT GroupsExact
PROPERTIES ExecutionEnds ImplementsAggregation
CHECK_DEADLOCK FALSE
