SPECIFICATION Spec
CONSTANTS
    Kernels = {"tile", "packed", "q1_fused", "q1_dedicated", "stream"}
    Tables <- MCTables
    Card = 3
    Lanes = 4
    ReduceBatch = 2
    TileRows = 4
    MaxQ1Grid = 2
    MaxSumGrid = 2
INVARIANTS RaceFree ReductionExact
PROPERTY KernelEnds
CHECK_DEADLOCK FALSE
