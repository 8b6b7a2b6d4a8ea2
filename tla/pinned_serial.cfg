SPECIFICATION PinnedSpec
CONSTANTS
    g = g
    v = v
    k = k
    w = w
    Session = {s1}
    Col = {g, v, k, w}
    GroupCol = g
    ValueCol = v
    StringCol = k
    TaxCol = w
    ColSets <- MCTogether
    StringOf <- MCStringOf
    Summands = {"column", "expression"}
    NullCells = {4}
    MaxDense = 4
    Kinds = {"sum", "group", "pin"}
    Filters = {"none", "residual", "table"}
    Threads = 2
    ChunkRows = 1
    SegmentRows = 2
    Keep = {1, 3}
    InitRows = 3
    MaxRows = 4
    MaxCells = 4
    MaxPopulation = 3
    Updates = FALSE
INVARIANTS DenseMatchesColumns GroupedRowsExact KeysDecoded PinnedCurrent
