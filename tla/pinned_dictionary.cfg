SPECIFICATION PinnedSpec
CONSTANTS
    g = g
    v = v
    k = k
    w = w
    Session = {s1}
    Col = {g, v, k, w}
    GroupCol = g
    ValueCol = v
    StringCol = k
    TaxCol = w
    ColSets <- MCAlone
    StringOf <- MCStringOf
    Summands = {"column"}
    NullCells = {3}
    MaxDense = 4
    Kinds = {"group"}
    Filters = {"none"}
    Threads = 2
    ChunkRows = 1
    SegmentRows = 2
    Keep = {1, 3}
    InitRows = 2
    MaxRows = 2
    MaxCells = 3
    MaxPopulation = 3
    Updates = FALSE
INVARIANTS KeysDecoded
