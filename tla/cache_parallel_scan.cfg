SPECIFICATION Spec
CONSTANTS
    Session = {s1}
    Col = {x, y}
    Kinds = {"sum"}
    Filters = {"none"}
    Threads = 2
    ChunkRows = 1
    SegmentRows = 2
    Keep = {1}
    InitRows = 2
    MaxRows = 2
    MaxCells = 2
    MaxPopulation = 2
    Updates = FALSE
INVARIANT HasMeansAligned
