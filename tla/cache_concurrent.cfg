SPECIFICATION FairSpec
CONSTANTS
    Session = {s1, s2}
    Col = {x, y}
    Kinds = {"sum", "pin"}
    Filters = {"none"}
    Threads = 1
    ChunkRows = 1
    SegmentRows = 2
    Keep = {1}
    InitRows = 2
    MaxRows = 3
    MaxCells = 3
    MaxPopulation = 2
    Updates = TRUE
INVARIANTS TypeOK ColumnWellFormed FusedCurrent PopulationNamesOneRowCount
PROPERTIES PopulationIsNotReissued RequestsEnd
