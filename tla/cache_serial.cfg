SPECIFICATION Spec
CONSTANTS
    Session = {s1}
    Col = {x, y, z}
    Kinds = {"sum", "group", "pin"}
    Filters = {"none", "residual", "table"}
    Threads = 1
    ChunkRows = 1
    SegmentRows = 2
    Keep = {1, 3}
    InitRows = 3
    MaxRows = 5
    MaxCells = 5
    MaxPopulation = 3
    Updates = FALSE
SYMMETRY Symmetry
INVARIANTS AnswersCorrect HasMeansAligned PopulationMakesResident
