SPECIFICATION Spec
CONSTANTS
    Tables <- MCTables
    NULL = NULL
    MaxDistinct = 2
    Filters <- MCFilters
    NoFilter <- MCNoFilter
    Paths = {"", "dense", "sort", "radix", "slotlock"}
    Env = ""
    MaxSets = 1
    MaxQueries = 2
    FpExact = 8
    RadixBase = 2
    IntHalf = 8
    DenseMaxSpan = 2
    MinGroups = 2
    SafeCap = 2
    MinRows = 2
INVARIANT GroupsExact
PROPERTY QueriesEnd
CHECK_DEADLOCK FALSE
