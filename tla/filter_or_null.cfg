SPECIFICATION Spec
CONSTANTS
    Lane <- MCLane
    Null = Null
    RowKinds <- MCRowKinds
    Layouts <- MCLayouts
    Filters <- MCOrFilters
    Aggregates <- MCAggregates
    FpExact = 2
    Top = 32
INVARIANT NullSemanticsHonored
CHECK_DEADLOCK FALSE
