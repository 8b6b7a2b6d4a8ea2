SPECIFICATION Spec
CONSTANTS
    Lane <- MCLane
    Null = Null
    RowKinds <- MCRowKinds
    Layouts <- MCLayouts
    Filters <- MCFilters
    Aggregates <- MCAggregates
    FpExact = 2
    Top = 32
INVARIANTS AcceptedProgramsBalanced PrunedSegmentsEmpty AnswersExact
CHECK_DEADLOCK FALSE
