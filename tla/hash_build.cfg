SPECIFICATION FairSpec
CONSTANTS
    Rows = 3
    MaxKey = 3
    Capacity = 3
INVARIANTS TypeOK OneSlotPerKey NoRowDropped GroupsExact
PROPERTIES TableIsCollected
