SPECIFICATION CompareSpec
CONSTANTS
    LaneCount = 2
    MaxTurns = 2
    MaxOps = 2
    MaxOtherSaves = 0
    CompareFaults = FALSE
PROPERTIES DiscardStops
CHECK_DEADLOCK FALSE
