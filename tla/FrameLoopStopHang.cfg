SPECIFICATION FairSpec
CONSTANTS
    Boots <- GapBoots
    Target = 2
    MaxCommands = 2
    MaxQueued = 1
PROPERTIES
    StopReachesAll
CHECK_DEADLOCK FALSE
