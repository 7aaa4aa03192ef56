SPECIFICATION FairSpec
CONSTANTS
    Boots <- AllBoots
    Target = 3
    MaxCommands = 3
    MaxQueued = 1
INVARIANTS
    NoFreeFrame
    FramesDispatched
    HoldIsQuiet
PROPERTIES
    StopCompletes
    RestartHappens
CHECK_DEADLOCK FALSE
