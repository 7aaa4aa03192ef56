SPECIFICATION Spec
CONSTANTS
    Boots <- HardBoots
    Target = 2
    MaxCommands = 0
    MaxQueued = 1
INVARIANTS
    TickComplete
CHECK_DEADLOCK FALSE
