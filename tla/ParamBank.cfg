SPECIFICATION FairSpec
CONSTANTS
    Sets = {d, a, b}
    Valid = {a, b}
    Default = d
    Words = 2
    Readers = {r1}
    MaxCalls = 6
INVARIANTS
    ReadsAreWhole
    RollbackRestores
    StagedIsKept
CHECK_DEADLOCK FALSE
