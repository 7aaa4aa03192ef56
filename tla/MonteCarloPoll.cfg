SPECIFICATION FairSpec
CONSTANTS
    Workers = {w1, w2}
    NumRuns = 3
    MaxSweeps = 2
    Polling = TRUE
CHECK_DEADLOCK FALSE
INVARIANTS
    TypeOK
    SlotsAreOwn
    ReturnsAll
    ContextOutlives
PROPERTY SweepsEnd
