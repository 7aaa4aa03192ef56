SPECIFICATION Spec
CONSTANTS
    Hz = 5
    MaxCycle = 40
    Requests <- MCRequests
CHECK_DEADLOCK FALSE
INVARIANTS
    TypeOK
    NoDrift
    NamedOnce
    OnGrid
PROPERTY StaysInStep
