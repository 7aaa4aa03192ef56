SPECIFICATION Spec
CONSTANTS
    Programs <- TheCatalog
    CatalogSize = 4
    SlotCount = 2
    Loaded <- LastSlotLoaded
    Room = 1
    Events = {8, 9}
    MaxInputs = 5
INVARIANTS
    StepsTimeOut
    AbortsSent
    PriorityKept
PROPERTIES
    SequencesEnd
