SPECIFICATION Spec
CONSTANTS
    Sessions = {"s", "t"}
    Initial = {"s"}
    Mutable = {"s"}
    MaxTurns = 3
    InitialLimit = 1
    HintLimit = 2
    HotTurns = 2
    CatalogCap = 1
    MaxOps = 3
    MaxFaults = 2
    MaxOpens = 2
    MaxUploads = 1
    MaxEvents = 3
INVARIANTS SyncedTailIsStored CatalogIsCurrent HintIsNoticed
PROPERTIES DeletedWasGone
CHECK_DEADLOCK FALSE
