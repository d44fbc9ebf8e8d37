SPECIFICATION Spec
CONSTANTS
    Emitters = {"pty"}
    MaxEvents = 1
    MaxTries = 2
    PendingMax = 1
    InputBuffer = 1
    MaxIds = 2
    MaxSids = 2
    MaxPrompts = 2
    MaxCrashes = 1
    MaxStalls = 1
    AllowKill = TRUE
    MayBeDown = TRUE
INVARIANTS EventHeldOnce RepeatsNeedCrash QueuedIsRead
CHECK_DEADLOCK FALSE
