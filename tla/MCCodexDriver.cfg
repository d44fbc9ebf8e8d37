SPECIFICATION Spec
CONSTANTS
    MaxPrompts = 2
    MaxApps = 2
    MaxLines = 1
    Tells <- MessageThenTool
    Transport = "auto"
    AllowDaemonStart = TRUE
CHECK_DEADLOCK FALSE
INVARIANTS NoOrphanApp EndsAsOwed TurnNeedsThread LinesAreApplied
