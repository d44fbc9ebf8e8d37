SPECIFICATION FairSpec
CONSTANTS
    Claude = {"a"}
    Codex = {}
    MaxSize = 1
    BootSizes = {0, 1}
    MaxEdits = 2
    MaxErrors = 0
    TickerOn = FALSE
PROPERTIES
    EventRefreshes
CHECK_DEADLOCK FALSE
