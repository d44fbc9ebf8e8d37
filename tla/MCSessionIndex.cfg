SPECIFICATION Spec
CONSTANTS
    Claude = {"a"}
    Codex = {"c"}
    MaxSize = 2
    BootSizes = {1}
    MaxEdits = 1
    MaxErrors = 1
    TickerOn = TRUE
INVARIANTS ChangeIsSignalled CatalogWasScanned CountCoversLines
CHECK_DEADLOCK FALSE
