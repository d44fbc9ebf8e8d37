SPECIFICATION Spec
CONSTANTS
    Wrappers = {"w"}
    Drivers = {"d"}
    Sids = {"s", "o", "t"}
    Headless = {"t"}
    Initial = {"s"}
    Requests = {r1, r2}
    Launches <- MCLaunches
    Asks <- MCAsks
    Aliases = {"opus"}
    Official = {"off"}
    CLIModels = {"cli"}
    Custom = {"own"}
    CodexModels = {"gpt"}
    InboxCap = 2
    MaxAttempts = 2
    Configs <- MCConfigs
    MaxUser = 1
    MaxMoves = 1
    MaxLost = 1
    MaxConfig = 1
    MaxEvents = 1
INVARIANTS ModeIsCurrent OfferedIsAccepted
PROPERTIES RecordedModelWasConfirmed
SYMMETRY Symmetry
CHECK_DEADLOCK FALSE
