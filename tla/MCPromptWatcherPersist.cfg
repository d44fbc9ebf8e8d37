SPECIFICATION Spec
CONSTANTS
    Tools = {"bash", "edit", "ask"}
    Questions = {"ask"}
    ScreenSig <- MCScreenSig
    LocalSig <- MCLocalSig
    LogSig <- MCLogSig
    Layout <- MCLayout
    Handlers = {h1, h2}
    BufferCap = 2
INVARIANTS OneTimeGrantOnly
CHECK_DEADLOCK FALSE
