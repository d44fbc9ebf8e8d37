SPECIFICATION FairSpec
CONSTANTS
    Tools = {"bash", "edit"}
    Questions = {}
    ScreenSig <- MCScreenSig
    LocalSig <- MCLocalSig
    LogSig <- MCLogSig
    Layout <- MCUnreadable
    Handlers = {h1, h2}
    BufferCap = 2
INVARIANTS ActiveIsHandled
PROPERTIES EveryCardCloses
CHECK_DEADLOCK FALSE
