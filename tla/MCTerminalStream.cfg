SPECIFICATION FairSpec
CONSTANTS
    Feeder = Feeder
    Reader = Reader
    T1 = T1
    V1 = V1
    S1 = S1
    Timers <- OneTimer
    Streams <- OneStream
    Sockets <- OneSocket
    MaxText = 2
    MaxMessages = 4
    MaxDismissed = 2
    BatchMax = 2
    RingMax = 1
    Numbered = TRUE
    SocketsFail = TRUE
CHECK_DEADLOCK FALSE
INVARIANTS
    GapIsMarked
    ForwardedOnce
    FlushedBeforeOther
    WatcherIsForwarded
PROPERTIES
    PendingIsForwarded
