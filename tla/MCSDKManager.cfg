SPECIFICATION Spec
CONSTANTS
    A = A
    B = B
    I1 = I1
    I2 = I2
    R1 = R1
    NoSid = NoSid
    Sids <- MCSids
    Injects <- MCInjects
    Recoveries <- MCRecoveries
    Drivers <- Two
    Exts <- Two
    InputBuffer = 1
    WebStops <- Second
SYMMETRY Symmetry
CONSTRAINT CallsAfterStop
CHECK_DEADLOCK FALSE
INVARIANTS
    TypeOK
    SubprocessIsOwned
    NoClosedSessionPinned
    DeliveredOnce
    AcceptedUnlessDriverGone
