SPECIFICATION Spec
CONSTANTS
    call = call
    inject = inject
    command = command
    Calls = {call}
    Injects = {inject}
    Syncs = {command}
    Sockets = {command}
    NoRequest = NoRequest
    MaxConns = 3
    MaxAsked = 2
INVARIANTS
    TypeOK
    OneAtATime
    EntryIsTimed
    DeviceIsCurrent
PROPERTIES
    RequestsLive
    Recovers
CHECK_DEADLOCK FALSE
