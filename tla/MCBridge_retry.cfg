SPECIFICATION BridgeSpec
CONSTANTS
    Client = {w}
    WsClient = {w}
    SseClient = {}
    AuthRequired = FALSE
    Answers <- NoAnswer
    ClientId = {0}
    IdOf <- WithinServer
    Droppable = {}
    Channel = {x}
    Handler = Handler
    NoSender = NoSender
    Capacity = 1
    MaxNotify = 0
    Faults = {"reject"}
INVARIANT ConfirmedIsHeard
CHECK_DEADLOCK FALSE
