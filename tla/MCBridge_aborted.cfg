SPECIFICATION BridgeSpec
CONSTANTS
    Client = {s}
    WsClient = {}
    SseClient = {s}
    AuthRequired = FALSE
    Answers <- NoAnswer
    ClientId = {0}
    IdOf <- WithinServer
    Droppable = {s}
    Channel = {x}
    Handler = Handler
    NoSender = NoSender
    Capacity = 1
    MaxNotify = 1
    Faults = {}
INVARIANT NoIdleListen
CHECK_DEADLOCK FALSE
