SPECIFICATION BridgeFairSpec
CONSTANTS
    Client = {w}
    WsClient = {w}
    SseClient = {}
    AuthRequired = FALSE
    Answers <- NoAnswer
    ClientId = {0}
    IdOf <- WithinServer
    Droppable = {}
    Channel = {x, y}
    Handler = Handler
    NoSender = NoSender
    Capacity = 1
    MaxNotify = 2
    Faults = {}
PROPERTY CallsReturn
CHECK_DEADLOCK FALSE
