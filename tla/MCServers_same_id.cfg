SPECIFICATION MetricsSpec
CONSTANTS
    Client = {w, s}
    WsClient = {w}
    SseClient = {s}
    AuthRequired = FALSE
    Answers <- NoAnswer
    ClientId = {0, 1}
    IdOf <- Numbered
    Droppable = {}
    Channel = {x}
    Handler = Handler
    NoSender = NoSender
    Capacity = 1
    MaxNotify = 0
    Faults = {}
    ServerFaults = {}
INVARIANT EntriesKept
CHECK_DEADLOCK FALSE
