SPECIFICATION MetricsSpec
CONSTANTS
    Client = {w, s}
    WsClient = {w}
    SseClient = {s}
    AuthRequired = TRUE
    Answers <- AllAnswers
    ClientId = {0, 1}
    IdOf <- Numbered
    Droppable = {}
    Channel = {x}
    Handler = Handler
    NoSender = NoSender
    Capacity = 1
    MaxNotify = 1
    Faults = {"reject"}
    ServerFaults = {"connect", "bind", "accept"}
INVARIANTS ServersTypeOK DrainedReturn GaugesCover
PROPERTY Terminates
CHECK_DEADLOCK FALSE
