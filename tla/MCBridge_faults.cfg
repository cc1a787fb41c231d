SPECIFICATION BridgeSpec
CONSTANTS
    Client = {w, s}
    WsClient = {w}
    SseClient = {s}
    AuthRequired = TRUE
    Answers <- AllAnswers
    ClientId = {0, 1}
    IdOf <- Apart
    Droppable = {s}
    Channel = {x, y}
    Handler = Handler
    NoSender = NoSender
    Capacity = 1
    MaxNotify = 1
    Faults = {"reject", "disconnect"}
INVARIANTS BridgeTypeOK CleanupCoversMap ListenCovered OnlyGranted ConfirmedIsFiled
CHECK_DEADLOCK FALSE
