SPECIFICATION BridgeFairSpec
CONSTANTS
    Client = {w, s}
    WsClient = {w}
    SseClient = {s}
    AuthRequired = FALSE
    Answers <- NoAnswer
    ClientId = {0, 1}
    IdOf <- Apart
    Droppable = {}
    Channel = {x}
    Handler = Handler
    NoSender = NoSender
    Capacity = 1
    MaxNotify = 2
    Faults = {"reject"}
INVARIANT OnlyStallBlocks
PROPERTIES CallsReturnUnlessStalled CleanedUpUnlessStalled
CHECK_DEADLOCK FALSE
