SPECIFICATION BridgeSpec
CONSTANTS
    Client = {v, w, s}
    WsClient = {v, w}
    SseClient = {s}
    AuthRequired = TRUE
    Answers <- AllAnswers
    ClientId = {0, 1, 2}
    IdOf <- Apart
    Droppable = {}
    Channel = {x}
    Handler = Handler
    NoSender = NoSender
    Capacity = 1
    MaxNotify = 1
    Faults = {}
INVARIANTS NothingLeftBehind NoIdleListen MapAgrees
PROPERTIES NoDeliveryAfterUnlisten ImplementsPubSub
CHECK_DEADLOCK FALSE
