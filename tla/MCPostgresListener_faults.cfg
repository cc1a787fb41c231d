SPECIFICATION Spec
CONSTANTS
    Client = {a, b}
    ClientId = {0, 1}
    IdOf <- NumberedIds
    Droppable = {b}
    Channel = {x}
    Handler = Handler
    NoSender = NoSender
    Capacity = 1
    MaxNotify = 3
    Faults = {"reject", "disconnect"}
INVARIANTS TypeOK InOrder
PROPERTY ImplementsPubSub
