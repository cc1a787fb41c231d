SPECIFICATION FairSpec
CONSTANTS
    Client = {a, b}
    ClientId = {a, b}
    IdOf <- OwnIds
    Droppable = {}
    Channel = {x}
    Handler = Handler
    NoSender = NoSender
    Capacity = 1
    MaxNotify = 2
    Faults = {"reject"}
PROPERTIES CallsReturn Delivered
