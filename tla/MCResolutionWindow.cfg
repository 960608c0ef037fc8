SPECIFICATION Spec
CONSTANTS
    NumWorkers = 2
    Orders <- MCOrders
    BufferCap = 2
    ElemSize = 1
INVARIANTS
    ChannelExclusive
    TasksReady
    ReturnsHonest
PROPERTIES
    ClientReturns
    NotifiedInOrder
