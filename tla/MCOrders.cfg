\* Two stores, rain in one of them, three orders.  The process ends.
SPECIFICATION Spec
CONSTANTS
    north = north
    south = south
    milk = milk
    Stores = {north, south}
    Skus = {milk}
    SurgeStores = {north}
    LastStage = 2
    Baskets <- TwoOfEach
    Deltas <- SomeDeltas
    Seeds = {1}
    BufferSize = 2
    MaxOrders = 3
INVARIANTS TypeOK DeliveriesCoherent NeverUnderstated
CHECK_DEADLOCK FALSE
