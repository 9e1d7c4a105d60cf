\* A failure of one query is a crash of the other.
SPECIFICATION LiveSpec
CONSTANTS
    orders = orders
    inventory = inventory
    p0 = p0
    p1 = p1
    Topics = {orders, inventory}
    Partitions = {p0, p1}
    Quota <- Published
    MaxOffset = 2
    MaxOffsetsPerTrigger = 1
    MaxRuns = 2
INVARIANTS TypeOK RestartContract ExactlyOnce NoSilentLoss BoundedBatch
PROPERTIES ImplementsLog EveryRecordArrives
