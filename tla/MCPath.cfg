SPECIFICATION PathLiveSpec
CONSTANTS
    a = a  a2 = a2  b = b  edge = edge  past = past
    Orders = {a, a2, b, edge, past}
    EventId <- Ids
    EventTime <- Times
    Zone <- Zones
    Malformed = {}
    WatermarkDelay = 10
    Watermark = 10
    WindowLength = 5
    MaxRows = 3
    PlanAccepted = TRUE
INVARIANTS WindowReportedOnce OnTimeCounted RowsComplete OnTimeReachesGold RowsFinal NoOrderTwice
PROPERTIES SilverFeedsGold WindowsClose
