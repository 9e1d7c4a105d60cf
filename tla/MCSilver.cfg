SPECIFICATION LiveSpec
CONSTANTS
    a = a  edge = edge  b = b  c = c  blank = blank  torn = torn
    Records = {a, edge, b, c, blank, torn}
    EventId <- Ids
    EventTime <- Times
    Topic = "orders"
    Wire <- Wires
    Malformed <- Bad
    WatermarkDelay = 2
    MaxRows = 3
INVARIANTS WatermarkJustified NoDuplicates OnTimeKept MalformedQuarantined StateBounded
           ReasonIsTrue OnlyValidInSilver
PROPERTY EveryRowSettled
