\* One order, the stream and the backfill.
SPECIFICATION FeatureSpec
CONSTANTS
    a = a
    b = b
    bad = bad
    c = c
    cancel = cancel
    e = e
    undated = undated
    milk = milk
    Rows = {a}
    EventOf <- Events
    DateOf <- DatesOf
    IngestTime <- Times
    Clean = {a}
    OrderDates = {1, 2, 3, 5}
    NoOrderDate = NoOrderDate
    Pairs = {milk}
    Units <- UnitsOf
    Cancelled = {}
    Week = 2
    Fortnight = 3
    Null = Null
INVARIANT SameTable
