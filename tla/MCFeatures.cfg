\* Four dates, seven rows: rewrites of every date in any order, rebuilds anywhere.
SPECIFICATION FeatureSpec
CONSTANTS
    a = a
    b = b
    bad = bad
    c = c
    cancel = cancel
    e = e
    undated = undated
    milk = milk
    Rows = {a, b, bad, c, cancel, e, undated}
    EventOf <- Events
    DateOf <- DatesOf
    IngestTime <- Times
    Clean = {a, b, c, cancel, e}
    OrderDates = {1, 2, 3, 5}
    NoOrderDate = NoOrderDate
    Pairs = {milk}
    Units <- UnitsOf
    Cancelled = {cancel}
    Week = 2
    Fortnight = 3
    Null = Null
INVARIANT RewrittenDays
PROPERTIES NoEventLost PointInTime NullIsUnknown
