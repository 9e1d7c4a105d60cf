\* A run for the second day, made on the third, of which no row was reported;
\* the days before have 1 and 3 orders.
SPECIFICATION Spec
CONSTANTS
    Windows <- Swinging
    DayOf <- DaysOf
    MaxSubmits = 0
    MaxRewrites = 0
    TicksPerDay = 2
    MaxAge = 1
    ZThreshold = 3
    History = 2
    Dates = {1}
    Retries = 0
    MaxClears = 0
    MaxNow = 5
    NoDate = NoDate
PROPERTY OutageStopped
CHECK_DEADLOCK FALSE
