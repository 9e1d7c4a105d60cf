\* A run for the second day, one clearing, one OPTIMIZE; nothing is submitted to
\* Dataproc and nothing retried.
SPECIFICATION Spec
CONSTANTS
    Windows <- SomeWindows
    DayOf <- DaysOf
    MaxSubmits = 0
    MaxRewrites = 1
    TicksPerDay = 2
    MaxAge = 1
    ZThreshold = 3
    History = 2
    Dates = {1}
    Retries = 0
    MaxClears = 1
    MaxNow = 5
    NoDate = NoDate
PROPERTY ReloadsConverge
CHECK_DEADLOCK FALSE
