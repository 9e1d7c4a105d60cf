\* Three days, runs for the second, one retry, one clearing, one OPTIMIZE and
\* one submission to Dataproc.  Everything is bounded, so the system may stop.
SPECIFICATION LiveSpec
CONSTANTS
    Windows <- SomeWindows
    DayOf <- DaysOf
    MaxSubmits = 1
    MaxRewrites = 1
    TicksPerDay = 2
    MaxAge = 1
    ZThreshold = 3
    History = 2
    Dates = {1}
    Retries = 1
    MaxClears = 1
    MaxNow = 5
    NoDate = NoDate
INVARIANTS TypeOK RetriesDoNotDouble
PROPERTIES ReloadIsScoped EveryRunEnds NoClusterLeaks
CHECK_DEADLOCK FALSE
