\* Three windows; 7 units in one of them at a level of 21 is a case in which
\* the divisions are not exact.
SPECIFICATION DetectorSpec
CONSTANTS
    Quantities = {1, 2}
    StockLevels = {0, 5, 21, 22, NULL}
    NULL = NULL
    MaxUnits = 8
    LastWindow = 2
PROPERTY AlertsAsDocumented
