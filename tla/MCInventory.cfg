SPECIFICATION LiveSpec
CONSTANTS
    milk = milk  rice = rice  old = old  new = new  tie = tie  other = other
    None = None
    Events = {old, new, tie, other}
    Keys = {milk, rice}
    KeyOf <- KeysOf
    EventTime <- Times
    PlanAccepted = TRUE
INVARIANTS InventoryCurrent
PROPERTIES NeverBackInTime EveryLevelArrives
