SPECIFICATION FairSpec
CONSTANTS
    None = None
    Keys = {p}
    Bindings = {b1, b2}
    Devices = {d1}
    Callers = {1, 2, 3}
    QueueSize = 1
    MaxRows = 2
    MaxHandles = 2
    MaxWakes = 1
    MaxRevokes = 1
    MaxCrashes = 1
    SaveMayFail = TRUE
CONSTRAINTS FirstBinding CallsInOrder ThirdCallAlone
INVARIANT RowsAreTrue
PROPERTIES StartsAreCurrent DebtIsPaid
CHECK_DEADLOCK FALSE
