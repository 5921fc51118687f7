SPECIFICATION Spec
CONSTANTS
    Workers = {w1}
    Operators = {o1, o2}
    Tickets = {t1}
    InitialStates = {"blocked"}
    MaxEvents = 2
    Lease = 1
    MayOverrun = TRUE
    MaxCrashes = 0
    MaxClock = 1
SYMMETRY Symmetry
INVARIANT Consistent
PROPERTY HistoryStays
CHECK_DEADLOCK FALSE
