SPECIFICATION Spec
CONSTANTS
    Workers = {w1, w2}
    Operators = {o1}
    Tickets = {t1}
    InitialStates = {"accepted"}
    MaxEvents = 2
    Lease = 2
    MayOverrun = FALSE
    MaxCrashes = 0
    MaxClock = 4
INVARIANT BoardCurrent
CHECK_DEADLOCK FALSE
