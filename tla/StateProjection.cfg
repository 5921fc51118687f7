SPECIFICATION FairSpec
CONSTANTS
    Workers = {w1, w2}
    Operators = {}
    Tickets = {t1}
    InitialStates = {"verifying", "needs_human_test"}
    MaxEvents = 2
    Lease = 1
    MayOverrun = FALSE
    MaxCrashes = 1
    MaxClock = 2
INVARIANT BoardCurrent
PROPERTY Converges
CHECK_DEADLOCK FALSE
