SPECIFICATION Spec
CONSTANTS
    Callers = {c1}
    Requests = {k1}
    Limit = 1
    AlertThreshold = 2
    RetryDelay = 1
    MaxApprovals = 0
    MaxClock = 1
CHECK_DEADLOCK FALSE
INVARIANT ResponseDurable
