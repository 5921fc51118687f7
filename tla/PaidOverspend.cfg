SPECIFICATION Spec
CONSTANTS
    Callers = {c1, c2}
    Requests = {k1, k2}
    Limit = 1
    AlertThreshold = 2
    RetryDelay = 1
    MaxApprovals = 0
    MaxClock = 2
CHECK_DEADLOCK FALSE
INVARIANT BudgetKept
