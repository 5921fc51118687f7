SPECIFICATION Spec
CONSTANTS
    Callers = {c1, c2, c3}
    Requests = {k1, k2}
    Limit = 1
    AlertThreshold = 2
    RetryDelay = 1
    MaxApprovals = 1
    MaxClock = 2
CHECK_DEADLOCK FALSE
SYMMETRY Symmetry
INVARIANTS Consistent SingleExecution BudgetUntilOverlap
PROPERTY BackoffKept
