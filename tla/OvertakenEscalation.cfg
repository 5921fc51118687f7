SPECIFICATION Spec
CONSTANTS
    t1 = t1
    t2 = t2
    None = None
    Ticks = {t1, t2}
    MaxAttempts = 3
    FirstLimits = {1, 2}
    FirstCalls = 1
    MaxCalls = 2
    MaxGens = 2
    MaxRetries = 0
    Words = {"ok", "timeout"}
    MaxFaults = 1
    Orderly = FALSE
PROPERTY EscalatedInTriage
SYMMETRY TickSymmetry
CHECK_DEADLOCK FALSE
