SPECIFICATION FairSpec
CONSTANTS
    t1 = t1
    t2 = t2
    None = None
    Ticks = {t1, t2}
    MaxAttempts = 2
    FirstLimits = {1, 2}
    FirstCalls = 1
    MaxCalls = 2
    MaxGens = 2
    MaxRetries = 1
    Words = {"ok", "timeout"}
    MaxFaults = 1
    Orderly = TRUE
INVARIANTS Consistent QuietWhenResolved SentOnce CleanUnderReview
PROPERTIES ArchivedOnly EscalatedInTriage NoticeSettles
CHECK_DEADLOCK FALSE
