\* A chain of two tickets, each way of handing over, one repair, one tick that dies.
\* All tickets may be done, and a tick that raises may leave nothing else to do.
SPECIFICATION FairSpec
CONSTANTS
    P = P
    C = C
    Tickets = {P, C}
    Deps <- Chain
    Kinds = {"review", "blocked", "done"}
    MaxTries = 2
    MaxRuns = 1
    MaxRepairs = 1
    MaxCrashes = 1
INVARIANTS Consistent ChildWaits PreparedFirst KeptParked
PROPERTIES AllDone
CHECK_DEADLOCK FALSE
