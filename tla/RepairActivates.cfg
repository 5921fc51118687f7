\* Every worker hands over the way its card asks it to; nothing dies.
SPECIFICATION FairSpec
CONSTANTS
    P = P
    C = C
    Tickets = {P, C}
    Deps <- Chain
    Kinds = {"review"}
    MaxTries = 2
    MaxRuns = 2
    MaxRepairs = 1
    MaxCrashes = 0
PROPERTIES RepairActivates
CHECK_DEADLOCK FALSE
