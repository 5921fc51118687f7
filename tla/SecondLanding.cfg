\* Two tranches of one ticket each; nothing goes wrong.
SPECIFICATION FairSpec
CONSTANTS
    Last = 2
    Works = 1
    MaxFixes = 0
    MaxFaults = 0
PROPERTIES EveryTrancheLands
CHECK_DEADLOCK FALSE
