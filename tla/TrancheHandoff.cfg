\* Two tranches of two tickets, a correction, a death or exception or foreign commit;
\* a landing that a tick died in stops every later tick.
SPECIFICATION FairSpec
CONSTANTS
    Last = 2
    Works = 2
    MaxFixes = 1
    MaxFaults = 1
INVARIANTS Consistent LandedApproved WorkOnBase
PROPERTIES HandoffComplete MeasuredInTheEnd HandsOver
CHECK_DEADLOCK FALSE
