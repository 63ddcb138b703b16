\* No call fails, but the process may die once.
CONSTANTS
    Requests = {r1, r2}
    Keys = {k1}
    None = none
    MaxCrashes = 1
    Faults = FALSE
SPECIFICATION FairSpec
PROPERTY InProgressResolves
CHECK_DEADLOCK FALSE
