\* One request whose store calls may fail.
CONSTANTS
    Requests = {r1, r2}
    Keys = {k1}
    None = none
    MaxCrashes = 0
    Faults = TRUE
SPECIFICATION Spec
INVARIANT ErrorMeansNoCharge
CHECK_DEADLOCK FALSE
